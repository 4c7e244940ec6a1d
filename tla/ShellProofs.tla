----------------------------- MODULE ShellProofs -------------------------------
(***************************************************************************)
(* The shell of the dashboard and the lists that the user edits: the       *)
(* invariants of KeysPage and of MembersPage, for any workspaces, people   *)
(* and bounds, with the facts about a cached query that they share; of     *)
(* WorkspaceMenu, for any number of workspaces; and of Navigation, for any *)
(* names and any lists of matches of the palette.                          *)
(***************************************************************************)
EXTENDS KeysPage, MembersPage, WorkspaceMenu, Navigation, TLAPS

\* Most leaves are set theory for Zenon; those that need more cite SMT.
USE ZenonT(30)

--------------------------------------------------------------------------------

\* A query whose list is one of R.
QueryOf(R) ==
    [rows : {None} \cup R, error : BOOLEAN, step : {"idle", "sent", "served"},
     answer : {None} \cup R, late : BOOLEAN, behind : BOOLEAN]

\* Unless an answered change of the list is still to be acknowledged, an answer
\* on its way that is not late is the server's list, and so are settled rows.
Tracks(server, changing, q) ==
    ~changing => /\ q.step = "served" /\ ~q.late => q.answer = server
                 /\ Query!Settled(q) => q.rows = server

--------------------------------------------------------------------------------

KeyRows == [keys : SUBSET Nat, revoked : SUBSET Nat]

KeysType(p) ==
    /\ p \in [name : {"keys"}, ws : KeyWorkspaces, home : Seq(KeyWorkspaces),
              revoked : SUBSET Nat, lists : [KeyWorkspaces -> QueryOf(KeyRows)],
              create : {None} \cup KeyCreates, revoke : {None} \cup KeyRevokes,
              created : {None} \cup Nat, target : {None} \cup Nat]

KeysOf(p, w) == {k \in DOMAIN p.home : p.home[k] = w}

\* The secrets on the screen are of its workspace, and so is what a call of a
\* view that is still mounted will put there.
KeysHeld(p) ==
    /\ p.created = None \/ p.created \in KeysOf(p, p.ws)
    /\ p.target = None \/ p.target \in KeysOf(p, p.ws)
    /\ p.create # None =>
          /\ p.create.here => p.create.ws = p.ws
          /\ p.create.key # None => p.create.key \in KeysOf(p, p.create.ws)
    /\ p.revoke # None => p.revoke.key \in KeysOf(p, p.revoke.ws)

\* A change that the server made in w and the page was not told of.
KeysChanging(p, w) ==
    \/ p.create # None /\ p.create.key # None /\ p.create.ws = w
    \/ p.revoke # None /\ p.revoke.done /\ p.revoke.ws = w

RowsWithin(keys, q) ==
    /\ q.rows = None \/ q.rows.keys \subseteq keys
    /\ q.answer = None \/ q.answer.keys \subseteq keys

KeysInv(p) ==
    /\ KeysType(p)
    /\ KeysHeld(p)
    /\ \A w \in KeyWorkspaces :
          /\ RowsWithin(KeysOf(p, w), p.lists[w])
          /\ Tracks(ServerRows(p, w), KeysChanging(p, w), p.lists[w])

--------------------------------------------------------------------------------

\* What the operations of the query cache do to a list that tracks the server.
LEMMA QueryTypes ==
    ASSUME NEW R, NEW q \in QueryOf(R), NEW l \in R
    PROVE  /\ Query!Ask(q) \in QueryOf(R)
           /\ Query!Invalidate(q) \in QueryOf(R)
           /\ Query!Serve(q, l) \in QueryOf(R)
           /\ Query!Land(q) \in QueryOf(R)
           /\ Query!Fail(q) \in QueryOf(R)
           /\ Query!Miss(q) \in QueryOf(R)
BY DEF QueryOf, Query!Ask, Query!Invalidate, Query!Serve, Query!Land, Query!Fail, Query!Miss

\* A fetch that starts changes nothing; one that is answered, fails or is
\* cancelled leaves no stale answer, nor does a change that is noted.
LEMMA QueryTracks ==
    ASSUME NEW R, NEW q \in QueryOf(R), NEW server, NEW changing \in BOOLEAN
    PROVE  /\ Tracks(server, changing, q) => Tracks(server, changing, Query!Ask(q))
           /\ Tracks(server, changing, Query!Invalidate(q))
           /\ Tracks(server, changing, Query!Serve(q, server))
           /\ q.step = "served" /\ Tracks(server, changing, q)
                => Tracks(server, changing, Query!Land(q))
           /\ Tracks(server, changing, Query!Fail(q))
           /\ Tracks(server, changing, Query!Miss(q))
BY DEF QueryOf, Tracks, Query!Settled, Query!Ask, Query!Invalidate, Query!Serve, Query!Land,
       Query!Fail, Query!Miss

\* No operation lists keys of another workspace.
LEMMA QueryWithin ==
    ASSUME NEW q \in QueryOf(KeyRows), NEW l \in KeyRows, NEW keys, RowsWithin(keys, q),
           l.keys \subseteq keys
    PROVE  /\ RowsWithin(keys, Query!Ask(q))
           /\ RowsWithin(keys, Query!Invalidate(q))
           /\ RowsWithin(keys, Query!Serve(q, l))
           /\ RowsWithin(keys, Query!Land(q))
           /\ RowsWithin(keys, Query!Fail(q))
           /\ RowsWithin(keys, Query!Miss(q))
BY DEF QueryOf, RowsWithin, Query!Ask, Query!Invalidate, Query!Serve, Query!Land,
       Query!Fail, Query!Miss

\* A list that was never fetched, and its first fetch.
LEMMA QueryStart ==
    ASSUME NEW R
    PROVE  /\ Query!Cold \in QueryOf(R) /\ Query!Ask(Query!Cold) \in QueryOf(R)
           /\ \A q \in {Query!Cold, Query!Ask(Query!Cold)} :
                 /\ q.rows = None /\ q.answer = None /\ q.behind /\ q.step # "served"
<1>1. /\ Query!Cold = [rows |-> None, error |-> FALSE, step |-> "idle", answer |-> None,
                       late |-> FALSE, behind |-> TRUE]
      /\ Query!Cold.step = "idle"
  BY DEF Query!Cold
<1>2. Query!Ask(Query!Cold) = [Query!Cold EXCEPT !.step = "sent"]
  BY <1>1 DEF Query!Ask
<1>3. Query!Ask(Query!Cold) = [rows |-> None, error |-> FALSE, step |-> "sent", answer |-> None,
                               late |-> FALSE, behind |-> TRUE]
  BY <1>1, <1>2
<1>4. /\ Query!Cold \in QueryOf(R) /\ Query!Cold.rows = None /\ Query!Cold.answer = None
      /\ Query!Cold.behind /\ Query!Cold.step # "served"
  BY <1>1 DEF QueryOf
<1> DEFINE a == Query!Ask(Query!Cold)
<1>5. /\ a \in QueryOf(R) /\ a.rows = None /\ a.answer = None
      /\ a.behind /\ a.step # "served"
  BY <1>3, SMTT(30) DEF QueryOf
<1> QED BY <1>4, <1>5

--------------------------------------------------------------------------------

\* The rows of the server are of that workspace.
LEMMA ServerRowsTyped ==
    ASSUME NEW p, KeysType(p), NEW w
    PROVE  /\ ServerRows(p, w) \in KeyRows
           /\ ServerRows(p, w).keys = KeysOf(p, w)
           /\ KeysOf(p, w) \subseteq Nat
           /\ KeysChanging(p, w) \in BOOLEAN
<1>1. KeysOf(p, w) \subseteq Nat
  BY SMTT(30) DEF KeysType, KeysOf
<1>2. ServerRows(p, w) = [keys |-> KeysOf(p, w), revoked |-> KeysOf(p, w) \cap p.revoked]
  BY DEF ServerRows, KeysOf
<1> QED BY <1>1, <1>2, SMTT(30) DEF KeyRows, KeysChanging, KeysType

\* A step of one list keeps the invariant if the list does.
LEMMA KeysListStep ==
    ASSUME NEW p, KeysInv(p), NEW w \in KeyWorkspaces, NEW q \in QueryOf(KeyRows),
           RowsWithin(KeysOf(p, w), q), Tracks(ServerRows(p, w), KeysChanging(p, w), q)
    PROVE  KeysInv([p EXCEPT !.lists[w] = q])
<1> DEFINE r == [p EXCEPT !.lists[w] = q]
<1>1. KeysType(r)
  BY DEF KeysInv, KeysType
<1>2. /\ r.ws = p.ws /\ r.home = p.home /\ r.revoked = p.revoked /\ r.create = p.create
      /\ r.revoke = p.revoke /\ r.created = p.created /\ r.target = p.target
      /\ r.lists = [p.lists EXCEPT ![w] = q]
  BY DEF KeysInv, KeysType
<1>3. \A v \in KeyWorkspaces : r.lists[v] = IF v = w THEN q ELSE p.lists[v]
  BY <1>2 DEF KeysInv, KeysType
<1> HIDE DEF r
<1>4. KeysHeld(r)
  BY <1>2 DEF KeysInv, KeysHeld, KeysOf
<1>5. \A v : /\ KeysOf(r, v) = KeysOf(p, v) /\ ServerRows(r, v) = ServerRows(p, v)
             /\ KeysChanging(r, v) = KeysChanging(p, v)
  BY <1>2 DEF KeysOf, ServerRows, KeysChanging
<1>6. ASSUME NEW v \in KeyWorkspaces
      PROVE  /\ RowsWithin(KeysOf(r, v), r.lists[v])
             /\ Tracks(ServerRows(r, v), KeysChanging(r, v), r.lists[v])
  BY <1>3, <1>5 DEF KeysInv
<1>7. KeysInv(r)
  BY <1>1, <1>4, <1>6 DEF KeysInv
<1> QED BY <1>7 DEF r

\* Each operation of the cache that a list takes is such a step.
LEMMA KeysQueries ==
    ASSUME NEW p, KeysInv(p), NEW w \in KeyWorkspaces
    PROVE  /\ KeysInv([p EXCEPT !.lists[w] = Query!Ask(p.lists[w])])
           /\ KeysInv([p EXCEPT !.lists[w] = Query!Invalidate(p.lists[w])])
           /\ KeysInv([p EXCEPT !.lists[w] = Query!Serve(p.lists[w], ServerRows(p, w))])
           /\ p.lists[w].step = "served"
                => KeysInv([p EXCEPT !.lists[w] = Query!Land(p.lists[w])])
           /\ KeysInv([p EXCEPT !.lists[w] = Query!Fail(p.lists[w])])
           /\ KeysInv([p EXCEPT !.lists[w] = Query!Miss(p.lists[w])])
<1> DEFINE q == p.lists[w]
           l == ServerRows(p, w)
           c == KeysChanging(p, w)
<1>1. q \in QueryOf(KeyRows) /\ RowsWithin(KeysOf(p, w), q) /\ Tracks(l, c, q)
  BY DEF KeysInv, KeysType
<1>2. l \in KeyRows /\ l.keys = KeysOf(p, w) /\ c \in BOOLEAN
  BY ServerRowsTyped DEF KeysInv
<1> HIDE DEF q, l, c
<1>3. /\ Query!Ask(q) \in QueryOf(KeyRows) /\ Query!Invalidate(q) \in QueryOf(KeyRows)
      /\ Query!Serve(q, l) \in QueryOf(KeyRows) /\ Query!Land(q) \in QueryOf(KeyRows)
      /\ Query!Fail(q) \in QueryOf(KeyRows) /\ Query!Miss(q) \in QueryOf(KeyRows)
  BY <1>1, <1>2, QueryTypes
<1>4. /\ RowsWithin(KeysOf(p, w), Query!Ask(q))
      /\ RowsWithin(KeysOf(p, w), Query!Invalidate(q))
      /\ RowsWithin(KeysOf(p, w), Query!Serve(q, l))
      /\ RowsWithin(KeysOf(p, w), Query!Land(q))
      /\ RowsWithin(KeysOf(p, w), Query!Fail(q))
      /\ RowsWithin(KeysOf(p, w), Query!Miss(q))
  BY <1>1, <1>2, QueryWithin
<1>5. /\ Tracks(l, c, Query!Ask(q)) /\ Tracks(l, c, Query!Invalidate(q))
      /\ Tracks(l, c, Query!Serve(q, l))
      /\ q.step = "served" => Tracks(l, c, Query!Land(q))
      /\ Tracks(l, c, Query!Fail(q)) /\ Tracks(l, c, Query!Miss(q))
  BY <1>1, <1>2, QueryTracks
<1>6. ASSUME NEW n \in QueryOf(KeyRows), RowsWithin(KeysOf(p, w), n), Tracks(l, c, n)
      PROVE  KeysInv([p EXCEPT !.lists[w] = n])
  BY <1>6, KeysListStep DEF l, c
<1>7. /\ KeysInv([p EXCEPT !.lists[w] = Query!Ask(q)])
      /\ KeysInv([p EXCEPT !.lists[w] = Query!Invalidate(q)])
      /\ KeysInv([p EXCEPT !.lists[w] = Query!Serve(q, l)])
      /\ q.step = "served" => KeysInv([p EXCEPT !.lists[w] = Query!Land(q)])
      /\ KeysInv([p EXCEPT !.lists[w] = Query!Fail(q)])
      /\ KeysInv([p EXCEPT !.lists[w] = Query!Miss(q)])
  BY <1>3, <1>4, <1>5, <1>6
<1> QED BY <1>7 DEF q, l

\* A step that leaves the lists alone keeps them if the keys it adds or revokes
\* are of workspaces whose change is still to be acknowledged.
LEMMA KeysListsKept ==
    ASSUME NEW p, NEW r, KeysInv(p), r.lists = p.lists,
           \A w \in KeyWorkspaces :
              /\ KeysOf(p, w) \subseteq KeysOf(r, w)
              /\ \/ KeysChanging(r, w)
                 \/ ~KeysChanging(p, w) /\ ServerRows(r, w) = ServerRows(p, w)
    PROVE  \A w \in KeyWorkspaces :
              /\ RowsWithin(KeysOf(r, w), r.lists[w])
              /\ Tracks(ServerRows(r, w), KeysChanging(r, w), r.lists[w])
<1> TAKE w \in KeyWorkspaces
<1>1. RowsWithin(KeysOf(p, w), p.lists[w]) /\ Tracks(ServerRows(p, w), KeysChanging(p, w), p.lists[w])
  BY DEF KeysInv
<1>2. RowsWithin(KeysOf(r, w), r.lists[w])
  BY <1>1 DEF RowsWithin
<1>3. Tracks(ServerRows(r, w), KeysChanging(r, w), r.lists[w])
  BY <1>1 DEF Tracks
<1> QED BY <1>2, <1>3

\* A step that neither changes the server nor ends a change keeps the lists.
LEMMA KeysQuiet ==
    ASSUME NEW r, NEW n, KeysInv(r), KeysType(n), KeysHeld(n),
           n.lists = r.lists, n.home = r.home, n.revoked = r.revoked,
           \A v \in KeyWorkspaces : KeysChanging(n, v) <=> KeysChanging(r, v)
    PROVE  KeysInv(n)
<1>1. \A v \in KeyWorkspaces :
         /\ KeysOf(n, v) = KeysOf(r, v) /\ ServerRows(n, v) = ServerRows(r, v)
         /\ KeysChanging(n, v) <=> KeysChanging(r, v)
  BY DEF KeysOf, ServerRows
<1>2. \A v \in KeyWorkspaces :
         /\ RowsWithin(KeysOf(n, v), n.lists[v])
         /\ Tracks(ServerRows(n, v), KeysChanging(n, v), n.lists[v])
  BY <1>1, KeysListsKept
<1> QED BY <1>2 DEF KeysInv

\* Leaving a workspace drops what is shown, and its calls outlive their view.
LEMMA KeysRemounted ==
    ASSUME NEW p, KeysInv(p), NEW w \in KeyWorkspaces
    PROVE  KeysInv(Remounted(p, w))
<1> DEFINE r == Remounted(p, w)
<1>1. /\ r.ws = w /\ r.home = p.home /\ r.revoked = p.revoked /\ r.lists = p.lists
      /\ r.created = None /\ r.target = None
      /\ r.create = Orphan(p.create) /\ r.revoke = Orphan(p.revoke)
  BY DEF Remounted, KeysInv, KeysType
<1>2. /\ p.create \in {None} \cup KeyCreates /\ p.revoke \in {None} \cup KeyRevokes
  BY DEF KeysInv, KeysType
<1>3. /\ p.create = None => r.create = None
      /\ p.create # None => /\ r.create \in KeyCreates /\ r.create.here = FALSE
                            /\ r.create.ws = p.create.ws /\ r.create.key = p.create.key
  BY <1>1, <1>2 DEF Orphan, KeyCreates
<1>4. /\ p.revoke = None => r.revoke = None
      /\ p.revoke # None => /\ r.revoke \in KeyRevokes /\ r.revoke.done = p.revoke.done
                            /\ r.revoke.ws = p.revoke.ws /\ r.revoke.key = p.revoke.key
  BY <1>1, <1>2 DEF Orphan, KeyRevokes
<1>5. r.create \in {None} \cup KeyCreates /\ r.revoke \in {None} \cup KeyRevokes
  BY <1>3, <1>4
<1>6. KeysType(r)
  BY <1>5, <1>1 DEF KeysInv, KeysType, Remounted
<1> HIDE DEF r
<1>7. KeysHeld(r)
  BY <1>1, <1>3, <1>4 DEF KeysInv, KeysHeld, KeysOf
<1>8. r.create # None <=> p.create # None
  BY <1>3, KeysAssumption
<1>9. r.revoke # None <=> p.revoke # None
  BY <1>4, KeysAssumption
<1>10. \A v \in KeyWorkspaces : KeysChanging(r, v) <=> KeysChanging(p, v)
  BY <1>3, <1>4, <1>8, <1>9 DEF KeysChanging
<1>11. KeysInv(r)
  BY <1>1, <1>6, <1>7, <1>10, KeysQuiet
<1> QED BY <1>11 DEF r

\* After a mutation is acknowledged the list of its workspace is fetched again,
\* or is known to be behind.
LEMMA KeysRefreshed ==
    ASSUME NEW p, KeysInv(p), NEW w \in KeyWorkspaces
    PROVE  /\ KeysInv(Refreshed(p, w))
           /\ \A server : \A changing \in BOOLEAN :
                 Tracks(server, changing, Refreshed(p, w).lists[w])
           /\ LET r == Refreshed(p, w)
              IN  /\ r.ws = p.ws /\ r.home = p.home /\ r.revoked = p.revoked
                  /\ r.create = p.create /\ r.revoke = p.revoke
                  /\ r.created = p.created /\ r.target = p.target
<1> DEFINE told == [p EXCEPT !.lists[p.ws] = Query!Invalidate(p.lists[p.ws])]
           noted == [told EXCEPT !.lists[w] = Query!Miss(told.lists[w])]
<1>1. p.ws \in KeyWorkspaces /\ p.lists \in [KeyWorkspaces -> QueryOf(KeyRows)]
  BY DEF KeysInv, KeysType
<1>2. KeysInv(told)
  BY <1>1, KeysQueries
<1>3. KeysInv(noted)
  BY <1>2, KeysQueries
<1>4. Refreshed(p, w) = IF w = p.ws THEN told ELSE noted
  BY DEF Refreshed
<1>5. /\ told.ws = p.ws /\ told.home = p.home /\ told.revoked = p.revoked
      /\ told.create = p.create /\ told.revoke = p.revoke
      /\ told.created = p.created /\ told.target = p.target
      /\ told.lists[p.ws] = Query!Invalidate(p.lists[p.ws])
  BY <1>1 DEF KeysInv, KeysType
<1>6. /\ noted.ws = told.ws /\ noted.home = told.home /\ noted.revoked = told.revoked
      /\ noted.create = told.create /\ noted.revoke = told.revoke
      /\ noted.created = told.created /\ noted.target = told.target
      /\ noted.lists[w] = Query!Miss(told.lists[w])
  BY <1>2 DEF KeysInv, KeysType
<1>7. p.lists[p.ws] \in QueryOf(KeyRows) /\ told.lists[w] \in QueryOf(KeyRows)
  BY <1>1, <1>2 DEF KeysInv, KeysType
<1> HIDE DEF told, noted
<1>8. \A server : \A changing \in BOOLEAN :
         /\ Tracks(server, changing, told.lists[p.ws])
         /\ Tracks(server, changing, noted.lists[w])
  BY <1>5, <1>6, <1>7, QueryTracks
<1>9. CASE w = p.ws
  BY <1>9, <1>2, <1>4, <1>5, <1>8
<1>10. CASE w # p.ws
  BY <1>10, <1>3, <1>4, <1>5, <1>6, <1>8
<1> QED BY <1>9, <1>10

\* A step that ends a call about w, once the list of w is being fetched or is
\* known to be behind.
LEMMA KeysAcknowledged ==
    ASSUME NEW r, NEW n, KeysInv(r), KeysType(n), KeysHeld(n), NEW w \in KeyWorkspaces,
           \A server : \A changing \in BOOLEAN : Tracks(server, changing, r.lists[w]),
           n.lists = r.lists, n.home = r.home, n.revoked = r.revoked,
           \A v \in KeyWorkspaces \ {w} : KeysChanging(n, v) <=> KeysChanging(r, v)
    PROVE  KeysInv(n)
<1>1. ASSUME NEW v \in KeyWorkspaces
      PROVE  /\ RowsWithin(KeysOf(n, v), n.lists[v])
             /\ Tracks(ServerRows(n, v), KeysChanging(n, v), n.lists[v])
  <2>1. KeysOf(n, v) = KeysOf(r, v) /\ ServerRows(n, v) = ServerRows(r, v)
    BY DEF KeysOf, ServerRows
  <2>2. RowsWithin(KeysOf(r, v), r.lists[v]) /\ Tracks(ServerRows(r, v), KeysChanging(r, v), r.lists[v])
    BY DEF KeysInv
  <2>3. KeysChanging(n, v) \in BOOLEAN
    BY ServerRowsTyped
  <2>4. CASE v = w
    BY <2>4, <2>1, <2>2, <2>3
  <2>5. CASE v # w
    <3>1. KeysChanging(n, v) <=> KeysChanging(r, v)
      BY <2>5
    <3> QED BY <3>1, <2>1, <2>2 DEF Tracks
  <2> QED BY <2>4, <2>5
<1> QED BY <1>1 DEF KeysInv

\* The invariant of the keys page, step by step.
LEMMA KeysFetches ==
    ASSUME KeysInv(page), SwitchWorkspace \/ RefetchKeys \/ ServeKeys \/ LandKeys \/ FailKeys
    PROVE  KeysInv(page')
<1>1. CASE SwitchWorkspace
  <2>1. PICK w \in KeyWorkspaces, stale \in BOOLEAN :
           page' = [Remounted(page, w) EXCEPT
               !.lists[w] = IF @.rows = None \/ stale THEN Query!Ask(@) ELSE @]
    BY <1>1 DEF SwitchWorkspace
  <2> DEFINE r == Remounted(page, w)
  <2>2. KeysInv(r)
    BY KeysRemounted
  <2>3. page' = [r EXCEPT !.lists[w] = IF r.lists[w].rows = None \/ stale
                                       THEN Query!Ask(r.lists[w]) ELSE r.lists[w]]
    BY <2>1
  <2> HIDE DEF r
  <2>4. CASE r.lists[w].rows = None \/ stale
    BY <2>2, <2>3, <2>4, KeysQueries
  <2>5. CASE ~(r.lists[w].rows = None \/ stale)
    <3>1. page' = [r EXCEPT !.lists[w] = r.lists[w]]
      BY <2>3, <2>5
    <3>2. [r EXCEPT !.lists[w] = r.lists[w]] = r
      BY <2>2 DEF KeysInv, KeysType
    <3> QED BY <2>2, <3>1, <3>2
  <2> QED BY <2>4, <2>5
<1>2. CASE RefetchKeys
  <2>1. page' = [page EXCEPT !.lists[page.ws] = Query!Ask(page.lists[page.ws])]
    BY <1>2 DEF RefetchKeys
  <2>2. page.ws \in KeyWorkspaces
    BY DEF KeysInv, KeysType
  <2> QED BY <2>1, <2>2, KeysQueries
<1>3. CASE ServeKeys
  <2>1. PICK w \in KeyWorkspaces :
           page' = [page EXCEPT !.lists[w] = Query!Serve(page.lists[w], ServerRows(page, w))]
    BY <1>3 DEF ServeKeys
  <2> QED BY <2>1, KeysQueries
<1>4. CASE LandKeys
  <2>1. PICK w \in KeyWorkspaces :
           /\ page.lists[w].step = "served"
           /\ page' = [page EXCEPT !.lists[w] = Query!Land(page.lists[w])]
    BY <1>4 DEF LandKeys
  <2> QED BY <2>1, KeysQueries
<1>5. CASE FailKeys
  <2>1. PICK w \in KeyWorkspaces :
           page' = [page EXCEPT !.lists[w] = Query!Fail(page.lists[w])]
    BY <1>5 DEF FailKeys
  <2> QED BY <2>1, KeysQueries
<1> QED BY <1>1, <1>2, <1>3, <1>4, <1>5

\* Creating a key and closing its secret keep the invariant of the keys.
LEMMA KeysCreates ==
    ASSUME KeysInv(page), SubmitKey \/ CreateKeyOnServer \/ KeyCreated \/ CreateKeyFails \/ CloseReveal
    PROVE  KeysInv(page')
<1> USE KeysAssumption
<1>0. /\ page.create \in {None} \cup KeyCreates /\ page.home \in Seq(KeyWorkspaces)
      /\ page.ws \in KeyWorkspaces /\ KeysType(page) /\ KeysHeld(page)
  BY DEF KeysInv, KeysType
<1>1. CASE SubmitKey
  <2> DEFINE c == [ws |-> page.ws, key |-> None, here |-> TRUE]
  <2>1. c \in KeyCreates /\ c.key = None /\ c.ws = page.ws
    BY <1>0 DEF KeyCreates
  <2>2. page' = [page EXCEPT !.create = c] /\ page.create = None
    BY <1>1 DEF SubmitKey
  <2> HIDE DEF c
  <2>3. KeysType(page')
    BY <2>1, <2>2, <1>0 DEF KeysType
  <2>4. /\ page'.ws = page.ws /\ page'.home = page.home /\ page'.revoked = page.revoked
        /\ page'.lists = page.lists /\ page'.create = c /\ page'.revoke = page.revoke
        /\ page'.created = page.created /\ page'.target = page.target
    BY <2>2, <1>0 DEF KeysType
  <2>5. KeysHeld(page')
    BY <2>1, <2>4, <1>0 DEF KeysHeld, KeysOf
  <2>6. \A v \in KeyWorkspaces : KeysChanging(page', v) <=> KeysChanging(page, v)
    BY <2>1, <2>2, <2>4 DEF KeysChanging
  <2> QED BY <2>3, <2>4, <2>5, <2>6, KeysQuiet
<1>2. CASE CreateKeyOnServer
  <2> DEFINE k == Len(page.home) + 1
             c == [page.create EXCEPT !.key = k]
             h == Append(page.home, page.create.ws)
  <2>1. page.create \in KeyCreates /\ page.create.key = None
    BY <1>0, <1>2 DEF CreateKeyOnServer
  <2>2. page' = [page EXCEPT !.create.key = k, !.home = h]
    BY <1>2 DEF CreateKeyOnServer
  <2>5. /\ h \in Seq(KeyWorkspaces) /\ k \in DOMAIN h /\ h[k] = page.create.ws /\ k \in Nat
        /\ \A j \in DOMAIN page.home : j \in DOMAIN h /\ h[j] = page.home[j]
        /\ DOMAIN h = DOMAIN page.home \cup {k}
    BY <2>1, <1>0, SMTT(30) DEF KeyCreates
  <2>6. c \in KeyCreates /\ c.key = k /\ c.ws = page.create.ws /\ c.here = page.create.here
        /\ c # None /\ k # None
    BY <2>1, <2>5 DEF KeyCreates
  <2>7. page' = [page EXCEPT !.create = c, !.home = h]
    BY <2>2, <1>0 DEF KeysType
  <2> HIDE DEF k, c, h
  <2>8. KeysType(page')
    BY <2>5, <2>6, <2>7, <1>0 DEF KeysType
  <2>9. /\ page'.ws = page.ws /\ page'.home = h /\ page'.revoked = page.revoked
        /\ page'.lists = page.lists /\ page'.create = c /\ page'.revoke = page.revoke
        /\ page'.created = page.created /\ page'.target = page.target
    BY <2>7, <1>0 DEF KeysType
  <2>10. \A w : KeysOf(page, w) \subseteq KeysOf(page', w)
    BY <2>5, <2>9 DEF KeysOf
  <2>11. k \in KeysOf(page', c.ws)
    BY <2>5, <2>6, <2>9 DEF KeysOf
  <2>12. KeysHeld(page')
    BY <2>6, <2>9, <2>10, <2>11, <1>0, <2>1 DEF KeysHeld
  <2>13. ASSUME NEW w \in KeyWorkspaces
         PROVE  \/ KeysChanging(page', w)
                \/ ~KeysChanging(page, w) /\ ServerRows(page', w) = ServerRows(page, w)
    <3>1. CASE w = c.ws
      BY <3>1, <2>6, <2>9 DEF KeysChanging
    <3>2. CASE w # c.ws
      <4>1. {j \in DOMAIN h : h[j] = w} = {j \in DOMAIN page.home : page.home[j] = w}
        BY <3>2, <2>5, <2>6
      <4>2. ServerRows(page', w) = ServerRows(page, w)
        BY <4>1, <2>9 DEF ServerRows
      <4>3. KeysChanging(page, w) => KeysChanging(page', w)
        BY <2>1, <2>9 DEF KeysChanging
      <4> QED BY <4>2, <4>3
    <3> QED BY <3>1, <3>2
  <2>14. \A w \in KeyWorkspaces :
           /\ RowsWithin(KeysOf(page', w), page'.lists[w])
           /\ Tracks(ServerRows(page', w), KeysChanging(page', w), page'.lists[w])
    BY <2>9, <2>10, <2>13, KeysListsKept
  <2> QED BY <2>8, <2>12, <2>14 DEF KeysInv
<1>3. CASE KeyCreated
  <2> DEFINE cw == page.create.ws
             r == Refreshed(page, cw)
             made == IF page.create.here THEN page.create.key ELSE page.created
  <2>1. page.create \in KeyCreates /\ page.create.key # None
    BY <1>0, <1>3 DEF KeyCreated
  <2>2. cw \in KeyWorkspaces /\ page.create.key \in Nat
    BY <2>1 DEF KeyCreates
  <2>3. /\ KeysInv(r) /\ \A server : \A changing \in BOOLEAN : Tracks(server, changing, r.lists[cw])
        /\ r.ws = page.ws /\ r.home = page.home /\ r.revoked = page.revoked
        /\ r.create = page.create /\ r.revoke = page.revoke
        /\ r.created = page.created /\ r.target = page.target
    BY <2>2, KeysRefreshed
  <2>4. page' = [r EXCEPT !.create = None, !.created = IF page.create.here THEN page.create.key ELSE @]
    BY <1>3 DEF KeyCreated
  <2> HIDE DEF r
  <2>5. page' = [r EXCEPT !.create = None, !.created = made]
    BY <2>3, <2>4
  <2>6. made \in {None} \cup Nat /\ (made = None \/ made \in KeysOf(page, page.ws))
    BY <1>0, <2>1, <2>2 DEF KeysHeld, KeysType
  <2> HIDE DEF made
  <2>7. KeysType(page')
    BY <2>3, <2>5, <2>6 DEF KeysInv, KeysType
  <2>8. /\ page'.ws = page.ws /\ page'.home = page.home /\ page'.revoked = page.revoked
        /\ page'.lists = r.lists /\ page'.create = None /\ page'.revoke = page.revoke
        /\ page'.created = made /\ page'.target = page.target
    BY <2>3, <2>5 DEF KeysInv, KeysType
  <2>9. KeysHeld(page')
    BY <2>6, <2>8, <1>0 DEF KeysHeld, KeysOf
  <2>10. \A v \in KeyWorkspaces \ {cw} : KeysChanging(page', v) <=> KeysChanging(r, v)
    BY <2>3, <2>8, SMTT(30) DEF KeysChanging
  <2> QED BY <2>2, <2>3, <2>7, <2>8, <2>9, <2>10, KeysAcknowledged
<1>4. CASE CreateKeyFails
  <2> DEFINE cw == page.create.ws
             q == IF page.create.key = None THEN page.lists[cw] ELSE Query!Miss(page.lists[cw])
             r == [page EXCEPT !.lists[cw] = q]
  <2>1. page.create \in KeyCreates /\ cw \in KeyWorkspaces
    BY <1>0, <1>4 DEF CreateKeyFails, KeyCreates
  <2>2. page' = [page EXCEPT !.create = None, !.lists[cw] = q]
    BY <1>4 DEF CreateKeyFails
  <2>3. KeysInv(r)
    <3>1. CASE page.create.key = None
      <4>1. r = page
        BY <3>1, <1>0, <2>1 DEF KeysType
      <4> QED BY <4>1
    <3>2. CASE page.create.key # None
      BY <3>2, <2>1, KeysQueries
    <3> QED BY <3>1, <3>2
  <2>4. page' = [r EXCEPT !.create = None]
    BY <2>2, <1>0 DEF KeysType
  <2>5. /\ r.ws = page.ws /\ r.home = page.home /\ r.revoked = page.revoked
        /\ r.create = page.create /\ r.revoke = page.revoke
        /\ r.created = page.created /\ r.target = page.target /\ r.lists[cw] = q
    BY <1>0, <2>1 DEF KeysType
  <2> HIDE DEF r
  <2>6. KeysType(page')
    BY <2>3, <2>4 DEF KeysInv, KeysType
  <2>7. /\ page'.ws = page.ws /\ page'.home = r.home /\ page'.revoked = r.revoked
        /\ page'.lists = r.lists /\ page'.create = None /\ page'.revoke = r.revoke
        /\ page'.created = page.created /\ page'.target = page.target
    BY <2>3, <2>4, <2>5 DEF KeysInv, KeysType
  <2>8. KeysHeld(page')
    BY <2>5, <2>7, <1>0 DEF KeysHeld, KeysOf
  <2>9. \A v \in KeyWorkspaces \ {cw} : KeysChanging(page', v) <=> KeysChanging(r, v)
    BY <2>5, <2>7, SMTT(30) DEF KeysChanging
  <2>10. CASE page.create.key # None
    <3>1. page.lists[cw] \in QueryOf(KeyRows) /\ r.lists[cw] = Query!Miss(page.lists[cw])
      BY <2>10, <1>0, <2>1, <2>5 DEF KeysType
    <3>2. \A server : \A changing \in BOOLEAN : Tracks(server, changing, r.lists[cw])
      BY <3>1, QueryTracks
    <3> QED BY <3>2, <2>1, <2>3, <2>6, <2>7, <2>8, <2>9, KeysAcknowledged
  <2>11. CASE page.create.key = None
    <3>1. \A v \in KeyWorkspaces : KeysChanging(page', v) <=> KeysChanging(r, v)
      BY <2>11, <2>5, <2>7 DEF KeysChanging
    <3> QED BY <3>1, <2>3, <2>6, <2>7, <2>8, KeysQuiet
  <2> QED BY <2>10, <2>11
<1>5. CASE CloseReveal
  <2>1. KeysType(page')
    BY <1>5, <1>0 DEF CloseReveal, KeysType
  <2>2. /\ page'.ws = page.ws /\ page'.home = page.home /\ page'.revoked = page.revoked
        /\ page'.lists = page.lists /\ page'.create = page.create /\ page'.revoke = page.revoke
        /\ page'.created = None /\ page'.target = page.target
    BY <1>5, <1>0 DEF CloseReveal, KeysType
  <2>3. KeysHeld(page')
    BY <2>2, <1>0 DEF KeysHeld, KeysOf
  <2>4. \A v \in KeyWorkspaces : KeysChanging(page', v) <=> KeysChanging(page, v)
    BY <2>2 DEF KeysChanging
  <2> QED BY <2>1, <2>2, <2>3, <2>4, KeysQuiet
<1> QED BY <1>1, <1>2, <1>3, <1>4, <1>5

\* Revoking a key keeps the invariant of the keys.
LEMMA KeysRevokesStep ==
    ASSUME KeysInv(page),
           AskRevoke \/ CancelRevoke \/ ConfirmRevoke \/ RevokeOnServer \/ KeyRevoked \/ RevokeFails
    PROVE  KeysInv(page')
<1> USE KeysAssumption
<1>0. /\ page.revoke \in {None} \cup KeyRevokes /\ page.target \in {None} \cup Nat
      /\ page.ws \in KeyWorkspaces /\ KeysType(page) /\ KeysHeld(page)
      /\ page.lists[page.ws] \in QueryOf(KeyRows)
      /\ RowsWithin(KeysOf(page, page.ws), page.lists[page.ws])
      /\ KeysOf(page, page.ws) \subseteq Nat
  BY ServerRowsTyped DEF KeysInv, KeysType
<1>1. Listed(page) \subseteq KeysOf(page, page.ws)
  BY <1>0 DEF Listed, RowsWithin
<1>2. ASSUME NEW t, t = None \/ t \in KeysOf(page, page.ws), page' = [page EXCEPT !.target = t]
      PROVE  KeysInv(page')
  <2>1. KeysType(page')
    BY <1>2, <1>0 DEF KeysType
  <2>2. /\ page'.ws = page.ws /\ page'.home = page.home /\ page'.revoked = page.revoked
        /\ page'.lists = page.lists /\ page'.create = page.create /\ page'.revoke = page.revoke
        /\ page'.created = page.created /\ page'.target = t
    BY <1>2, <1>0 DEF KeysType
  <2>3. KeysHeld(page')
    BY <2>2, <1>0, <1>2 DEF KeysHeld, KeysOf
  <2>4. \A v \in KeyWorkspaces : KeysChanging(page', v) <=> KeysChanging(page, v)
    BY <2>2 DEF KeysChanging
  <2> QED BY <2>1, <2>2, <2>3, <2>4, KeysQuiet
<1>3. CASE AskRevoke
  BY <1>3, <1>1, <1>2 DEF AskRevoke
<1>4. CASE CancelRevoke
  BY <1>4, <1>2 DEF CancelRevoke
<1>5. CASE ConfirmRevoke
  <2> DEFINE c == [ws |-> page.ws, key |-> page.target, here |-> TRUE, done |-> FALSE]
  <2>1. page.target \in KeysOf(page, page.ws) /\ page.revoke = None
    BY <1>5, <1>1 DEF ConfirmRevoke
  <2>2. c \in KeyRevokes /\ ~c.done /\ c.key = page.target /\ c.ws = page.ws
    BY <1>0, <2>1 DEF KeyRevokes
  <2>3. page' = [page EXCEPT !.revoke = c]
    BY <1>5 DEF ConfirmRevoke
  <2> HIDE DEF c
  <2>4. KeysType(page')
    BY <2>2, <2>3, <1>0 DEF KeysType
  <2>5. /\ page'.ws = page.ws /\ page'.home = page.home /\ page'.revoked = page.revoked
        /\ page'.lists = page.lists /\ page'.create = page.create /\ page'.revoke = c
        /\ page'.created = page.created /\ page'.target = page.target
    BY <2>3, <1>0 DEF KeysType
  <2>6. KeysHeld(page')
    BY <2>1, <2>2, <2>5, <1>0 DEF KeysHeld, KeysOf
  <2>7. \A v \in KeyWorkspaces : KeysChanging(page', v) <=> KeysChanging(page, v)
    BY <2>1, <2>2, <2>5 DEF KeysChanging
  <2> QED BY <2>4, <2>5, <2>6, <2>7, KeysQuiet
<1>6. CASE RevokeOnServer
  <2> DEFINE c == [page.revoke EXCEPT !.done = TRUE]
             gone == page.revoked \cup {page.revoke.key}
  <2>1. page.revoke \in KeyRevokes /\ ~page.revoke.done
    BY <1>6, <1>0 DEF RevokeOnServer
  <2>2. /\ c \in KeyRevokes /\ c # None /\ c.done /\ c.key = page.revoke.key
        /\ c.ws = page.revoke.ws /\ page.revoke.key \in Nat
    BY <2>1 DEF KeyRevokes
  <2>3. page' = [page EXCEPT !.revoke = c, !.revoked = gone]
    BY <1>6, <1>0 DEF RevokeOnServer, KeysType
  <2>4. KeysType(page')
    BY <2>2, <2>3, <1>0 DEF KeysType
  <2>5. /\ page'.ws = page.ws /\ page'.home = page.home /\ page'.revoked = gone
        /\ page'.lists = page.lists /\ page'.create = page.create /\ page'.revoke = c
        /\ page'.created = page.created /\ page'.target = page.target
    BY <2>3, <1>0 DEF KeysType
  <2> HIDE DEF c
  <2>6. page.revoke.key \in KeysOf(page, page.revoke.ws)
    BY <2>1, <1>0 DEF KeysHeld
  <2>7. KeysHeld(page')
    BY <2>2, <2>5, <2>6, <1>0 DEF KeysHeld, KeysOf
  <2>8. ASSUME NEW w \in KeyWorkspaces
        PROVE  \/ KeysChanging(page', w)
               \/ ~KeysChanging(page, w) /\ ServerRows(page', w) = ServerRows(page, w)
    <3>1. CASE w = c.ws
      BY <3>1, <2>2, <2>5 DEF KeysChanging
    <3>2. CASE w # c.ws
      <4>1. page.revoke.key \notin KeysOf(page, w)
        BY <3>2, <2>2, <2>6 DEF KeysOf
      <4>2. KeysOf(page, w) \cap gone = KeysOf(page, w) \cap page.revoked
        BY <4>1
      <4>3. ServerRows(page', w) = ServerRows(page, w)
        BY <4>2, <2>5 DEF ServerRows, KeysOf
      <4>4. KeysChanging(page, w) => KeysChanging(page', w)
        BY <2>1, <2>5 DEF KeysChanging
      <4> QED BY <4>3, <4>4
    <3> QED BY <3>1, <3>2
  <2>9. \A w \in KeyWorkspaces : KeysOf(page, w) \subseteq KeysOf(page', w)
    BY <2>5 DEF KeysOf
  <2>10. \A w \in KeyWorkspaces :
           /\ RowsWithin(KeysOf(page', w), page'.lists[w])
           /\ Tracks(ServerRows(page', w), KeysChanging(page', w), page'.lists[w])
    BY <2>5, <2>8, <2>9, KeysListsKept
  <2> QED BY <2>4, <2>7, <2>10 DEF KeysInv
<1>7. CASE KeyRevoked
  <2> DEFINE cw == page.revoke.ws
             r == Refreshed(page, cw)
             t == IF page.revoke.here THEN None ELSE page.target
  <2>1. cw \in KeyWorkspaces
    BY <1>0, <1>7 DEF KeyRevoked, KeyRevokes
  <2>2. /\ KeysInv(r) /\ \A server : \A changing \in BOOLEAN : Tracks(server, changing, r.lists[cw])
        /\ r.ws = page.ws /\ r.home = page.home /\ r.revoked = page.revoked
        /\ r.create = page.create /\ r.revoke = page.revoke
        /\ r.created = page.created /\ r.target = page.target
    BY <2>1, KeysRefreshed
  <2>3. page' = [r EXCEPT !.revoke = None, !.target = IF page.revoke.here THEN None ELSE @]
    BY <1>7 DEF KeyRevoked
  <2> HIDE DEF r
  <2>4. page' = [r EXCEPT !.revoke = None, !.target = t]
    BY <2>2, <2>3
  <2>5. t \in {None} \cup Nat /\ (t = None \/ t = page.target)
    BY <1>0
  <2> HIDE DEF t
  <2>6. KeysType(page')
    BY <2>2, <2>4, <2>5 DEF KeysInv, KeysType
  <2>7. /\ page'.ws = page.ws /\ page'.home = r.home /\ page'.revoked = r.revoked
        /\ page'.lists = r.lists /\ page'.create = page.create /\ page'.revoke = None
        /\ page'.created = page.created /\ page'.target = t
    BY <2>2, <2>4 DEF KeysInv, KeysType
  <2>8. KeysHeld(page')
    BY <2>2, <2>5, <2>7, <1>0 DEF KeysHeld, KeysOf
  <2>9. \A v \in KeyWorkspaces \ {cw} : KeysChanging(page', v) <=> KeysChanging(r, v)
    BY <2>2, <2>7, SMTT(30) DEF KeysChanging
  <2> QED BY <2>1, <2>2, <2>6, <2>7, <2>8, <2>9, KeysAcknowledged
<1>8. CASE RevokeFails
  <2> DEFINE cw == page.revoke.ws
             q == IF page.revoke.done THEN Query!Miss(page.lists[cw]) ELSE page.lists[cw]
             r == [page EXCEPT !.lists[cw] = q]
  <2>1. page.revoke \in KeyRevokes /\ cw \in KeyWorkspaces
    BY <1>0, <1>8 DEF RevokeFails, KeyRevokes
  <2>2. page' = [page EXCEPT !.revoke = None, !.lists[cw] = q]
    BY <1>8 DEF RevokeFails
  <2>3. KeysInv(r)
    <3>1. CASE ~page.revoke.done
      <4>1. r = page
        BY <3>1, <1>0, <2>1 DEF KeysType
      <4> QED BY <4>1
    <3>2. CASE page.revoke.done
      BY <3>2, <2>1, KeysQueries
    <3> QED BY <3>1, <3>2
  <2>4. page' = [r EXCEPT !.revoke = None]
    BY <2>2, <1>0 DEF KeysType
  <2>5. /\ r.ws = page.ws /\ r.home = page.home /\ r.revoked = page.revoked
        /\ r.create = page.create /\ r.revoke = page.revoke
        /\ r.created = page.created /\ r.target = page.target /\ r.lists[cw] = q
    BY <1>0, <2>1 DEF KeysType
  <2> HIDE DEF r
  <2>6. KeysType(page')
    BY <2>3, <2>4 DEF KeysInv, KeysType
  <2>7. /\ page'.ws = page.ws /\ page'.home = r.home /\ page'.revoked = r.revoked
        /\ page'.lists = r.lists /\ page'.create = r.create /\ page'.revoke = None
        /\ page'.created = page.created /\ page'.target = page.target
    BY <2>3, <2>4, <2>5 DEF KeysInv, KeysType
  <2>8. KeysHeld(page')
    BY <2>5, <2>7, <1>0 DEF KeysHeld, KeysOf
  <2>9. \A v \in KeyWorkspaces \ {cw} : KeysChanging(page', v) <=> KeysChanging(r, v)
    BY <2>5, <2>7, SMTT(30) DEF KeysChanging
  <2>10. CASE page.revoke.done
    <3>1. page.lists[cw] \in QueryOf(KeyRows) /\ r.lists[cw] = Query!Miss(page.lists[cw])
      BY <2>10, <1>0, <2>1, <2>5 DEF KeysType
    <3>2. \A server : \A changing \in BOOLEAN : Tracks(server, changing, r.lists[cw])
      BY <3>1, QueryTracks
    <3> QED BY <3>2, <2>1, <2>3, <2>6, <2>7, <2>8, <2>9, KeysAcknowledged
  <2>11. CASE ~page.revoke.done
    <3>1. \A v \in KeyWorkspaces : KeysChanging(page', v) <=> KeysChanging(r, v)
      BY <2>11, <2>5, <2>7 DEF KeysChanging
    <3> QED BY <3>1, <2>3, <2>6, <2>7, <2>8, KeysQuiet
  <2> QED BY <2>10, <2>11
<1> QED BY <1>3, <1>4, <1>5, <1>6, <1>7, <1>8

\* Every step of the keys page keeps its invariant.
LEMMA KeysStep == ASSUME KeysInv(page), KeysNext PROVE KeysInv(page')
BY KeysFetches, KeysCreates, KeysRevokesStep DEF KeysNext

\* The page mounts with its invariant: nothing is listed and nothing is shown.
LEMMA KeysStart == ASSUME NEW p \in KeysInit PROVE KeysInv(p)
<1>1. PICK w \in KeyWorkspaces :
         p = [name |-> "keys", ws |-> w, home |-> <<w>>, revoked |-> {},
              lists |-> [v \in KeyWorkspaces |->
                            IF v = w THEN Query!Ask(Query!Cold) ELSE Query!Cold],
              create |-> None, revoke |-> None, created |-> None, target |-> None]
  BY DEF KeysInit
<1>2. /\ Query!Cold \in QueryOf(KeyRows) /\ Query!Ask(Query!Cold) \in QueryOf(KeyRows)
      /\ \A q \in {Query!Cold, Query!Ask(Query!Cold)} :
            /\ q.rows = None /\ q.answer = None /\ q.behind /\ q.step # "served"
  BY QueryStart
<1>3. \A v \in KeyWorkspaces : p.lists[v] \in {Query!Cold, Query!Ask(Query!Cold)}
  BY <1>1
<1>4. KeysType(p)
  BY <1>1, <1>2, SMTT(30) DEF KeysType
<1>5. KeysHeld(p)
  BY <1>1 DEF KeysHeld
<1>6. \A v \in KeyWorkspaces :
         /\ RowsWithin(KeysOf(p, v), p.lists[v])
         /\ Tracks(ServerRows(p, v), KeysChanging(p, v), p.lists[v])
  BY <1>2, <1>3 DEF RowsWithin, Tracks, Query!Settled
<1> QED BY <1>4, <1>5, <1>6 DEF KeysInv

\* What the invariant says of the screen.
LEMMA KeysShown ==
    ASSUME KeysInv(page)
    PROVE  KeysCatchUp /\ SecretsStayHome
<1>1. page.ws \in KeyWorkspaces
  BY DEF KeysInv, KeysType
<1>2. KeysCatchUp
  BY <1>1 DEF KeysInv, KeysCatchUp, Tracks, KeysChanging
<1>3. SecretsStayHome
  BY DEF KeysInv, KeysHeld, KeysOf, SecretsStayHome
<1> QED BY <1>2, <1>3

--------------------------------------------------------------------------------

MemberActs == [kind : {"remove", "revoke"}, who : People, step : {"sent", "done", "refused"}]

MembersType(p) ==
    /\ p.name = "members"
    /\ DOMAIN p = {"name", "members", "invites", "links", "people", "pending", "inviting",
                   "created", "acts", "busy", "lost"}
    /\ p.members \subseteq People
    /\ DOMAIN p.invites \subseteq People
    /\ p.links \in Nat
    /\ p.people \in QueryOf(SUBSET People)
    /\ p.pending \in QueryOf(SUBSET People)
    /\ p.inviting \in {None} \cup Invitations
    /\ p.created \in {None} \cup Invitations
    /\ p.acts \subseteq MemberActs

Acting(p, kind) == \E a \in p.acts : a.kind = kind /\ a.step = "done"

\* A new link that the server made and the page was not told of.
LinkMade(p) == p.inviting # None /\ p.inviting.link # None

\* The invite i is not pending, or its link is the one that works.
LinkWorks(p, i) == i.email \in DOMAIN p.invites => p.invites[i.email] = i.link

MembersInv(p) ==
    /\ MembersType(p)
    /\ Tracks(p.members, Acting(p, "remove"), p.people)
    /\ Tracks(DOMAIN p.invites, Acting(p, "revoke") \/ LinkMade(p), p.pending)
    /\ LinkMade(p) => LinkWorks(p, p.inviting)
    /\ p.created # None /\ ~p.lost =>
          LinkWorks(p, p.created) \/ (LinkMade(p) /\ p.inviting.email = p.created.email)

\* A step that leaves the invites, the links and the acts alone, and the lists
\* either alone or as the query cache leaves them.
LEMMA MembersQuiet ==
    ASSUME NEW p, NEW r, MembersInv(p), DOMAIN r = DOMAIN p, r.name = p.name,
           r.members = p.members, r.invites = p.invites, r.links = p.links,
           r.inviting = p.inviting, r.created = p.created, r.acts = p.acts, r.lost = p.lost,
           r.people \in QueryOf(SUBSET People), r.pending \in QueryOf(SUBSET People),
           Tracks(p.members, Acting(p, "remove"), r.people),
           Tracks(DOMAIN p.invites, Acting(p, "revoke") \/ LinkMade(p), r.pending)
    PROVE  MembersInv(r)
<1>1. MembersType(r)
  BY DEF MembersInv, MembersType
<1>2. /\ Acting(r, "remove") <=> Acting(p, "remove")
      /\ Acting(r, "revoke") <=> Acting(p, "revoke")
      /\ LinkMade(r) <=> LinkMade(p)
      /\ \A i : LinkWorks(r, i) <=> LinkWorks(p, i)
  BY DEF Acting, LinkMade, LinkWorks
<1>3. /\ Tracks(r.members, Acting(r, "remove"), r.people)
      /\ Tracks(DOMAIN r.invites, Acting(r, "revoke") \/ LinkMade(r), r.pending)
  BY <1>2 DEF Tracks
<1> QED BY <1>1, <1>2, <1>3 DEF MembersInv

\* The types of the fields, one by one.
LEMMA MembersFields ==
    ASSUME MembersInv(page)
    PROVE  /\ page.people \in QueryOf(SUBSET People) /\ page.pending \in QueryOf(SUBSET People)
           /\ page.members \in SUBSET People /\ DOMAIN page.invites \in SUBSET People
           /\ page.inviting \in {None} \cup Invitations
           /\ page.created \in {None} \cup Invitations
           /\ page.acts \subseteq MemberActs /\ page.links \in Nat
           /\ Acting(page, "remove") \in BOOLEAN
           /\ (Acting(page, "revoke") \/ LinkMade(page)) \in BOOLEAN
           /\ Tracks(page.members, Acting(page, "remove"), page.people)
           /\ Tracks(DOMAIN page.invites, Acting(page, "revoke") \/ LinkMade(page), page.pending)
BY DEF MembersInv, MembersType, Acting

\* The steps of the two queries keep the invariant of the members.
LEMMA MembersFetches ==
    ASSUME MembersInv(page), RefetchMembers \/ ServeMembers \/ LandMembers \/ FailMembers
    PROVE  MembersInv(page')
<1> DEFINE m == page.members
           e == DOMAIN page.invites
           removing == Acting(page, "remove")
           revoking == Acting(page, "revoke") \/ LinkMade(page)
<1>1. /\ page.people \in QueryOf(SUBSET People) /\ page.pending \in QueryOf(SUBSET People)
      /\ m \in SUBSET People /\ e \in SUBSET People /\ removing \in BOOLEAN /\ revoking \in BOOLEAN
      /\ Tracks(m, removing, page.people) /\ Tracks(e, revoking, page.pending)
  BY MembersFields
<1>2. ASSUME NEW q \in QueryOf(SUBSET People), Tracks(m, removing, q),
             page' = [page EXCEPT !.people = q]
      PROVE  MembersInv(page')
  <2>1. /\ DOMAIN page' = DOMAIN page /\ page'.name = page.name
        /\ page'.members = page.members /\ page'.invites = page.invites
        /\ page'.links = page.links /\ page'.inviting = page.inviting
        /\ page'.created = page.created /\ page'.acts = page.acts /\ page'.lost = page.lost
        /\ page'.people = q /\ page'.pending = page.pending
    BY <1>2 DEF MembersInv, MembersType
  <2> QED BY <2>1, <1>1, <1>2, MembersQuiet
<1>3. ASSUME NEW q \in QueryOf(SUBSET People), Tracks(e, revoking, q),
             page' = [page EXCEPT !.pending = q]
      PROVE  MembersInv(page')
  <2>1. /\ DOMAIN page' = DOMAIN page /\ page'.name = page.name
        /\ page'.members = page.members /\ page'.invites = page.invites
        /\ page'.links = page.links /\ page'.inviting = page.inviting
        /\ page'.created = page.created /\ page'.acts = page.acts /\ page'.lost = page.lost
        /\ page'.people = page.people /\ page'.pending = q
    BY <1>3 DEF MembersInv, MembersType
  <2> QED BY <2>1, <1>1, <1>3, MembersQuiet
<1> HIDE DEF m, e, removing, revoking
<1>4. CASE RefetchMembers
  <2>1. /\ Query!Ask(page.people) \in QueryOf(SUBSET People)
        /\ Tracks(m, removing, Query!Ask(page.people))
        /\ Query!Ask(page.pending) \in QueryOf(SUBSET People)
        /\ Tracks(e, revoking, Query!Ask(page.pending))
    BY <1>1, QueryTypes, QueryTracks
  <2>2. \/ page' = [page EXCEPT !.people = Query!Ask(page.people)]
        \/ page' = [page EXCEPT !.pending = Query!Ask(page.pending)]
    BY <1>4 DEF RefetchMembers
  <2> QED BY <2>1, <2>2, <1>2, <1>3
<1>5. CASE ServeMembers
  <2>1. /\ Query!Serve(page.people, m) \in QueryOf(SUBSET People)
        /\ Tracks(m, removing, Query!Serve(page.people, m))
        /\ Query!Serve(page.pending, e) \in QueryOf(SUBSET People)
        /\ Tracks(e, revoking, Query!Serve(page.pending, e))
    BY <1>1, QueryTypes, QueryTracks
  <2>2. \/ page' = [page EXCEPT !.people = Query!Serve(page.people, m)]
        \/ page' = [page EXCEPT !.pending = Query!Serve(page.pending, e)]
    BY <1>5 DEF ServeMembers, m, e
  <2> QED BY <2>1, <2>2, <1>2, <1>3
<1>6. CASE LandMembers
  <2>1. \/ page.people.step = "served" /\ page' = [page EXCEPT !.people = Query!Land(page.people)]
        \/ page.pending.step = "served" /\ page' = [page EXCEPT !.pending = Query!Land(page.pending)]
    BY <1>6 DEF LandMembers
  <2>2. /\ Query!Land(page.people) \in QueryOf(SUBSET People)
        /\ page.people.step = "served" => Tracks(m, removing, Query!Land(page.people))
        /\ Query!Land(page.pending) \in QueryOf(SUBSET People)
        /\ page.pending.step = "served" => Tracks(e, revoking, Query!Land(page.pending))
    BY <1>1, QueryTypes, QueryTracks
  <2> QED BY <2>1, <2>2, <1>2, <1>3
<1>7. CASE FailMembers
  <2>1. /\ Query!Fail(page.people) \in QueryOf(SUBSET People)
        /\ Tracks(m, removing, Query!Fail(page.people))
        /\ Query!Fail(page.pending) \in QueryOf(SUBSET People)
        /\ Tracks(e, revoking, Query!Fail(page.pending))
    BY <1>1, QueryTypes, QueryTracks
  <2>2. \/ page' = [page EXCEPT !.people = Query!Fail(page.people)]
        \/ page' = [page EXCEPT !.pending = Query!Fail(page.pending)]
    BY <1>7 DEF FailMembers
  <2> QED BY <2>1, <2>2, <1>2, <1>3
<1> QED BY <1>4, <1>5, <1>6, <1>7

\* Inviting, joining and closing the link keep the invariant of the members.
LEMMA MembersInvites ==
    ASSUME MembersInv(page),
           AcceptElsewhere \/ sendInvite \/ InviteOnServer \/ Invited \/ InviteFails \/ CloseLink
    PROVE  MembersInv(page')
<1> USE MembersAssumption
<1>0. MembersType(page)
  BY DEF MembersInv
<1>1. CASE AcceptElsewhere
  <2>1. PICK e \in DOMAIN page.invites :
           page' = [page EXCEPT
               !.members = page.members \cup {e},
               !.invites = [f \in DOMAIN page.invites \ {e} |-> page.invites[f]],
               !.people = Query!Miss(page.people), !.pending = Query!Miss(page.pending)]
    BY <1>1 DEF AcceptElsewhere
  <2>2. /\ DOMAIN page' = DOMAIN page /\ page'.name = page.name /\ page'.links = page.links
        /\ page'.members = page.members \cup {e}
        /\ page'.invites = [f \in DOMAIN page.invites \ {e} |-> page.invites[f]]
        /\ page'.inviting = page.inviting
        /\ page'.created = page.created /\ page'.acts = page.acts /\ page'.lost = page.lost
        /\ page'.people = Query!Miss(page.people) /\ page'.pending = Query!Miss(page.pending)
    BY <2>1, <1>0 DEF MembersType
  <2>3. /\ page'.people \in QueryOf(SUBSET People) /\ page'.pending \in QueryOf(SUBSET People)
        /\ \A server : \A changing \in BOOLEAN :
              Tracks(server, changing, page'.people) /\ Tracks(server, changing, page'.pending)
    BY <2>2, MembersFields, QueryTypes, QueryTracks, SMTT(30)
  <2>4. MembersType(page')
    BY <2>2, <2>3, <1>0 DEF MembersType
  <2>5. Acting(page', "remove") \in BOOLEAN /\ (Acting(page', "revoke") \/ LinkMade(page')) \in BOOLEAN
    BY DEF Acting, LinkMade
  <2>6. /\ LinkMade(page') <=> LinkMade(page)
        /\ \A i : LinkWorks(page, i) => LinkWorks(page', i)
    BY <2>2 DEF LinkMade, LinkWorks
  <2> QED BY <2>2, <2>3, <2>4, <2>5, <2>6 DEF MembersInv
<1>2. CASE sendInvite
  <2>1. PICK e \in People : page' = [page EXCEPT !.inviting = [email |-> e, link |-> None]]
    BY <1>2 DEF sendInvite
  <2>2. page.inviting = None
    BY <1>2 DEF sendInvite
  <2>3. /\ DOMAIN page' = DOMAIN page /\ page'.name = page.name /\ page'.links = page.links
        /\ page'.members = page.members /\ page'.invites = page.invites
        /\ page'.inviting = [email |-> e, link |-> None]
        /\ page'.created = page.created /\ page'.acts = page.acts /\ page'.lost = page.lost
        /\ page'.people = page.people /\ page'.pending = page.pending
    BY <2>1, <1>0 DEF MembersType
  <2>4. MembersType(page')
    BY <2>3, <1>0, SMTT(30) DEF MembersType, Invitations
  <2>5. ~LinkMade(page) /\ ~LinkMade(page')
    BY <2>2, <2>3, SMTT(30) DEF LinkMade
  <2>6. /\ Acting(page', "remove") <=> Acting(page, "remove")
        /\ Acting(page', "revoke") <=> Acting(page, "revoke")
        /\ \A i : LinkWorks(page', i) <=> LinkWorks(page, i)
    BY <2>3 DEF Acting, LinkWorks
  <2> QED BY <2>3, <2>4, <2>5, <2>6 DEF MembersInv, Tracks
<1>3. CASE InviteOnServer
  <2> DEFINE e == page.inviting.email
             n == page.links + 1
             i == [page.inviting EXCEPT !.link = n]
             v == [f \in DOMAIN page.invites \cup {e} |-> IF f = e THEN n ELSE page.invites[f]]
  <2>1. page.inviting \in Invitations /\ page.inviting.link = None
    BY <1>3, <1>0 DEF InviteOnServer, MembersType
  <2>2. page' = [page EXCEPT !.inviting = i, !.links = n, !.invites = v]
    BY <1>3, <1>0 DEF InviteOnServer, MembersType
  <2>3. n \in Nat /\ n # None
    BY <1>0, SMTT(30) DEF MembersType
  <2>4. i \in Invitations /\ i # None /\ i.link = n /\ i.email = e /\ e \in People
    BY <2>1, <2>3 DEF Invitations
  <2>5. /\ DOMAIN v = DOMAIN page.invites \cup {e} /\ v[e] = n
        /\ \A f \in DOMAIN page.invites \ {e} : v[f] = page.invites[f]
    OBVIOUS
  <2> HIDE DEF n, i, v
  <2>6. /\ DOMAIN page' = DOMAIN page /\ page'.name = page.name /\ page'.links = n
        /\ page'.members = page.members /\ page'.invites = v /\ page'.inviting = i
        /\ page'.created = page.created /\ page'.acts = page.acts /\ page'.lost = page.lost
        /\ page'.people = page.people /\ page'.pending = page.pending
    BY <2>2, <1>0 DEF MembersType
  <2>7. MembersType(page')
    BY <2>3, <2>4, <2>5, <2>6, <1>0 DEF MembersType
  <2>8. ~LinkMade(page) /\ LinkMade(page') /\ LinkWorks(page', i)
    BY <2>1, <2>3, <2>4, <2>5, <2>6 DEF LinkMade, LinkWorks
  <2>9. \A j : LinkWorks(page, j) /\ j.email # e => LinkWorks(page', j)
    BY <2>5, <2>6 DEF LinkWorks
  <2>10. Acting(page', "remove") <=> Acting(page, "remove")
    BY <2>6 DEF Acting
  <2> QED BY <2>4, <2>6, <2>7, <2>8, <2>9, <2>10 DEF MembersInv, Tracks
<1>4. CASE Invited
  <2>1. page.inviting \in Invitations /\ LinkMade(page)
    BY <1>4, <1>0 DEF Invited, MembersType, LinkMade
  <2>2. page' = [page EXCEPT !.inviting = None, !.created = page.inviting,
                             !.pending = Query!Invalidate(page.pending)]
    BY <1>4 DEF Invited
  <2>3. /\ DOMAIN page' = DOMAIN page /\ page'.name = page.name /\ page'.links = page.links
        /\ page'.members = page.members /\ page'.invites = page.invites /\ page'.inviting = None
        /\ page'.created = page.inviting /\ page'.acts = page.acts /\ page'.lost = page.lost
        /\ page'.people = page.people /\ page'.pending = Query!Invalidate(page.pending)
    BY <2>2, <1>0 DEF MembersType
  <2>4. /\ page'.pending \in QueryOf(SUBSET People)
        /\ \A server : \A changing \in BOOLEAN : Tracks(server, changing, page'.pending)
    BY <2>3, MembersFields, QueryTypes, QueryTracks
  <2>5. MembersType(page')
    BY <2>1, <2>3, <2>4, <1>0 DEF MembersType
  <2>6. /\ ~LinkMade(page') /\ (Acting(page', "revoke") \/ LinkMade(page')) \in BOOLEAN
        /\ Acting(page', "remove") <=> Acting(page, "remove")
        /\ \A i : LinkWorks(page', i) <=> LinkWorks(page, i)
    BY <2>3 DEF Acting, LinkMade, LinkWorks
  <2>7. Tracks(page'.members, Acting(page', "remove"), page'.people)
    BY <2>3, <2>6 DEF MembersInv, Tracks
  <2> QED BY <2>1, <2>3, <2>4, <2>5, <2>6, <2>7 DEF MembersInv
<1>5. CASE InviteFails
  <2> DEFINE made == page.inviting.link # None
             q == IF page.inviting.link = None THEN page.pending ELSE Query!Miss(page.pending)
  <2>1. page.inviting # None /\ (LinkMade(page) <=> made)
    BY <1>5 DEF InviteFails, LinkMade
  <2>2. page' = [page EXCEPT !.inviting = None, !.lost = page.lost \/ made, !.pending = q]
    BY <1>5 DEF InviteFails
  <2>3. /\ DOMAIN page' = DOMAIN page /\ page'.name = page.name /\ page'.links = page.links
        /\ page'.members = page.members /\ page'.invites = page.invites /\ page'.inviting = None
        /\ page'.created = page.created /\ page'.acts = page.acts
        /\ (page'.lost <=> page.lost \/ made)
        /\ page'.people = page.people /\ page'.pending = q
    BY <2>2, <1>0 DEF MembersType
  <2>4. ~LinkMade(page')
    BY <2>3 DEF LinkMade
  <2>5. /\ Acting(page', "remove") <=> Acting(page, "remove")
        /\ Acting(page', "revoke") <=> Acting(page, "revoke")
        /\ \A i : LinkWorks(page', i) <=> LinkWorks(page, i)
        /\ (Acting(page', "revoke") \/ LinkMade(page')) \in BOOLEAN
    BY <2>3 DEF Acting, LinkWorks
  <2>6. /\ q \in QueryOf(SUBSET People)
        /\ made => \A server : \A changing \in BOOLEAN : Tracks(server, changing, q)
    BY MembersFields, QueryTypes, QueryTracks
  <2>7. MembersType(page')
    BY <2>3, <2>6, <1>0 DEF MembersType
  <2>8. Tracks(page'.members, Acting(page', "remove"), page'.people)
    BY <2>3, <2>5 DEF MembersInv, Tracks
  <2>9. Tracks(DOMAIN page'.invites, Acting(page', "revoke") \/ LinkMade(page'), page'.pending)
    <3>1. CASE made
      BY <3>1, <2>3, <2>5, <2>6
    <3>2. CASE ~made
      BY <3>2, <2>1, <2>3, <2>4, <2>5 DEF MembersInv, Tracks
    <3> QED BY <3>1, <3>2
  <2>10. page'.created # None /\ ~page'.lost => LinkWorks(page', page'.created)
    BY <2>1, <2>3, <2>5 DEF MembersInv
  <2> QED BY <2>4, <2>7, <2>8, <2>9, <2>10 DEF MembersInv
<1>6. CASE CloseLink
  <2>1. /\ DOMAIN page' = DOMAIN page /\ page'.name = page.name /\ page'.links = page.links
        /\ page'.members = page.members /\ page'.invites = page.invites
        /\ page'.inviting = page.inviting
        /\ page'.created = None /\ page'.acts = page.acts /\ page'.lost = page.lost
        /\ page'.people = page.people /\ page'.pending = page.pending
    BY <1>6, <1>0 DEF CloseLink, MembersType
  <2>2. MembersType(page')
    BY <2>1, <1>0 DEF MembersType
  <2>3. /\ Acting(page', "remove") <=> Acting(page, "remove")
        /\ Acting(page', "revoke") <=> Acting(page, "revoke")
        /\ LinkMade(page') <=> LinkMade(page)
        /\ \A i : LinkWorks(page', i) <=> LinkWorks(page, i)
    BY <2>1 DEF Acting, LinkMade, LinkWorks
  <2> QED BY <2>1, <2>2, <2>3 DEF MembersInv, Tracks
<1> QED BY <1>1, <1>2, <1>3, <1>4, <1>5, <1>6

\* The rows that offer an action are of people.
LEMMA MembersRun ==
    ASSUME MembersInv(page), NEW kind \in {"remove", "revoke"}, NEW rows \in SUBSET People,
           runAction(kind, rows)
    PROVE  MembersInv(page')
<1>1. PICK e \in rows :
         page' = [page EXCEPT !.busy = <<kind, e>>,
                              !.acts = page.acts \cup {[kind |-> kind, who |-> e, step |-> "sent"]}]
  BY DEF runAction
<1> DEFINE a == [kind |-> kind, who |-> e, step |-> "sent"]
<1>2. a \in MemberActs /\ a.step = "sent"
  BY DEF MemberActs
<1>3. page' = [page EXCEPT !.busy = <<kind, e>>, !.acts = page.acts \cup {a}]
  BY <1>1
<1> HIDE DEF a
<1>4. /\ DOMAIN page' = DOMAIN page /\ page'.name = page.name /\ page'.links = page.links
      /\ page'.members = page.members /\ page'.invites = page.invites
      /\ page'.inviting = page.inviting /\ page'.created = page.created
      /\ page'.acts = page.acts \cup {a} /\ page'.lost = page.lost
      /\ page'.people = page.people /\ page'.pending = page.pending
  BY <1>3 DEF MembersInv, MembersType
<1>5. MembersType(page')
  BY <1>2, <1>4 DEF MembersInv, MembersType
<1>6. /\ Acting(page', "remove") <=> Acting(page, "remove")
      /\ Acting(page', "revoke") <=> Acting(page, "revoke")
      /\ LinkMade(page') <=> LinkMade(page)
      /\ \A i : LinkWorks(page', i) <=> LinkWorks(page, i)
  BY <1>2, <1>4 DEF Acting, LinkMade, LinkWorks
<1> QED BY <1>4, <1>5, <1>6 DEF MembersInv, Tracks

\* Removing a member and revoking an invite keep the invariant of the members.
LEMMA MembersActs ==
    ASSUME MembersInv(page), RemoveMember \/ RevokeInvite \/ ActOnServer \/ Acted \/ ActFails
    PROVE  MembersInv(page')
<1>0. MembersType(page) /\ page.acts \subseteq MemberActs
  BY DEF MembersInv, MembersType
<1>1. PeopleRows(page) \in SUBSET People /\ InviteRows(page) \in SUBSET People
  BY MembersFields DEF PeopleRows, InviteRows, QueryOf
<1>2. CASE RemoveMember \/ RevokeInvite
  BY <1>1, <1>2, MembersRun DEF RemoveMember, RevokeInvite
<1>3. CASE ActOnServer
  <2>1. PICK a \in page.acts :
           /\ a.step = "sent"
           /\ \/ /\ a.kind = "remove"
                 /\ page' = [page EXCEPT
                        !.members = page.members \ {a.who},
                        !.acts = (page.acts \ {a}) \cup
                                    {[a EXCEPT !.step = Outcome(a.who \in page.members)]}]
              \/ /\ a.kind = "revoke"
                 /\ page' = [page EXCEPT
                        !.invites = [f \in DOMAIN page.invites \ {a.who} |-> page.invites[f]],
                        !.acts = (page.acts \ {a}) \cup
                                    {[a EXCEPT !.step = Outcome(a.who \in DOMAIN page.invites)]}]
    BY <1>3 DEF ActOnServer
  <2>2. CASE a.kind = "remove"
    <3> DEFINE b == [a EXCEPT !.step = Outcome(a.who \in page.members)]
               m == page.members \ {a.who}
    <3>1. /\ b \in MemberActs /\ b.kind = "remove"
          /\ a.who \in page.members => b.step = "done"
          /\ a.who \notin page.members => b.step = "refused"
      BY <2>1, <2>2, <1>0 DEF MemberActs, Outcome
    <3>2. page' = [page EXCEPT !.members = m, !.acts = (page.acts \ {a}) \cup {b}]
      BY <2>1, <2>2
    <3>3. m \subseteq People /\ (a.who \notin page.members => m = page.members)
      BY <1>0 DEF MembersType
    <3> HIDE DEF b, m
    <3>4. /\ DOMAIN page' = DOMAIN page /\ page'.name = page.name /\ page'.links = page.links
          /\ page'.members = m /\ page'.invites = page.invites
          /\ page'.inviting = page.inviting /\ page'.created = page.created
          /\ page'.acts = (page.acts \ {a}) \cup {b} /\ page'.lost = page.lost
          /\ page'.people = page.people /\ page'.pending = page.pending
      BY <3>2, <1>0 DEF MembersType
    <3>5. MembersType(page')
      BY <3>1, <3>3, <3>4, <1>0 DEF MembersType
    <3>6. /\ Acting(page, "remove") => Acting(page', "remove")
          /\ Acting(page', "revoke") <=> Acting(page, "revoke")
          /\ LinkMade(page') <=> LinkMade(page)
          /\ \A i : LinkWorks(page', i) <=> LinkWorks(page, i)
      BY <2>1, <2>2, <3>1, <3>4 DEF Acting, LinkMade, LinkWorks
    <3>7. Acting(page', "remove") \/ m = page.members
      BY <3>1, <3>3, <3>4 DEF Acting
    <3>8. Tracks(page'.members, Acting(page', "remove"), page'.people)
      BY <3>4, <3>6, <3>7 DEF MembersInv, Tracks
    <3>9. Tracks(DOMAIN page'.invites, Acting(page', "revoke") \/ LinkMade(page'), page'.pending)
      BY <3>4, <3>6 DEF MembersInv, Tracks
    <3> QED BY <3>4, <3>5, <3>6, <3>8, <3>9 DEF MembersInv
  <2>3. CASE a.kind = "revoke"
    <3> DEFINE b == [a EXCEPT !.step = Outcome(a.who \in DOMAIN page.invites)]
               v == [f \in DOMAIN page.invites \ {a.who} |-> page.invites[f]]
    <3>1. /\ b \in MemberActs /\ b.kind = "revoke"
          /\ a.who \in DOMAIN page.invites => b.step = "done"
          /\ a.who \notin DOMAIN page.invites => b.step = "refused"
      BY <2>1, <2>3, <1>0 DEF MemberActs, Outcome
    <3>2. page' = [page EXCEPT !.invites = v, !.acts = (page.acts \ {a}) \cup {b}]
      BY <2>1, <2>3
    <3>3. /\ DOMAIN v \subseteq DOMAIN page.invites /\ DOMAIN v \subseteq People
          /\ \A f \in DOMAIN v : v[f] = page.invites[f]
          /\ a.who \notin DOMAIN page.invites => DOMAIN v = DOMAIN page.invites
      BY <1>0 DEF MembersType
    <3> HIDE DEF b, v
    <3>4. /\ DOMAIN page' = DOMAIN page /\ page'.name = page.name /\ page'.links = page.links
          /\ page'.members = page.members /\ page'.invites = v
          /\ page'.inviting = page.inviting /\ page'.created = page.created
          /\ page'.acts = (page.acts \ {a}) \cup {b} /\ page'.lost = page.lost
          /\ page'.people = page.people /\ page'.pending = page.pending
      BY <3>2, <1>0 DEF MembersType
    <3>5. MembersType(page')
      BY <3>1, <3>3, <3>4, <1>0 DEF MembersType
    <3>6. /\ Acting(page', "remove") <=> Acting(page, "remove")
          /\ Acting(page, "revoke") => Acting(page', "revoke")
          /\ LinkMade(page') <=> LinkMade(page)
      BY <2>1, <2>3, <3>1, <3>4 DEF Acting, LinkMade
    <3>7. \A i : LinkWorks(page, i) => LinkWorks(page', i)
      BY <3>3, <3>4 DEF LinkWorks
    <3>8. Acting(page', "revoke") \/ DOMAIN v = DOMAIN page.invites
      BY <3>1, <3>3, <3>4 DEF Acting
    <3>9. Tracks(page'.members, Acting(page', "remove"), page'.people)
      BY <3>4, <3>6 DEF MembersInv, Tracks
    <3>10. Tracks(DOMAIN page'.invites, Acting(page', "revoke") \/ LinkMade(page'), page'.pending)
      BY <3>4, <3>6, <3>8 DEF MembersInv, Tracks
    <3> QED BY <3>4, <3>5, <3>6, <3>7, <3>9, <3>10 DEF MembersInv
  <2> QED BY <2>1, <2>2, <2>3
<1>4. ASSUME NEW a \in page.acts, NEW q, NEW s,
             page' = [page EXCEPT !.acts = page.acts \ {a}, !.busy = None,
                                  !.people = q, !.pending = s],
             q \in QueryOf(SUBSET People), s \in QueryOf(SUBSET People),
             \/ q = page.people /\ ~(a.kind = "remove" /\ a.step = "done")
             \/ \A server : \A changing \in BOOLEAN : Tracks(server, changing, q),
             \/ s = page.pending /\ ~(a.kind = "revoke" /\ a.step = "done")
             \/ \A server : \A changing \in BOOLEAN : Tracks(server, changing, s)
      PROVE  MembersInv(page')
  <2>1. /\ DOMAIN page' = DOMAIN page /\ page'.name = page.name /\ page'.links = page.links
        /\ page'.members = page.members /\ page'.invites = page.invites
        /\ page'.inviting = page.inviting /\ page'.created = page.created
        /\ page'.acts = page.acts \ {a} /\ page'.lost = page.lost
        /\ page'.people = q /\ page'.pending = s
    BY <1>4, <1>0 DEF MembersType
  <2>2. MembersType(page')
    BY <2>1, <1>0, <1>4 DEF MembersType
  <2>3. /\ LinkMade(page') <=> LinkMade(page)
        /\ \A i : LinkWorks(page', i) <=> LinkWorks(page, i)
        /\ Acting(page', "remove") \in BOOLEAN
        /\ (Acting(page', "revoke") \/ LinkMade(page')) \in BOOLEAN
    BY <2>1 DEF LinkMade, LinkWorks, Acting
  <2>4. /\ ~(a.kind = "remove" /\ a.step = "done") =>
              (Acting(page', "remove") <=> Acting(page, "remove"))
        /\ ~(a.kind = "revoke" /\ a.step = "done") =>
              (Acting(page', "revoke") <=> Acting(page, "revoke"))
    BY <2>1 DEF Acting
  <2>5. Tracks(page'.members, Acting(page', "remove"), page'.people)
    <3>1. CASE q = page.people /\ ~(a.kind = "remove" /\ a.step = "done")
      BY <3>1, <2>1, <2>4 DEF MembersInv, Tracks
    <3>2. CASE \A server : \A changing \in BOOLEAN : Tracks(server, changing, q)
      BY <3>2, <2>1, <2>3
    <3> QED BY <3>1, <3>2, <1>4
  <2>6. Tracks(DOMAIN page'.invites, Acting(page', "revoke") \/ LinkMade(page'), page'.pending)
    <3>1. CASE s = page.pending /\ ~(a.kind = "revoke" /\ a.step = "done")
      BY <3>1, <2>1, <2>3, <2>4 DEF MembersInv, Tracks
    <3>2. CASE \A server : \A changing \in BOOLEAN : Tracks(server, changing, s)
      BY <3>2, <2>1, <2>3
    <3> QED BY <3>1, <3>2, <1>4
  <2> QED BY <2>1, <2>2, <2>3, <2>5, <2>6 DEF MembersInv
<1>5. /\ Query!Invalidate(page.people) \in QueryOf(SUBSET People)
      /\ Query!Invalidate(page.pending) \in QueryOf(SUBSET People)
      /\ Query!Miss(page.people) \in QueryOf(SUBSET People)
      /\ Query!Miss(page.pending) \in QueryOf(SUBSET People)
      /\ page.people \in QueryOf(SUBSET People) /\ page.pending \in QueryOf(SUBSET People)
      /\ \A server : \A changing \in BOOLEAN :
            /\ Tracks(server, changing, Query!Invalidate(page.people))
            /\ Tracks(server, changing, Query!Invalidate(page.pending))
            /\ Tracks(server, changing, Query!Miss(page.people))
            /\ Tracks(server, changing, Query!Miss(page.pending))
  BY MembersFields, QueryTypes, QueryTracks
<1>6. CASE Acted
  <2>1. PICK a \in page.acts :
           page' = [RefreshedList(page, a.kind) EXCEPT !.acts = @ \ {a}, !.busy = None]
    BY <1>6 DEF Acted
  <2>2. a.kind \in {"remove", "revoke"}
    BY <1>0 DEF MemberActs
  <2>3. CASE a.kind = "remove"
    <3>1. page' = [page EXCEPT !.acts = page.acts \ {a}, !.busy = None,
                               !.people = Query!Invalidate(page.people), !.pending = page.pending]
      BY <2>1, <2>3, <1>0 DEF RefreshedList, MembersType
    <3> DEFINE q == Query!Invalidate(page.people)
               s == page.pending
    <3>2. /\ q \in QueryOf(SUBSET People) /\ s \in QueryOf(SUBSET People)
          /\ \/ q = page.people /\ ~(a.kind = "remove" /\ a.step = "done")
             \/ \A server : \A changing \in BOOLEAN : Tracks(server, changing, q)
          /\ \/ s = page.pending /\ ~(a.kind = "revoke" /\ a.step = "done")
             \/ \A server : \A changing \in BOOLEAN : Tracks(server, changing, s)
      BY <2>3, <1>5
    <3>3. page' = [page EXCEPT !.acts = page.acts \ {a}, !.busy = None, !.people = q, !.pending = s]
      BY <3>1
    <3> HIDE DEF q, s
    <3> QED BY <3>2, <3>3, <1>4
  <2>4. CASE a.kind = "revoke"
    <3>1. page' = [page EXCEPT !.acts = page.acts \ {a}, !.busy = None,
                               !.people = page.people, !.pending = Query!Invalidate(page.pending)]
      BY <2>1, <2>4, <1>0 DEF RefreshedList, MembersType
    <3> DEFINE q == page.people
               s == Query!Invalidate(page.pending)
    <3>2. /\ q \in QueryOf(SUBSET People) /\ s \in QueryOf(SUBSET People)
          /\ \/ q = page.people /\ ~(a.kind = "remove" /\ a.step = "done")
             \/ \A server : \A changing \in BOOLEAN : Tracks(server, changing, q)
          /\ \/ s = page.pending /\ ~(a.kind = "revoke" /\ a.step = "done")
             \/ \A server : \A changing \in BOOLEAN : Tracks(server, changing, s)
      BY <2>4, <1>5
    <3>3. page' = [page EXCEPT !.acts = page.acts \ {a}, !.busy = None, !.people = q, !.pending = s]
      BY <3>1
    <3> HIDE DEF q, s
    <3> QED BY <3>2, <3>3, <1>4
  <2> QED BY <2>2, <2>3, <2>4
<1>7. CASE ActFails
  <2>1. PICK a \in page.acts :
           page' = [page EXCEPT
               !.acts = page.acts \ {a}, !.busy = None,
               !.people = IF a.kind = "remove" /\ a.step = "done"
                          THEN Query!Miss(page.people) ELSE page.people,
               !.pending = IF a.kind = "revoke" /\ a.step = "done"
                           THEN Query!Miss(page.pending) ELSE page.pending]
    BY <1>7 DEF ActFails
  <2> DEFINE q == IF a.kind = "remove" /\ a.step = "done"
                  THEN Query!Miss(page.people) ELSE page.people
             s == IF a.kind = "revoke" /\ a.step = "done"
                  THEN Query!Miss(page.pending) ELSE page.pending
  <2>2. /\ q \in QueryOf(SUBSET People) /\ s \in QueryOf(SUBSET People)
        /\ \/ q = page.people /\ ~(a.kind = "remove" /\ a.step = "done")
           \/ \A server : \A changing \in BOOLEAN : Tracks(server, changing, q)
        /\ \/ s = page.pending /\ ~(a.kind = "revoke" /\ a.step = "done")
           \/ \A server : \A changing \in BOOLEAN : Tracks(server, changing, s)
    BY <1>5
  <2>3. page' = [page EXCEPT !.acts = page.acts \ {a}, !.busy = None, !.people = q, !.pending = s]
    BY <2>1
  <2> HIDE DEF q, s
  <2> QED BY <2>2, <2>3, <1>4
<1> QED BY <1>2, <1>3, <1>6, <1>7

\* Every step of the members tab keeps its invariant.
LEMMA MembersStep == ASSUME MembersInv(page), MembersNext PROVE MembersInv(page')
BY MembersFetches, MembersInvites, MembersActs DEF MembersNext

\* The page of the members mounts with both lists asked for.
LEMMA MembersStart == ASSUME NEW p \in MembersInit PROVE MembersInv(p)
<1>1. PICK m \in SUBSET People :
         p = [name |-> "members", members |-> m, invites |-> [e \in {} |-> 0], links |-> 0,
              people |-> Query!Ask(Query!Cold), pending |-> Query!Ask(Query!Cold),
              inviting |-> None, created |-> None, acts |-> {}, busy |-> None, lost |-> FALSE]
  BY DEF MembersInit
<1> DEFINE q == Query!Ask(Query!Cold)
<1>2. /\ q \in QueryOf(SUBSET People)
      /\ q.rows = None /\ q.answer = None /\ q.behind /\ q.step # "served"
  BY QueryStart
<1> HIDE DEF q
<1>3. /\ p.name = "members" /\ p.members = m /\ DOMAIN p.invites = {} /\ p.links = 0
      /\ p.people = q /\ p.pending = q /\ p.inviting = None /\ p.created = None /\ p.acts = {}
      /\ DOMAIN p = {"name", "members", "invites", "links", "people", "pending", "inviting",
                     "created", "acts", "busy", "lost"}
  BY <1>1 DEF q
<1>4. MembersType(p)
  BY <1>2, <1>3, SMTT(30) DEF MembersType
<1>5. \A server, changing : Tracks(server, changing, q)
  BY <1>2 DEF Tracks, Query!Settled
<1>6. ~LinkMade(p)
  BY <1>3 DEF LinkMade
<1> QED BY <1>3, <1>4, <1>5, <1>6 DEF MembersInv

\* What the invariant of the members shows.
LEMMA MembersShown ==
    ASSUME MembersInv(page)
    PROVE  MembersCatchUp /\ LinkIsCurrent
<1>1. MembersCatchUp
  BY DEF MembersInv, MembersCatchUp, Tracks, Acting, LinkMade
<1>2. LinkIsCurrent
  BY DEF MembersInv, LinkIsCurrent, LinkMade, LinkWorks
<1> QED BY <1>1, <1>2

--------------------------------------------------------------------------------

MenuIds == 1..(Joined + MaxCreates)

MenuList == Seq({None} \cup MenuIds)

MenuType(p) ==
    /\ p.name = "menu"
    /\ DOMAIN p = {"name", "exists", "query", "chosen", "settings", "intent", "pending", "made",
                   "creates", "mine", "deletes", "wanted"}
    /\ p.exists \in MenuList
    /\ p.query \in QueryOf(MenuList)
    /\ p.query.step = "served" => p.query.answer # None
    /\ p.chosen \in {None} \cup MenuIds
    /\ p.settings \in {None} \cup SettingsStates
    /\ p.intent \in BOOLEAN
    /\ p.pending \in {None} \cup MenuIds
    /\ p.made \in 0..MaxCreates
    /\ DOMAIN p.creates \subseteq (Joined + 1)..(Joined + p.made)
    /\ DOMAIN p.deletes \subseteq MenuIds
    /\ p.wanted \in {None} \cup MenuIds

\* The form that waits is on the screen, and so is the form that was asked for.
FormInv(p) ==
    /\ p.mine \subseteq DOMAIN p.creates
    /\ p.pending # None => FormShown(p) /\ p.pending \in p.mine
    /\ p.intent => FormShown(p)
    /\ p.wanted # None => p.chosen = p.wanted

\* The server acted on w, and the dashboard was not told.
Done(calls, w) == w \in DOMAIN calls /\ calls[w] = "done"

\* A list is the server's but for the changes that are to be acknowledged.
ListsAgree(server, list, creates, deletes) ==
    \A w \in MenuIds :
        /\ w \in list /\ ~Done(deletes, w) => w \in server
        /\ w \in server /\ ~Done(creates, w) => w \in list

\* How the workspaces that the server has, the dashboard lists and an answer on
\* its way holds, which onWay says is not late, go together.  A workspace asked
\* for is nowhere before the server makes it, and never comes back once it is
\* removed.
MenuSound(server, list, answer, onWay, behind, creates, deletes, made, wanted) ==
    /\ \A w \in MenuIds :
          w > Joined + made \/ (w \in DOMAIN creates /\ creates[w] = "sent") =>
              w \notin server \cup list \cup answer \cup DOMAIN deletes
    /\ \A w \in MenuIds : Done(deletes, w) => w \notin server
    /\ ~behind => ListsAgree(server, list, creates, deletes)
    /\ onWay => ListsAgree(server, answer, creates, deletes) /\ list \cap server \subseteq answer
    /\ wanted # None =>
          /\ wanted \in server
          /\ ~behind => wanted \in list
          /\ onWay => wanted \in answer

Answered(p) == IF p.query.answer = None THEN <<>> ELSE p.query.answer

OnWay(p) == p.query.step = "served" /\ ~p.query.late

MenuInv(p) ==
    /\ MenuType(p)
    /\ FormInv(p)
    /\ MenuSound(Entries(p.exists), Entries(Workspaces(p)), Entries(Answered(p)), OnWay(p),
                 p.query.behind, p.creates, p.deletes, p.made, p.wanted)

\* Lists: what appending and striking out do to the entries.
LEMMA ListEntries ==
    ASSUME NEW l \in MenuList, NEW w \in MenuIds
    PROVE  /\ l # None
           /\ Entries(l) \subseteq MenuIds
           /\ Append(l, w) \in MenuList /\ Entries(Append(l, w)) = Entries(l) \cup {w}
           /\ Struck(l, w) \in MenuList /\ Entries(Struck(l, w)) = Entries(l) \ {w}
<1>1. w \in Nat /\ w # None /\ MenuIds \subseteq Nat
  BY MenuAssumption, SMTT(30) DEF MenuIds
<1>2. l # None
  <2>1. DOMAIN l = 1..Len(l) /\ Len(l) \in Nat /\ l \in [1..Len(l) -> {None} \cup MenuIds]
    BY SMTT(30) DEF MenuList
  <2>2. \A i \in 1..Len(l) : l[i] \in Nat \cup {None}
    BY <2>1, <1>1
  <2>3. l \in [1..Len(l) -> Nat \cup {None}]
    BY <2>1, <2>2
  <2>4. l \in Seq(Nat \cup {None})
    BY <2>1, <2>3, SMTT(30)
  <2> QED BY <2>4, MenuAssumption DEF MenuLists
<1>3. Entries(l) \subseteq MenuIds
  BY SMTT(30) DEF Entries, MenuList
<1>4. Append(l, w) \in MenuList
  BY SMTT(30) DEF MenuList
<1>5. Entries(Append(l, w)) = Entries(l) \cup {w}
  <2>1. /\ DOMAIN Append(l, w) = DOMAIN l \cup {Len(l) + 1} /\ Append(l, w)[Len(l) + 1] = w
        /\ \A i \in DOMAIN l : Append(l, w)[i] = l[i]
    BY SMTT(30) DEF MenuList
  <2> QED BY <2>1, <1>1 DEF Entries
<1>6. Struck(l, w) \in MenuList
  <2>1. \A i \in DOMAIN l : l[i] \in {None} \cup MenuIds
    BY SMTT(30) DEF MenuList
  <2>2. /\ DOMAIN Struck(l, w) = DOMAIN l
        /\ \A i \in DOMAIN l : Struck(l, w)[i] \in {None} \cup MenuIds
    BY <2>1 DEF Struck
  <2>3. DOMAIN l = 1..Len(l) /\ Len(l) \in Nat
    BY SMTT(30) DEF MenuList
  <2>4. Struck(l, w) \in [1..Len(l) -> {None} \cup MenuIds]
    BY <2>2, <2>3 DEF Struck
  <2> QED BY <2>3, <2>4, SMTT(30) DEF MenuList
<1>7. Entries(Struck(l, w)) = Entries(l) \ {w}
  BY <1>1 DEF Entries, Struck
<1> QED BY <1>2, <1>3, <1>4, <1>5, <1>6, <1>7

\* The empty list.
LEMMA NoEntries == Entries(<<>>) = {} /\ <<>> \in MenuList
BY SMTT(30) DEF Entries, MenuList

\* The steps of the fetch and of the calls, on the sets of workspaces alone:
\* a fetch starts over, or is answered.
LEMMA SoundFetches ==
    ASSUME NEW E, NEW R, NEW A, NEW onWay \in BOOLEAN, NEW behind \in BOOLEAN, NEW creates,
           NEW deletes, NEW made, NEW wanted,
           MenuSound(E, R, A, onWay, behind, creates, deletes, made, wanted)
    PROVE  /\ MenuSound(E, R, {}, FALSE, behind, creates, deletes, made, wanted)
           /\ MenuSound(E, R, E, TRUE, behind, creates, deletes, made, wanted)
<1>1. MenuSound(E, R, {}, FALSE, behind, creates, deletes, made, wanted)
  BY DEF MenuSound
<1>2. MenuSound(E, R, E, TRUE, behind, creates, deletes, made, wanted)
  BY DEF MenuSound, ListsAgree
<1> QED BY <1>1, <1>2

\* A deletion is asked for.
LEMMA DeleteAsked ==
    ASSUME NEW E, NEW R, NEW A, NEW onWay \in BOOLEAN, NEW behind \in BOOLEAN, NEW creates,
           NEW deletes, NEW made, NEW wanted, NEW w \in MenuIds,
           MenuSound(E, R, A, onWay, behind, creates, deletes, made, wanted),
           w \in R \ DOMAIN deletes
    PROVE  MenuSound(E, R, A, onWay, behind, creates, Bind(deletes, w, "sent"), made, wanted)
<1> DEFINE d == Bind(deletes, w, "sent")
<1>1. DOMAIN d = DOMAIN deletes \cup {w} /\ \A v : Done(d, v) <=> Done(deletes, v)
  BY DEF Bind, Done
<1> HIDE DEF d
<1>2. \A L : ListsAgree(E, L, creates, deletes) => ListsAgree(E, L, creates, d)
  BY <1>1 DEF ListsAgree
<1>3. \A v \in MenuIds :
        v > Joined + made \/ (v \in DOMAIN creates /\ creates[v] = "sent") =>
            v \notin E \cup R \cup A \cup DOMAIN d
  BY <1>1 DEF MenuSound
<1>4. \A v \in MenuIds : Done(d, v) => v \notin E
  BY <1>1 DEF MenuSound
<1>5. MenuSound(E, R, A, onWay, behind, creates, d, made, wanted)
  BY <1>2, <1>3, <1>4 DEF MenuSound
<1> QED BY <1>5 DEF d

\* The server deletes the workspace, or has no such workspace.
LEMMA DeleteServed ==
    ASSUME NEW E, NEW R, NEW A, NEW onWay \in BOOLEAN, NEW behind \in BOOLEAN, NEW creates,
           NEW deletes, NEW made, NEW wanted, NEW w \in MenuIds,
           MenuSound(E, R, A, onWay, behind, creates, deletes, made, wanted),
           w \in DOMAIN deletes, deletes[w] = "sent"
    PROVE  MenuSound(E \ {w}, R, A, onWay, behind, creates,
                     [deletes EXCEPT ![w] = IF w \in E THEN "done" ELSE "refused"], made,
                     IF wanted = w THEN None ELSE wanted)
<1> DEFINE d == [deletes EXCEPT ![w] = IF w \in E THEN "done" ELSE "refused"]
<1>1. /\ DOMAIN d = DOMAIN deletes /\ ~Done(deletes, w) /\ (Done(d, w) <=> w \in E)
      /\ \A v : v # w => (Done(d, v) <=> Done(deletes, v))
  BY DEF Done
<1> HIDE DEF d
<1>2. \A L : ListsAgree(E, L, creates, deletes) => ListsAgree(E \ {w}, L, creates, d)
  BY <1>1 DEF ListsAgree
<1>3. \A v \in MenuIds : Done(d, v) => v \notin E \ {w}
  BY <1>1 DEF MenuSound
<1>4. \A v \in MenuIds :
        v > Joined + made \/ (v \in DOMAIN creates /\ creates[v] = "sent") =>
            v \notin (E \ {w}) \cup R \cup A \cup DOMAIN d
  BY <1>1 DEF MenuSound
<1> DEFINE x == IF wanted = w THEN None ELSE wanted
<1>5. x # None => x = wanted /\ x # w
  OBVIOUS
<1> HIDE DEF x
<1>6. x # None => /\ x \in E \ {w}
                  /\ ~behind => x \in R
                  /\ onWay => x \in A
  BY <1>5 DEF MenuSound
<1>7. ~behind => ListsAgree(E \ {w}, R, creates, d)
  BY <1>2 DEF MenuSound
<1>8. onWay => ListsAgree(E \ {w}, A, creates, d) /\ R \cap (E \ {w}) \subseteq A
  BY <1>2 DEF MenuSound
<1>9. MenuSound(E \ {w}, R, A, onWay, behind, creates, d, made, x)
  BY <1>3, <1>4, <1>6, <1>7, <1>8 DEF MenuSound
<1> QED BY <1>9 DEF d, x

\* The answer to a deletion strikes the workspace from the list.
LEMMA DeleteLanded ==
    ASSUME NEW E, NEW R, NEW A, NEW onWay \in BOOLEAN, NEW behind \in BOOLEAN, NEW creates,
           NEW deletes, NEW made, NEW wanted, NEW w \in MenuIds, NEW n \in BOOLEAN,
           MenuSound(E, R, A, onWay, behind, creates, deletes, made, wanted),
           Done(deletes, w), n => onWay /\ w \notin A
    PROVE  MenuSound(E, R \ {w}, A, n, behind, creates, Unbind(deletes, w), made, wanted)
<1>0. DOMAIN Unbind(deletes, w) = DOMAIN deletes \ {w}
      /\ \A v : Done(Unbind(deletes, w), v) <=> v # w /\ Done(deletes, v)
  BY DEF Unbind, Done
<1> QED BY <1>0 DEF MenuSound, ListsAgree

\* A deletion fails that the server has not made.
LEMMA DeleteLost ==
    ASSUME NEW E, NEW R, NEW A, NEW onWay \in BOOLEAN, NEW behind \in BOOLEAN, NEW creates,
           NEW deletes, NEW made, NEW wanted, NEW w \in MenuIds,
           MenuSound(E, R, A, onWay, behind, creates, deletes, made, wanted),
           w \in DOMAIN deletes, deletes[w] # "done"
    PROVE  MenuSound(E, R, A, onWay, behind, creates, Unbind(deletes, w), made, wanted)
<1>0. DOMAIN Unbind(deletes, w) = DOMAIN deletes \ {w}
      /\ \A v : Done(Unbind(deletes, w), v) <=> v # w /\ Done(deletes, v)
  BY DEF Unbind, Done
<1>1. ~Done(deletes, w)
  BY DEF Done
<1>2. \A v : Done(Unbind(deletes, w), v) <=> Done(deletes, v)
  BY <1>1, <1>0
<1> QED BY <1>2, <1>0 DEF MenuSound, ListsAgree

\* A deletion that the server made is not heard of: the list is behind.
LEMMA DeleteMissed ==
    ASSUME NEW E, NEW R, NEW A, NEW onWay \in BOOLEAN, NEW behind \in BOOLEAN, NEW creates,
           NEW deletes, NEW made, NEW wanted, NEW w \in MenuIds,
           MenuSound(E, R, A, onWay, behind, creates, deletes, made, wanted)
    PROVE  MenuSound(E, R, A, FALSE, TRUE, creates, Unbind(deletes, w), made, wanted)
<1>0. DOMAIN Unbind(deletes, w) = DOMAIN deletes \ {w}
      /\ \A v : Done(Unbind(deletes, w), v) <=> v # w /\ Done(deletes, v)
  BY DEF Unbind, Done
<1> QED BY <1>0 DEF MenuSound

\* The next workspace is asked for.
LEMMA CreateAsked ==
    ASSUME NEW E, NEW R, NEW A, NEW onWay \in BOOLEAN, NEW behind \in BOOLEAN, NEW creates,
           NEW deletes, NEW made \in Nat, NEW wanted, NEW w \in MenuIds,
           MenuSound(E, R, A, onWay, behind, creates, deletes, made, wanted),
           DOMAIN creates \subseteq (Joined + 1)..(Joined + made), w = Joined + made + 1
    PROVE  MenuSound(E, R, A, onWay, behind, Bind(creates, w, "sent"), deletes, made + 1, wanted)
<1> USE MenuAssumption
<1>a. MenuIds \subseteq Nat
  BY SMTT(30) DEF MenuIds
<1> DEFINE c == Bind(creates, w, "sent")
<1>1. w \notin DOMAIN creates
  BY SMTT(30)
<1>2. /\ DOMAIN c = DOMAIN creates \cup {w} /\ c[w] = "sent"
      /\ \A v \in DOMAIN creates : c[v] = creates[v]
      /\ \A v : Done(c, v) <=> Done(creates, v)
  BY <1>1 DEF Bind, Done
<1>3. \A v \in MenuIds : v > Joined + (made + 1) => v > Joined + made
  BY <1>a, SMTT(30)
<1>4. w > Joined + made
  BY SMTT(30)
<1> HIDE DEF c
<1>5. \A v \in MenuIds :
        v > Joined + (made + 1) \/ (v \in DOMAIN c /\ c[v] = "sent") =>
            v \notin E \cup R \cup A \cup DOMAIN deletes
  BY <1>2, <1>3, <1>4 DEF MenuSound
<1>6. \A L : ListsAgree(E, L, creates, deletes) => ListsAgree(E, L, c, deletes)
  BY <1>2 DEF ListsAgree
<1>7. ~behind => ListsAgree(E, R, c, deletes)
  BY <1>6 DEF MenuSound
<1>8. onWay => ListsAgree(E, A, c, deletes) /\ R \cap E \subseteq A
  BY <1>6 DEF MenuSound
<1>9. MenuSound(E, R, A, onWay, behind, c, deletes, made + 1, wanted)
  BY <1>5, <1>7, <1>8 DEF MenuSound
<1> QED BY <1>9 DEF c

\* The server makes the workspace.
LEMMA CreateServed ==
    ASSUME NEW E, NEW R, NEW A, NEW onWay \in BOOLEAN, NEW behind \in BOOLEAN, NEW creates,
           NEW deletes, NEW made \in Nat, NEW wanted, NEW w \in MenuIds,
           MenuSound(E, R, A, onWay, behind, creates, deletes, made, wanted),
           DOMAIN creates \subseteq (Joined + 1)..(Joined + made),
           w \in DOMAIN creates, creates[w] = "sent"
    PROVE  MenuSound(E \cup {w}, R, A, onWay, behind, [creates EXCEPT ![w] = "done"],
                     deletes, made, wanted)
<1> USE MenuAssumption
<1>a. MenuIds \subseteq Nat
  BY SMTT(30) DEF MenuIds
<1> DEFINE c == [creates EXCEPT ![w] = "done"]
<1>1. /\ DOMAIN c = DOMAIN creates /\ c[w] = "done" /\ Done(c, w) /\ ~Done(creates, w)
      /\ \A v : v # w => (Done(c, v) <=> Done(creates, v))
      /\ \A v \in DOMAIN creates : v # w => c[v] = creates[v]
  BY DEF Done
<1>2. w \notin E \cup R \cup A \cup DOMAIN deletes
  BY DEF MenuSound
<1>3. ~(w > Joined + made)
  BY <1>a, SMTT(30)
<1>4. ~Done(deletes, w)
  BY <1>2 DEF Done
<1> HIDE DEF c
<1>5. \A L : w \notin L /\ ListsAgree(E, L, creates, deletes)
              => ListsAgree(E \cup {w}, L, c, deletes)
  BY <1>1 DEF ListsAgree
<1>6. \A v \in MenuIds :
        v > Joined + made \/ (v \in DOMAIN c /\ c[v] = "sent") =>
            v \notin (E \cup {w}) \cup R \cup A \cup DOMAIN deletes
  BY <1>1, <1>3 DEF MenuSound
<1>7. \A v \in MenuIds : Done(deletes, v) => v \notin E \cup {w}
  BY <1>4 DEF MenuSound
<1>8. ~behind => ListsAgree(E \cup {w}, R, c, deletes)
  BY <1>2, <1>5 DEF MenuSound
<1>9. onWay => ListsAgree(E \cup {w}, A, c, deletes) /\ R \cap (E \cup {w}) \subseteq A
  BY <1>2, <1>5 DEF MenuSound
<1>10. MenuSound(E \cup {w}, R, A, onWay, behind, c, deletes, made, wanted)
  BY <1>6, <1>7, <1>8, <1>9 DEF MenuSound
<1> QED BY <1>10 DEF c

\* The answer to a creation adds the workspace to the list and chooses it.
LEMMA CreateLanded ==
    ASSUME NEW E, NEW R, NEW A, NEW onWay \in BOOLEAN, NEW behind \in BOOLEAN, NEW creates,
           NEW deletes, NEW made \in Nat, NEW wanted, NEW w \in MenuIds,
           NEW n \in BOOLEAN, NEW b \in BOOLEAN, NEW want,
           MenuSound(E, R, A, onWay, behind, creates, deletes, made, wanted),
           DOMAIN creates \subseteq (Joined + 1)..(Joined + made),
           Done(creates, w), n => onWay /\ w \in A, behind \/ w \notin E => b,
           want # None => want = w /\ w \in E
    PROVE  MenuSound(E, R \cup {w}, A, n, b, Unbind(creates, w), deletes, made, want)
<1> USE MenuAssumption
<1>a. MenuIds \subseteq Nat
  BY SMTT(30) DEF MenuIds
<1>0. /\ DOMAIN Unbind(creates, w) = DOMAIN creates \ {w}
      /\ \A v \in DOMAIN creates \ {w} : Unbind(creates, w)[v] = creates[v]
      /\ \A v : Done(Unbind(creates, w), v) <=> v # w /\ Done(creates, v)
  BY DEF Unbind, Done
<1>1. ~(w > Joined + made) /\ w \in DOMAIN creates
  BY <1>a, SMTT(30) DEF Done
<1>2. \A v \in MenuIds :
         v > Joined + made \/ (v \in DOMAIN Unbind(creates, w) /\ Unbind(creates, w)[v] = "sent") =>
            v \notin E \cup (R \cup {w}) \cup A \cup DOMAIN deletes
  BY <1>1, <1>0 DEF MenuSound
<1> QED BY <1>0, <1>2 DEF MenuSound, ListsAgree

\* A creation fails that the server has not made.
LEMMA CreateLost ==
    ASSUME NEW E, NEW R, NEW A, NEW onWay \in BOOLEAN, NEW behind \in BOOLEAN, NEW creates,
           NEW deletes, NEW made, NEW wanted, NEW w \in MenuIds,
           MenuSound(E, R, A, onWay, behind, creates, deletes, made, wanted),
           w \in DOMAIN creates, creates[w] # "done"
    PROVE  MenuSound(E, R, A, onWay, behind, Unbind(creates, w), deletes, made, wanted)
<1>0. /\ DOMAIN Unbind(creates, w) = DOMAIN creates \ {w}
      /\ \A v \in DOMAIN creates \ {w} : Unbind(creates, w)[v] = creates[v]
      /\ \A v : Done(Unbind(creates, w), v) <=> v # w /\ Done(creates, v)
  BY DEF Unbind, Done
<1>1. ~Done(creates, w)
  BY DEF Done
<1>2. \A v : Done(Unbind(creates, w), v) <=> Done(creates, v)
  BY <1>1, <1>0
<1> QED BY <1>2, <1>0 DEF MenuSound, ListsAgree

\* A creation that the server made is not heard of: the list is behind.
LEMMA CreateMissed ==
    ASSUME NEW E, NEW R, NEW A, NEW onWay \in BOOLEAN, NEW behind \in BOOLEAN, NEW creates,
           NEW deletes, NEW made, NEW wanted, NEW w \in MenuIds,
           MenuSound(E, R, A, onWay, behind, creates, deletes, made, wanted)
    PROVE  MenuSound(E, R, A, FALSE, TRUE, Unbind(creates, w), deletes, made, wanted)
<1>0. /\ DOMAIN Unbind(creates, w) = DOMAIN creates \ {w}
      /\ \A v \in DOMAIN creates \ {w} : Unbind(creates, w)[v] = creates[v]
      /\ \A v : Done(Unbind(creates, w), v) <=> v # w /\ Done(creates, v)
  BY DEF Unbind, Done
<1> QED BY <1>0 DEF MenuSound

\* A step that changes neither the lists nor the calls keeps the invariant if
\* it keeps that of the form.
LEMMA MenuQuiet ==
    ASSUME NEW p, NEW r, MenuInv(p), MenuType(r), FormInv(r),
           r.exists = p.exists, r.query = p.query, r.creates = p.creates, r.deletes = p.deletes,
           r.made = p.made, r.wanted = p.wanted
    PROVE  MenuInv(r)
BY DEF MenuInv, Workspaces, Answered, OnWay

\* A list that is None has no entries.
LEMMA MenuLists3 ==
    ASSUME MenuInv(page)
    PROVE  /\ page.exists \in MenuList /\ page.exists # None
           /\ Workspaces(page) \in MenuList /\ Answered(page) \in MenuList
           /\ Entries(page.exists) \subseteq MenuIds
           /\ Entries(Workspaces(page)) \subseteq MenuIds
           /\ Entries(Answered(page)) \subseteq MenuIds
           /\ <<>> # None /\ OnWay(page) \in BOOLEAN
           /\ MenuIds \subseteq Nat /\ None \notin MenuIds
<1>1. page.exists \in MenuList /\ page.query \in QueryOf(MenuList)
  BY DEF MenuInv, MenuType
<1>2. Workspaces(page) \in MenuList /\ Answered(page) \in MenuList
  BY <1>1, NoEntries DEF Workspaces, Answered, QueryOf
<1>3. \A l \in MenuList : Entries(l) \subseteq MenuIds
  BY SMTT(30) DEF Entries, MenuList
<1>4. \A l \in MenuList : l # None
  <2> SUFFICES ASSUME NEW l \in MenuList PROVE l # None
    OBVIOUS
  <2>1. CASE MenuIds = {}
    <3>1. DOMAIN l = 1..Len(l) /\ Len(l) \in Nat /\ l \in [1..Len(l) -> {None} \cup MenuIds]
      BY SMTT(30) DEF MenuList
    <3>2. l \in [1..Len(l) -> Nat \cup {None}]
      BY <2>1, <3>1
    <3>3. l \in Seq(Nat \cup {None})
      BY <3>1, <3>2, SMTT(30)
    <3> QED BY <3>3, MenuAssumption DEF MenuLists
  <2>2. CASE MenuIds # {}
    BY <2>2, ListEntries
  <2> QED BY <2>1, <2>2
<1>5. <<>> # None
  BY <1>4, NoEntries
<1>6. OnWay(page) \in BOOLEAN
  BY <1>1 DEF OnWay, QueryOf
<1>7. MenuIds \subseteq Nat /\ None \notin MenuIds
  BY MenuAssumption, SMTT(30) DEF MenuIds
<1> QED BY <1>1, <1>2, <1>3, <1>4, <1>5, <1>6, <1>7

\* The fetch of the list: it starts, is answered, lands or fails.
LEMMA MenuFetches ==
    ASSUME MenuInv(page), Refetch \/ RestartFetch \/ ServeMenu \/ LandMenu \/ FailMenu
    PROVE  MenuInv(page')
<1> DEFINE q == page.query
           E == Entries(page.exists)
           R == Entries(Workspaces(page))
           A == Entries(Answered(page))
           RowsIn(x) == IF x.rows = None THEN <<>> ELSE x.rows
           AnswerIn(x) == IF x.answer = None THEN <<>> ELSE x.answer
           Good(x) == MenuSound(E, Entries(RowsIn(x)), Entries(AnswerIn(x)),
                                x.step = "served" /\ ~x.late, x.behind, page.creates, page.deletes,
                                page.made, page.wanted)
<1>0. /\ MenuType(page) /\ FormInv(page) /\ q \in QueryOf(MenuList) /\ page.exists \in MenuList
      /\ MenuSound(E, R, A, OnWay(page), q.behind, page.creates, page.deletes, page.made,
                   page.wanted)
  BY DEF MenuInv, MenuType
<1>1. ASSUME NEW x \in QueryOf(MenuList), x.step = "served" => x.answer # None, Good(x),
             page' = [page EXCEPT !.query = x]
      PROVE  MenuInv(page')
  <2>1. /\ page'.exists = page.exists /\ page'.query = x /\ page'.creates = page.creates
        /\ page'.deletes = page.deletes /\ page'.made = page.made /\ page'.wanted = page.wanted
        /\ page'.settings = page.settings /\ page'.mine = page.mine
        /\ page'.pending = page.pending /\ page'.intent = page.intent
        /\ page'.chosen = page.chosen
    BY <1>1, <1>0 DEF MenuType
  <2>2. MenuType(page')
    BY <1>1, <1>0, <2>1 DEF MenuType
  <2>3. FormInv(page')
    BY <1>0, <2>1 DEF FormInv, FormShown
  <2>4. Workspaces(page') = RowsIn(x) /\ Answered(page') = AnswerIn(x)
        /\ OnWay(page') = (x.step = "served" /\ ~x.late)
    BY <2>1 DEF Workspaces, Answered, OnWay
  <2> QED BY <1>1, <2>1, <2>2, <2>3, <2>4 DEF MenuInv
<1>2. /\ MenuSound(E, R, {}, FALSE, q.behind, page.creates, page.deletes, page.made, page.wanted)
      /\ MenuSound(E, R, E, TRUE, q.behind, page.creates, page.deletes, page.made, page.wanted)
      /\ \A n \in BOOLEAN : OnWay(page) \/ n =>
            MenuSound(E, A, {}, FALSE, n, page.creates, page.deletes, page.made, page.wanted)
  <2>1. OnWay(page) \in BOOLEAN /\ q.behind \in BOOLEAN
    BY <1>0, MenuLists3 DEF QueryOf
  <2> DEFINE o == OnWay(page)
             b == q.behind
  <2>2. /\ o \in BOOLEAN /\ b \in BOOLEAN
        /\ MenuSound(E, R, A, o, b, page.creates, page.deletes, page.made, page.wanted)
    BY <1>0, <2>1
  <2> HIDE DEF E, R, A, q, o, b
  <2>3. /\ MenuSound(E, R, {}, FALSE, b, page.creates, page.deletes, page.made, page.wanted)
        /\ MenuSound(E, R, E, TRUE, b, page.creates, page.deletes, page.made, page.wanted)
    BY <2>2, SoundFetches
  <2>4. \A n \in BOOLEAN : o \/ n =>
           MenuSound(E, A, {}, FALSE, n, page.creates, page.deletes, page.made, page.wanted)
    BY <2>2 DEF MenuSound
  <2> QED BY <2>3, <2>4 DEF o, b
<1>3. Entries(<<>>) = {}
  BY NoEntries
<1>4. CASE Refetch
  <2> DEFINE x == Query!Ask(q)
  <2>1. x \in QueryOf(MenuList) /\ page' = [page EXCEPT !.query = x]
    BY <1>4, <1>0, QueryTypes DEF Refetch
  <2>2. /\ x.rows = q.rows /\ x.answer = q.answer /\ x.behind = q.behind /\ x.late = q.late
        /\ (x.step = "served") = (q.step = "served")
    BY <1>0 DEF QueryOf, Query!Ask
  <2>3. x.step = "served" => x.answer # None
    BY <2>2, <1>0 DEF MenuType
  <2> HIDE DEF x
  <2>4. Good(x)
    <3>1. RowsIn(x) = Workspaces(page) /\ AnswerIn(x) = Answered(page)
          /\ (x.step = "served" /\ ~x.late) = OnWay(page)
      BY <2>2 DEF Workspaces, Answered, OnWay
    <3> QED BY <1>0, <2>2, <3>1
  <2> QED BY <1>1, <2>1, <2>3, <2>4
<1>5. CASE RestartFetch
  <2> DEFINE x == Query!Invalidate(q)
  <2>1. x \in QueryOf(MenuList) /\ page' = [page EXCEPT !.query = x]
    BY <1>5, <1>0, QueryTypes DEF RestartFetch
  <2>2. /\ x.rows = q.rows /\ x.answer = None /\ x.behind = q.behind /\ x.step = "sent"
    BY <1>0 DEF QueryOf, Query!Invalidate
  <2> HIDE DEF x
  <2>3. Good(x)
    <3>1. RowsIn(x) = Workspaces(page) /\ AnswerIn(x) = <<>>
          /\ (x.step = "served" /\ ~x.late) = FALSE
      BY <2>2 DEF Workspaces
    <3> QED BY <1>2, <1>3, <2>2, <3>1
  <2> QED BY <1>1, <2>1, <2>2, <2>3
<1>6. CASE ServeMenu
  <2> DEFINE x == Query!Serve(q, page.exists)
  <2>1. x \in QueryOf(MenuList) /\ page' = [page EXCEPT !.query = x]
    BY <1>6, <1>0, QueryTypes DEF ServeMenu
  <2>2. /\ x.rows = q.rows /\ x.answer = page.exists /\ x.behind = q.behind /\ x.step = "served"
        /\ x.late = FALSE
    BY <1>0 DEF QueryOf, Query!Serve
  <2>3. page.exists # None
    BY MenuLists3
  <2> HIDE DEF x
  <2>4. Good(x)
    <3>1. RowsIn(x) = Workspaces(page) /\ AnswerIn(x) = page.exists
          /\ (x.step = "served" /\ ~x.late) = TRUE
      BY <2>2, <2>3 DEF Workspaces
    <3> QED BY <1>2, <2>2, <3>1
  <2> QED BY <1>1, <2>1, <2>2, <2>3, <2>4
<1>7. CASE LandMenu
  <2> DEFINE x == Query!Land(q)
  <2>1. /\ x \in QueryOf(MenuList) /\ page' = [page EXCEPT !.query = x]
        /\ q.step = "served"
    BY <1>7, <1>0, QueryTypes DEF LandMenu
  <2>2. /\ x.rows = q.answer /\ x.answer = None /\ x.behind = q.late /\ x.step = "idle"
    BY <1>0 DEF QueryOf, Query!Land
  <2> HIDE DEF x
  <2>3. Good(x)
    <3>1. RowsIn(x) = Answered(page) /\ AnswerIn(x) = <<>>
          /\ (x.step = "served" /\ ~x.late) = FALSE
      BY <2>2 DEF Answered
    <3>2. x.behind \in BOOLEAN /\ (OnWay(page) \/ x.behind)
      BY <1>0, <2>1, <2>2 DEF OnWay, QueryOf
    <3> QED BY <1>2, <1>3, <3>1, <3>2
  <2> QED BY <1>1, <2>1, <2>2, <2>3
<1>8. CASE FailMenu
  <2> DEFINE x == Query!Fail(q)
  <2>1. x \in QueryOf(MenuList) /\ page' = [page EXCEPT !.query = x]
    BY <1>8, <1>0, QueryTypes DEF FailMenu
  <2>2. /\ x.rows = q.rows /\ x.answer = None /\ x.behind = q.behind /\ x.step = "idle"
    BY <1>0 DEF QueryOf, Query!Fail
  <2> HIDE DEF x
  <2>3. Good(x)
    <3>1. RowsIn(x) = Workspaces(page) /\ AnswerIn(x) = <<>>
          /\ (x.step = "served" /\ ~x.late) = FALSE
      BY <2>2 DEF Workspaces
    <3> QED BY <1>2, <1>3, <2>2, <3>1
  <2> QED BY <1>1, <2>1, <2>2, <2>3
<1> QED BY <1>4, <1>5, <1>6, <1>7, <1>8

\* A row of the switcher.
LEMMA MenuChoice ==
    ASSUME MenuInv(page), setWorkspace
    PROVE  MenuInv(page')
<1> DEFINE E == Entries(page.exists)
           R == Entries(Workspaces(page))
<1>1. PICK w \in R : page' = [page EXCEPT !.chosen = w, !.wanted = IF w \in E THEN w ELSE None]
  BY DEF setWorkspace
<1> DEFINE x == IF w \in E THEN w ELSE None
<1>2. w \in MenuIds /\ x \in {None, w}
  BY MenuLists3
<1>3. MenuSound(E, R, Entries(Answered(page)), OnWay(page), page.query.behind, page.creates,
                page.deletes, page.made, x)
  BY DEF MenuSound, MenuInv
<1>4. MenuType(page) /\ FormInv(page) /\ page' = [page EXCEPT !.chosen = w, !.wanted = x]
  BY <1>1 DEF MenuInv
<1> HIDE DEF x
<1>5. /\ page'.exists = page.exists /\ page'.query = page.query /\ page'.creates = page.creates
      /\ page'.deletes = page.deletes /\ page'.made = page.made /\ page'.wanted = x
      /\ page'.settings = page.settings /\ page'.mine = page.mine
      /\ page'.pending = page.pending /\ page'.intent = page.intent
      /\ page'.chosen = w
  BY <1>4 DEF MenuType
<1>6. MenuType(page')
  BY <1>2, <1>4, <1>5 DEF MenuType
<1>7. FormInv(page')
  BY <1>2, <1>4, <1>5 DEF FormInv, FormShown
<1> QED BY <1>3, <1>5, <1>6, <1>7 DEF MenuInv, Workspaces, Answered, OnWay

\* The calls that delete: asked for, done by the server, answered, failed.
LEMMA MenuDeletes ==
    ASSUME MenuInv(page), DeleteWorkspace \/ RemoveOnServer \/ Deleted \/ DeleteFails
    PROVE  MenuInv(page')
<1> DEFINE q == page.query
           E == Entries(page.exists)
           R == Entries(Workspaces(page))
           A == Entries(Answered(page))
           o == OnWay(page)
           b == q.behind
<1>0. /\ MenuType(page) /\ FormInv(page) /\ q \in QueryOf(MenuList) /\ page.exists \in MenuList
      /\ MenuSound(E, R, A, o, b, page.creates, page.deletes, page.made, page.wanted)
      /\ b \in BOOLEAN /\ o \in BOOLEAN
      /\ DOMAIN page.deletes \subseteq MenuIds
  BY MenuLists3 DEF MenuInv, MenuType, QueryOf
<1>1. CASE DeleteWorkspace
  <2>1. PICK w \in R \ DOMAIN page.deletes :
           page' = [page EXCEPT !.deletes = Bind(page.deletes, w, "sent")]
    BY <1>1 DEF DeleteWorkspace
  <2> DEFINE d == Bind(page.deletes, w, "sent")
  <2>2. w \in MenuIds /\ DOMAIN d = DOMAIN page.deletes \cup {w}
    BY MenuLists3 DEF Bind
  <2>3. MenuSound(E, R, A, o, b, page.creates, d, page.made, page.wanted)
    <3> HIDE DEF E, R, A, q, o, b
    <3> QED BY <1>0, <2>1, <2>2, DeleteAsked
  <2>4. page' = [page EXCEPT !.deletes = d]
    BY <2>1
  <2> HIDE DEF d
  <2>5. /\ page'.exists = page.exists /\ page'.query = page.query /\ page'.creates = page.creates
        /\ page'.deletes = d /\ page'.made = page.made /\ page'.wanted = page.wanted
        /\ page'.settings = page.settings /\ page'.mine = page.mine
        /\ page'.pending = page.pending /\ page'.intent = page.intent
        /\ page'.chosen = page.chosen
    BY <2>4, <1>0 DEF MenuType
  <2>6. MenuType(page')
    BY <1>0, <2>2, <2>4, <2>5 DEF MenuType
  <2>7. FormInv(page')
    BY <1>0, <2>5 DEF FormInv, FormShown
  <2> QED BY <2>3, <2>5, <2>6, <2>7 DEF MenuInv, Workspaces, Answered, OnWay
<1>2. CASE RemoveOnServer
  <2>1. PICK w \in DOMAIN page.deletes :
           /\ page.deletes[w] = "sent"
           /\ page' = [page EXCEPT !.exists = Struck(page.exists, w),
                                   !.wanted = IF page.wanted = w THEN None ELSE page.wanted,
                                   !.deletes[w] = IF w \in E THEN "done" ELSE "refused"]
    BY <1>2 DEF RemoveOnServer
  <2> DEFINE d == [page.deletes EXCEPT ![w] = IF w \in E THEN "done" ELSE "refused"]
             l == Struck(page.exists, w)
             x == IF page.wanted = w THEN None ELSE page.wanted
  <2>2. w \in MenuIds /\ DOMAIN d = DOMAIN page.deletes
    BY <1>0
  <2>3. l \in MenuList /\ Entries(l) = E \ {w}
    BY <1>0, <2>2, ListEntries
  <2>4. MenuSound(E \ {w}, R, A, o, b, page.creates, d, page.made, x)
    <3> HIDE DEF E, R, A, q, o, b
    <3> QED BY <1>0, <2>1, <2>2, DeleteServed, SMTT(30)
  <2>5. page' = [page EXCEPT !.exists = l, !.wanted = x, !.deletes = d]
    BY <2>1, <1>0 DEF MenuType
  <2>6. x \in {None, page.wanted}
    OBVIOUS
  <2> HIDE DEF d, l, x
  <2>7. /\ page'.exists = l /\ page'.query = page.query /\ page'.creates = page.creates
        /\ page'.deletes = d /\ page'.made = page.made /\ page'.wanted = x
        /\ page'.settings = page.settings /\ page'.mine = page.mine
        /\ page'.pending = page.pending /\ page'.intent = page.intent
        /\ page'.chosen = page.chosen
    BY <2>5, <1>0 DEF MenuType
  <2>8. MenuType(page')
    BY <1>0, <2>2, <2>3, <2>5, <2>6, <2>7 DEF MenuType
  <2>9. FormInv(page')
    BY <1>0, <2>6, <2>7 DEF FormInv, FormShown
  <2>10. Workspaces(page') = Workspaces(page) /\ Answered(page') = Answered(page)
         /\ OnWay(page') = OnWay(page)
    BY <2>7 DEF Workspaces, Answered, OnWay
  <2> QED BY <2>3, <2>4, <2>7, <2>8, <2>9, <2>10 DEF MenuInv
<1>3. CASE Deleted
  <2>1. PICK w \in DOMAIN page.deletes :
           /\ page.deletes[w] = "done"
           /\ page' = [page EXCEPT !.deletes = Unbind(page.deletes, w),
                                   !.query.rows = Filtered(page.query.rows, w),
                                   !.query.error = FALSE,
                                   !.query.late = Overtaken(page.query, w, FALSE)]
    BY <1>3 DEF Deleted
  <2> DEFINE d == Unbind(page.deletes, w)
             l == Filtered(q.rows, w)
             late == Overtaken(q, w, FALSE)
             x == [q EXCEPT !.rows = l, !.error = FALSE, !.late = late]
  <2>2. w \in MenuIds /\ DOMAIN d \subseteq MenuIds
    BY <1>0 DEF Unbind
  <2>3. l \in MenuList /\ Entries(l) = R \ {w} /\ l # None
    <3>1. CASE q.rows = None
      BY <3>1, NoEntries, MenuLists3 DEF Filtered, Workspaces
    <3>2. CASE q.rows # None
      <4>1. q.rows \in MenuList /\ l = Struck(q.rows, w) /\ R = Entries(q.rows)
        BY <3>2, <1>0 DEF QueryOf, Filtered, Workspaces
      <4>2. Struck(q.rows, w) \in MenuList
        BY <4>1, <2>2, ListEntries
      <4> QED BY <4>1, <4>2, <2>2, ListEntries
    <3> QED BY <3>1, <3>2
  <2>4. late \in BOOLEAN /\ (q.step = "served" /\ ~late => o /\ w \notin A)
    <3>1. q.step = "served" => Answered(page) = q.answer
      BY <1>0 DEF MenuType, Answered
    <3>2. q.late \in BOOLEAN
      BY <1>0 DEF QueryOf
    <3> QED BY <3>1, <3>2 DEF Overtaken, OnWay
  <2>5. page' = [page EXCEPT !.deletes = d, !.query = x]
    BY <2>1, <1>0 DEF MenuType
  <2>6. x \in QueryOf(MenuList) /\ x.rows = l /\ x.answer = q.answer /\ x.behind = q.behind
        /\ x.step = q.step /\ x.late = late
    <3> HIDE DEF l, late
    <3> QED BY <1>0, <2>3, <2>4 DEF QueryOf
  <2> DEFINE n == q.step = "served" /\ ~late
  <2>7. n \in BOOLEAN /\ (n => o /\ w \notin A)
    BY <2>4
  <2>8. Done(page.deletes, w)
    BY <2>1 DEF Done
  <2> HIDE DEF n
  <2>9. MenuSound(E, R \ {w}, A, n, b, page.creates, d, page.made, page.wanted)
    <3> HIDE DEF E, R, A, q, o, b
    <3> QED BY <1>0, <2>2, <2>7, <2>8, DeleteLanded, SMTT(30)
  <2> HIDE DEF d, l, x, late
  <2>10. /\ page'.exists = page.exists /\ page'.query = x /\ page'.creates = page.creates
         /\ page'.deletes = d /\ page'.made = page.made /\ page'.wanted = page.wanted
         /\ page'.settings = page.settings /\ page'.mine = page.mine
         /\ page'.pending = page.pending /\ page'.intent = page.intent
         /\ page'.chosen = page.chosen
    BY <2>5, <1>0 DEF MenuType
  <2>11. MenuType(page')
    BY <1>0, <2>2, <2>5, <2>6, <2>10 DEF MenuType
  <2>12. FormInv(page')
    BY <1>0, <2>10 DEF FormInv, FormShown
  <2>13. Workspaces(page') = l /\ Answered(page') = Answered(page) /\ OnWay(page') = n
    BY <2>3, <2>6, <2>10 DEF Workspaces, Answered, OnWay, n
  <2>14. Entries(Workspaces(page')) = R \ {w} /\ Entries(Answered(page')) = A
         /\ page'.query.behind = b
    BY <2>3, <2>6, <2>10, <2>13
  <2> HIDE DEF E, R, A, q, o, b
  <2> QED BY <2>9, <2>10, <2>11, <2>12, <2>13, <2>14 DEF MenuInv, E
<1>4. CASE DeleteFails
  <2>1. PICK w \in DOMAIN page.deletes :
           page' = [page EXCEPT !.deletes = Unbind(page.deletes, w),
                       !.query = IF page.deletes[w] = "done" THEN Query!Miss(page.query)
                                                             ELSE page.query]
    BY <1>4 DEF DeleteFails
  <2> DEFINE d == Unbind(page.deletes, w)
             x == IF page.deletes[w] = "done" THEN Query!Miss(q) ELSE q
             n == x.step = "served" /\ ~x.late
  <2>2. w \in MenuIds /\ DOMAIN d \subseteq MenuIds
    BY <1>0 DEF Unbind
  <2>3. x \in QueryOf(MenuList) /\ x.rows = q.rows /\ x.answer = q.answer /\ x.step = q.step
    <3>1. Query!Miss(q) \in QueryOf(MenuList)
      BY <1>0, QueryTypes
    <3>2. /\ Query!Miss(q).rows = q.rows /\ Query!Miss(q).answer = q.answer
          /\ Query!Miss(q).step = q.step
      BY <1>0 DEF QueryOf, Query!Miss
    <3> QED BY <1>0, <3>1, <3>2
  <2>4. MenuSound(E, R, A, n, x.behind, page.creates, d, page.made, page.wanted)
    <3>1. CASE page.deletes[w] = "done"
      <4>1. x.behind = TRUE /\ n = FALSE
        BY <3>1, <1>0 DEF QueryOf, Query!Miss
      <4>2. MenuSound(E, R, A, FALSE, TRUE, page.creates, d, page.made, page.wanted)
        <5> HIDE DEF E, R, A, q, o, b
        <5> QED BY <1>0, <2>2, DeleteMissed
      <4> QED BY <4>1, <4>2
    <3>2. CASE page.deletes[w] # "done"
      <4>1. x.behind = b /\ n = o
        BY <3>2 DEF OnWay
      <4>2. MenuSound(E, R, A, o, b, page.creates, d, page.made, page.wanted)
        <5> HIDE DEF E, R, A, q, o, b
        <5> QED BY <1>0, <2>1, <2>2, <3>2, DeleteLost
      <4> QED BY <4>1, <4>2
    <3> QED BY <3>1, <3>2
  <2>5. page' = [page EXCEPT !.deletes = d, !.query = x]
    BY <2>1
  <2> HIDE DEF d, x
  <2>6. /\ page'.exists = page.exists /\ page'.query = x /\ page'.creates = page.creates
        /\ page'.deletes = d /\ page'.made = page.made /\ page'.wanted = page.wanted
        /\ page'.settings = page.settings /\ page'.mine = page.mine
        /\ page'.pending = page.pending /\ page'.intent = page.intent
        /\ page'.chosen = page.chosen
    BY <2>5, <1>0 DEF MenuType
  <2>7. MenuType(page')
    BY <1>0, <2>2, <2>3, <2>5, <2>6 DEF MenuType
  <2>8. FormInv(page')
    BY <1>0, <2>6 DEF FormInv, FormShown
  <2>9. Workspaces(page') = Workspaces(page) /\ Answered(page') = Answered(page)
        /\ OnWay(page') = n
    BY <2>3, <2>6 DEF Workspaces, Answered, OnWay
  <2> HIDE DEF n
  <2> QED BY <2>4, <2>6, <2>7, <2>8, <2>9 DEF MenuInv
<1> QED BY <1>1, <1>2, <1>3, <1>4

\* The steps of the switcher and of the settings that open and close the form.
LEMMA MenuForms ==
    ASSUME MenuInv(page),
           \/ goCreate \/ WorkspaceEmptyState \/ OpenSettings \/ LeaveSettings \/ selectTab
           \/ CreateAnother \/ CancelForm
    PROVE  MenuInv(page')
<1>0. MenuType(page) /\ FormInv(page)
  BY DEF MenuInv
<1>1. ASSUME NEW s \in {None} \cup SettingsStates, NEW i \in BOOLEAN, NEW m \in {None, page.pending},
             NEW mine \in {page.mine, {}},
             page' = [page EXCEPT !.settings = s, !.intent = i, !.pending = m, !.mine = mine],
             i => s # None /\ s.creating,
             m # None => s # None /\ s.creating /\ mine = page.mine
      PROVE  MenuInv(page')
  <2>1. /\ page'.exists = page.exists /\ page'.query = page.query /\ page'.creates = page.creates
        /\ page'.deletes = page.deletes /\ page'.made = page.made /\ page'.wanted = page.wanted
        /\ page'.settings = s /\ page'.mine = mine /\ page'.pending = m /\ page'.intent = i
        /\ page'.chosen = page.chosen
    BY <1>0, <1>1 DEF MenuType
  <2>2. MenuType(page')
    BY <1>0, <1>1, <2>1 DEF MenuType
  <2>3. FormInv(page')
    BY <1>0, <1>1, <2>1 DEF FormInv, FormShown
  <2> QED BY <2>1, <2>2, <2>3, MenuQuiet
<1>2. \A b \in BOOLEAN :
         /\ SettingsOpen(b) \in SettingsStates /\ SettingsOpen(b) # None
         /\ SettingsOpen(b).creating = b
  BY MenuAssumption, SMTT(30) DEF SettingsOpen, SettingsStates
<1>3. /\ page.settings \in {None} \cup SettingsStates /\ page.intent \in BOOLEAN
      /\ page.pending # None => FormShown(page)
      /\ page.intent => FormShown(page)
  BY <1>0 DEF MenuType, FormInv
<1>4. CASE goCreate
  <2> DEFINE s == IF page.intent THEN page.settings ELSE SettingsOpen(TRUE)
  <2>1. s \in {None} \cup SettingsStates /\ s # None /\ s.creating
    BY <1>2, <1>3 DEF FormShown
  <2>2. page' = [page EXCEPT !.settings = s, !.intent = TRUE, !.pending = page.pending,
                             !.mine = page.mine]
    BY <1>4, <1>0 DEF goCreate, MenuType
  <2> HIDE DEF s
  <2> QED BY <1>1, <2>1, <2>2
<1>5. CASE WorkspaceEmptyState
  <2>1. page' = [page EXCEPT !.settings = SettingsOpen(TRUE), !.intent = TRUE,
                             !.pending = page.pending, !.mine = page.mine]
    BY <1>5, <1>0 DEF WorkspaceEmptyState, MenuType
  <2> QED BY <1>1, <1>2, <2>1
<1>6. CASE OpenSettings
  <2>1. page' = [page EXCEPT !.settings = SettingsOpen(FALSE), !.intent = FALSE,
                             !.pending = None, !.mine = page.mine]
    BY <1>6, <1>3, <1>0 DEF OpenSettings, MenuType, FormShown
  <2> QED BY <1>1, <1>2, <2>1
<1>7. CASE LeaveSettings
  BY <1>7, <1>1 DEF LeaveSettings
<1>8. CASE selectTab
  <2>1. PICK t \in {"workspace", "members"} :
           page' = [page EXCEPT !.settings.tab = t, !.settings.creating = FALSE,
                                !.intent = FALSE, !.pending = None]
    BY <1>8 DEF selectTab
  <2> DEFINE s == [page.settings EXCEPT !.tab = t, !.creating = FALSE]
  <2>2. page.settings \in SettingsStates
    BY <1>8, <1>3 DEF selectTab
  <2>3. s \in SettingsStates
    BY <2>2 DEF SettingsStates
  <2>4. page' = [page EXCEPT !.settings = s, !.intent = FALSE, !.pending = None,
                             !.mine = page.mine]
    BY <2>1, <1>0 DEF MenuType
  <2> HIDE DEF s
  <2> QED BY <1>1, <2>3, <2>4
<1>9. CASE CreateAnother
  <2>1. page' = [page EXCEPT !.settings = SettingsOpen(TRUE), !.intent = page.intent,
                             !.pending = page.pending, !.mine = page.mine]
    BY <1>9, <1>0 DEF CreateAnother, MenuType
  <2> QED BY <1>1, <1>2, <1>3, <2>1
<1>10. CASE CancelForm
  <2> DEFINE s == [page.settings EXCEPT !.creating = FALSE]
  <2>1. page.settings \in SettingsStates
    BY <1>10, <1>3 DEF CancelForm, FormShown
  <2>2. s \in SettingsStates
    BY <2>1 DEF SettingsStates
  <2>3. page' = [page EXCEPT !.settings = s, !.intent = FALSE, !.pending = None,
                             !.mine = page.mine]
    BY <1>10, <1>0 DEF CancelForm, MenuType
  <2> HIDE DEF s
  <2> QED BY <1>1, <2>2, <2>3
<1> QED BY <1>4, <1>5, <1>6, <1>7, <1>8, <1>9, <1>10

\* The calls that create: submitted, done by the server, answered, failed.
LEMMA MenuCreates ==
    ASSUME MenuInv(page), SubmitForm \/ CreateOnServer \/ Created \/ CreateFails
    PROVE  MenuInv(page')
<1> DEFINE q == page.query
           E == Entries(page.exists)
           R == Entries(Workspaces(page))
           A == Entries(Answered(page))
           o == OnWay(page)
           b == q.behind
<1>0. /\ MenuType(page) /\ FormInv(page) /\ q \in QueryOf(MenuList) /\ page.exists \in MenuList
      /\ MenuSound(E, R, A, o, b, page.creates, page.deletes, page.made, page.wanted)
      /\ b \in BOOLEAN /\ o \in BOOLEAN
      /\ page.made \in Nat /\ page.made \in 0..MaxCreates
      /\ DOMAIN page.creates \subseteq (Joined + 1)..(Joined + page.made)
  BY MenuLists3, MenuAssumption, SMTT(30) DEF MenuInv, MenuType, QueryOf
<1>00. \A w \in DOMAIN page.creates : w \in MenuIds
  BY <1>0, MenuAssumption, SMTT(30) DEF MenuIds
<1>1. CASE SubmitForm
  <2> DEFINE w == Joined + page.made + 1
             c == Bind(page.creates, w, "sent")
             made == page.made + 1
             mine == page.mine \cup {w}
  <2>1. w \in MenuIds /\ made \in 0..MaxCreates /\ page.pending = None /\ FormShown(page)
    BY <1>1, <1>0, MenuAssumption, SMTT(30) DEF SubmitForm, MenuIds
  <2>2. /\ DOMAIN c = DOMAIN page.creates \cup {w}
        /\ w \in (Joined + 1)..(Joined + made)
        /\ (Joined + 1)..(Joined + page.made) \subseteq (Joined + 1)..(Joined + made)
    BY <1>0, MenuAssumption, SMTT(30) DEF Bind
  <2>3. MenuSound(E, R, A, o, b, c, page.deletes, made, page.wanted)
    <3>1. w = Joined + page.made + 1
      OBVIOUS
    <3> HIDE DEF E, R, A, q, o, b, w
    <3> QED BY <1>0, <2>1, <3>1, CreateAsked
  <2>4. page' = [page EXCEPT !.made = made, !.pending = w, !.creates = c, !.mine = mine]
    BY <1>1 DEF SubmitForm
  <2>5. w # None
    BY <2>1, MenuLists3
  <2>6. page.mine \subseteq DOMAIN page.creates
    BY <1>0 DEF FormInv
  <2>7. mine \subseteq DOMAIN c /\ w \in mine /\ DOMAIN c \subseteq (Joined + 1)..(Joined + made)
    BY <1>0, <2>2, <2>6
  <2> HIDE DEF w, c, made, mine
  <2>8. /\ page'.exists = page.exists /\ page'.query = page.query /\ page'.creates = c
        /\ page'.deletes = page.deletes /\ page'.made = made /\ page'.wanted = page.wanted
        /\ page'.settings = page.settings /\ page'.mine = mine
        /\ page'.pending = w /\ page'.intent = page.intent
        /\ page'.chosen = page.chosen
    BY <2>4, <1>0 DEF MenuType
  <2>9. MenuType(page')
    BY <1>0, <2>1, <2>4, <2>7, <2>8 DEF MenuType
  <2>10. FormInv(page')
    BY <1>0, <2>1, <2>7, <2>8 DEF FormInv, FormShown
  <2> QED BY <2>3, <2>8, <2>9, <2>10 DEF MenuInv, Workspaces, Answered, OnWay
<1>2. CASE CreateOnServer
  <2>1. PICK w \in DOMAIN page.creates :
           /\ page.creates[w] = "sent"
           /\ page' = [page EXCEPT !.exists = Append(page.exists, w), !.creates[w] = "done"]
    BY <1>2 DEF CreateOnServer
  <2> DEFINE c == [page.creates EXCEPT ![w] = "done"]
             l == Append(page.exists, w)
  <2>2. w \in MenuIds /\ DOMAIN c = DOMAIN page.creates
    BY <1>00
  <2>3. l \in MenuList /\ Entries(l) = E \cup {w}
    BY <1>0, <2>2, ListEntries
  <2>4. MenuSound(E \cup {w}, R, A, o, b, c, page.deletes, page.made, page.wanted)
    <3> HIDE DEF E, R, A, q, o, b
    <3> QED BY <1>0, <2>1, <2>2, CreateServed, SMTT(30)
  <2>5. page' = [page EXCEPT !.exists = l, !.creates = c]
    BY <2>1, <1>0 DEF MenuType
  <2> HIDE DEF c, l
  <2>6. /\ page'.exists = l /\ page'.query = page.query /\ page'.creates = c
        /\ page'.deletes = page.deletes /\ page'.made = page.made /\ page'.wanted = page.wanted
        /\ page'.settings = page.settings /\ page'.mine = page.mine
        /\ page'.pending = page.pending /\ page'.intent = page.intent
        /\ page'.chosen = page.chosen
    BY <2>5, <1>0 DEF MenuType
  <2>7. MenuType(page')
    BY <1>0, <2>2, <2>3, <2>5, <2>6 DEF MenuType
  <2>8. FormInv(page')
    BY <1>0, <2>2, <2>6 DEF FormInv, FormShown
  <2>9. Workspaces(page') = Workspaces(page) /\ Answered(page') = Answered(page)
        /\ OnWay(page') = OnWay(page)
    BY <2>6 DEF Workspaces, Answered, OnWay
  <2> QED BY <2>3, <2>4, <2>6, <2>7, <2>8, <2>9 DEF MenuInv
<1>3. CASE Created
  <2>1. PICK w \in DOMAIN page.creates :
           /\ page.creates[w] = "done"
           /\ page' = [Appended(page, w) EXCEPT
                 !.creates = Unbind(@, w),
                 !.mine = @ \ {w},
                 !.query.late = Overtaken(page.query, w, TRUE),
                 !.query.behind = @ \/ w \notin Entries(page.exists),
                 !.intent = FALSE,
                 !.settings = IF w \in page.mine
                              THEN [tab |-> "workspace", creating |-> FALSE, createdId |-> w]
                              ELSE @,
                 !.pending = IF w \in page.mine THEN None ELSE @,
                 !.wanted = IF w \in Entries(page.exists) THEN w ELSE None]
    BY <1>3 DEF Created
  <2> DEFINE c == Unbind(page.creates, w)
             l == Append(Workspaces(page), w)
             late == Overtaken(q, w, TRUE)
             behind == b \/ w \notin E
             x == [q EXCEPT !.rows = l, !.error = FALSE, !.late = late, !.behind = behind]
             s == IF w \in page.mine
                  THEN [tab |-> "workspace", creating |-> FALSE, createdId |-> w]
                  ELSE page.settings
             pd == IF w \in page.mine THEN None ELSE page.pending
             want == IF w \in E THEN w ELSE None
  <2>2. w \in MenuIds /\ DOMAIN c = DOMAIN page.creates \ {w} /\ w # None /\ w \in Nat
    BY <1>00, MenuLists3 DEF Unbind
  <2>3. l \in MenuList /\ Entries(l) = R \cup {w} /\ l # None
    <3>1. Workspaces(page) \in MenuList
      BY MenuLists3
    <3>2. l \in MenuList /\ Entries(l) = R \cup {w}
      BY <2>2, <3>1, ListEntries
    <3> QED BY <2>2, <3>2, ListEntries
  <2>4. late \in BOOLEAN /\ (q.step = "served" /\ ~late => o /\ w \in A)
    <3>1. q.step = "served" => Answered(page) = q.answer
      BY <1>0 DEF MenuType, Answered
    <3>2. q.late \in BOOLEAN
      BY <1>0 DEF QueryOf
    <3> QED BY <3>1, <3>2 DEF Overtaken, OnWay
  <2>5. behind \in BOOLEAN
    OBVIOUS
  <2>6. page' = [page EXCEPT !.creates = c, !.mine = page.mine \ {w}, !.query = x,
                             !.intent = FALSE, !.settings = s, !.pending = pd, !.wanted = want,
                             !.chosen = w]
    <3> DEFINE a == Appended(page, w)
    <3>1. a = [page EXCEPT !.query = [q EXCEPT !.rows = l, !.error = FALSE], !.chosen = w]
      BY <1>0 DEF Appended, MenuType
    <3>2. /\ a.creates = page.creates /\ a.mine = page.mine /\ a.settings = page.settings
          /\ a.pending = page.pending /\ a.query = [q EXCEPT !.rows = l, !.error = FALSE]
      BY <1>0, <3>1 DEF MenuType
    <3>5. a.query.behind = q.behind
      BY <1>0, <3>2 DEF QueryOf
    <3> HIDE DEF a
    <3>3. page' = [a EXCEPT !.creates = c, !.mine = page.mine \ {w},
                            !.query = [a.query EXCEPT !.late = late, !.behind = behind],
                            !.intent = FALSE, !.settings = s, !.pending = pd, !.wanted = want]
      BY <1>0, <2>1, <3>1, <3>2, <3>5 DEF a, MenuType
    <3>4. [a.query EXCEPT !.late = late, !.behind = behind] = x
      BY <3>2
    <3> HIDE DEF x, c, s, pd, want, l
    <3> QED BY <1>0, <3>1, <3>3, <3>4 DEF MenuType
  <2>7. x \in QueryOf(MenuList) /\ x.rows = l /\ x.answer = q.answer /\ x.behind = behind
        /\ x.step = q.step /\ x.late = late
    <3> HIDE DEF l, late, behind
    <3> QED BY <1>0, <2>3, <2>4, <2>5 DEF QueryOf
  <2> DEFINE n == q.step = "served" /\ ~late
  <2>8. n \in BOOLEAN /\ (n => o /\ w \in A)
    BY <2>4
  <2>9. Done(page.creates, w)
    BY <2>1 DEF Done
  <2>10. (b \/ w \notin E => behind) /\ (want # None => want = w /\ w \in E)
    OBVIOUS
  <2> HIDE DEF n, behind
  <2>11. MenuSound(E, R \cup {w}, A, n, behind, c, page.deletes, page.made, want)
    <3> HIDE DEF E, R, A, q, o, b, want
    <3> QED BY <1>0, <2>2, <2>5, <2>8, <2>9, <2>10, CreateLanded, SMTT(30)
  <2>12. /\ s \in {None} \cup SettingsStates /\ pd \in {None} \cup MenuIds
         /\ want \in {None, w}
         /\ pd # None => pd = page.pending /\ s = page.settings /\ w \notin page.mine
    BY <1>0, <2>2 DEF SettingsStates, MenuType
  <2> HIDE DEF c, l, x, late, s, pd, want
  <2>13. /\ page'.exists = page.exists /\ page'.query = x /\ page'.creates = c
         /\ page'.deletes = page.deletes /\ page'.made = page.made /\ page'.wanted = want
         /\ page'.settings = s /\ page'.mine = page.mine \ {w}
         /\ page'.pending = pd /\ page'.intent = FALSE
         /\ page'.chosen = w
    BY <2>6, <1>0 DEF MenuType
  <2>14. MenuType(page')
    BY <1>0, <2>2, <2>6, <2>7, <2>12, <2>13 DEF MenuType
  <2>15. FormInv(page')
    BY <1>0, <2>2, <2>12, <2>13 DEF FormInv, FormShown
  <2>16. Workspaces(page') = l /\ Answered(page') = Answered(page) /\ OnWay(page') = n
    BY <2>3, <2>7, <2>13 DEF Workspaces, Answered, OnWay, n
  <2>17. Entries(Workspaces(page')) = R \cup {w} /\ Entries(Answered(page')) = A
         /\ page'.query.behind = behind
    BY <2>3, <2>7, <2>13, <2>16
  <2> HIDE DEF E, R, A, q, o, b
  <2> QED BY <2>11, <2>13, <2>14, <2>15, <2>16, <2>17 DEF MenuInv, E
<1>4. CASE CreateFails
  <2>1. PICK w \in DOMAIN page.creates :
           page' = [page EXCEPT
                       !.creates = Unbind(page.creates, w),
                       !.mine = page.mine \ {w},
                       !.pending = IF page.pending = w THEN None ELSE page.pending,
                       !.query = IF page.creates[w] = "done" THEN Query!Miss(page.query)
                                                             ELSE page.query]
    BY <1>4 DEF CreateFails
  <2> DEFINE c == Unbind(page.creates, w)
             x == IF page.creates[w] = "done" THEN Query!Miss(q) ELSE q
             n == x.step = "served" /\ ~x.late
             pd == IF page.pending = w THEN None ELSE page.pending
  <2>2. w \in MenuIds /\ DOMAIN c = DOMAIN page.creates \ {w}
    BY <1>00 DEF Unbind
  <2>3. x \in QueryOf(MenuList) /\ x.rows = q.rows /\ x.answer = q.answer /\ x.step = q.step
    <3>1. Query!Miss(q) \in QueryOf(MenuList)
      BY <1>0, QueryTypes
    <3>2. /\ Query!Miss(q).rows = q.rows /\ Query!Miss(q).answer = q.answer
          /\ Query!Miss(q).step = q.step
      BY <1>0 DEF QueryOf, Query!Miss
    <3> QED BY <1>0, <3>1, <3>2
  <2>4. MenuSound(E, R, A, n, x.behind, c, page.deletes, page.made, page.wanted)
    <3>1. CASE page.creates[w] = "done"
      <4>1. x.behind = TRUE /\ n = FALSE
        BY <3>1, <1>0 DEF QueryOf, Query!Miss
      <4>2. MenuSound(E, R, A, FALSE, TRUE, c, page.deletes, page.made, page.wanted)
        <5> HIDE DEF E, R, A, q, o, b
        <5> QED BY <1>0, <2>2, CreateMissed
      <4> QED BY <4>1, <4>2
    <3>2. CASE page.creates[w] # "done"
      <4>1. x.behind = b /\ n = o
        BY <3>2 DEF OnWay
      <4>2. MenuSound(E, R, A, o, b, c, page.deletes, page.made, page.wanted)
        <5> HIDE DEF E, R, A, q, o, b
        <5> QED BY <1>0, <2>1, <2>2, <3>2, CreateLost, SMTT(30)
      <4> QED BY <4>1, <4>2
    <3> QED BY <3>1, <3>2
  <2>5. page' = [page EXCEPT !.creates = c, !.mine = page.mine \ {w}, !.pending = pd, !.query = x]
    BY <2>1
  <2>6. pd \in {None, page.pending} /\ (pd # w \/ pd = None)
    OBVIOUS
  <2> HIDE DEF c, x, pd
  <2>7. /\ page'.exists = page.exists /\ page'.query = x /\ page'.creates = c
        /\ page'.deletes = page.deletes /\ page'.made = page.made /\ page'.wanted = page.wanted
        /\ page'.settings = page.settings /\ page'.mine = page.mine \ {w}
        /\ page'.pending = pd /\ page'.intent = page.intent
        /\ page'.chosen = page.chosen
    BY <2>5, <1>0 DEF MenuType
  <2>8. MenuType(page')
    BY <1>0, <2>2, <2>3, <2>5, <2>6, <2>7 DEF MenuType
  <2>9. FormInv(page')
    BY <1>0, <2>2, <2>6, <2>7 DEF FormInv, FormShown
  <2>10. Workspaces(page') = Workspaces(page) /\ Answered(page') = Answered(page)
         /\ OnWay(page') = n
    BY <2>3, <2>7 DEF Workspaces, Answered, OnWay
  <2> HIDE DEF n
  <2> QED BY <2>4, <2>7, <2>8, <2>9, <2>10 DEF MenuInv
<1> QED BY <1>1, <1>2, <1>3, <1>4

\* Every step of the menu keeps its invariant.
LEMMA MenuStep == ASSUME MenuInv(page), MenuNext PROVE MenuInv(page')
BY MenuFetches, MenuChoice, MenuDeletes, MenuForms, MenuCreates DEF MenuNext

\* The dashboard loads with the invariant: nothing is listed or in flight.
LEMMA MenuStart == ASSUME NEW p \in MenuInit PROVE MenuInv(p)
<1>1. PICK joined \in {Existing, <<>>}, c \in {None} \cup 1..Joined :
         p = [name |-> "menu", exists |-> joined, query |-> Query!Ask(Query!Cold), chosen |-> c,
              settings |-> None, intent |-> FALSE, pending |-> None, made |-> 0,
              creates |-> [w \in {} |-> "sent"], mine |-> {},
              deletes |-> [w \in {} |-> "sent"], wanted |-> None]
  BY SMTT(30) DEF MenuInit
<1> DEFINE q == Query!Ask(Query!Cold)
<1>2. /\ q \in QueryOf(MenuList) /\ q.rows = None /\ q.answer = None /\ q.behind
      /\ q.step # "served"
  BY QueryStart
<1>3. joined \in MenuList /\ \A w \in Entries(joined) : w \in 1..Joined
  <2>1. CASE joined = Existing
    <3>1. joined \in [1..Joined -> MenuIds] /\ \A i \in 1..Joined : joined[i] = i
      BY <2>1, MenuAssumption, SMTT(30) DEF Existing, MenuIds
    <3>2. joined \in Seq({None} \cup MenuIds)
      BY <3>1, MenuAssumption, SMTT(30)
    <3> QED BY <3>1, <3>2 DEF MenuList, Entries
  <2>2. CASE joined = <<>>
    BY <2>2, NoEntries
  <2> QED BY <2>1, <2>2
<1>4. /\ p.name = "menu" /\ p.exists = joined /\ p.query = q /\ p.chosen = c /\ p.settings = None
      /\ p.intent = FALSE /\ p.pending = None /\ p.made = 0 /\ DOMAIN p.creates = {}
      /\ p.mine = {} /\ DOMAIN p.deletes = {} /\ p.wanted = None
      /\ DOMAIN p = {"name", "exists", "query", "chosen", "settings", "intent", "pending", "made",
                     "creates", "mine", "deletes", "wanted"}
  BY <1>1
<1>5. c \in {None} \cup MenuIds
  BY MenuAssumption, SMTT(30) DEF MenuIds
<1> HIDE DEF q
<1>6. MenuType(p)
  <2>1. 0 \in 0..MaxCreates
    BY MenuAssumption, SMTT(30)
  <2> QED BY <1>2, <1>3, <1>4, <1>5, <2>1 DEF MenuType
<1>7. FormInv(p)
  BY <1>4 DEF FormInv
<1>8. Workspaces(p) = <<>> /\ Answered(p) = <<>> /\ Entries(<<>>) = {} /\ OnWay(p) = FALSE
  BY <1>2, <1>4, NoEntries DEF Workspaces, Answered, OnWay
<1>9. \A w \in MenuIds : w > Joined + 0 => w \notin Entries(joined)
  BY <1>3, MenuAssumption, SMTT(30) DEF MenuIds
<1>10. MenuSound(Entries(joined), {}, {}, FALSE, q.behind, p.creates, p.deletes, 0, None)
  BY <1>2, <1>4, <1>9 DEF MenuSound, Done
<1> QED BY <1>4, <1>6, <1>7, <1>8, <1>10 DEF MenuInv

\* What the invariant says of the screen.
LEMMA MenuShown ==
    ASSUME MenuInv(page)
    PROVE  MenuTypeOK /\ MenuCatchesUp /\ ChosenIsShown
<1>1. MenuTypeOK
  BY MenuLists3 DEF MenuTypeOK, MenuInv, MenuType, FormInv, MenuIds
<1>2. MenuCatchesUp
  <2> SUFFICES ASSUME Query!Settled(page.query), DOMAIN page.creates = {}, DOMAIN page.deletes = {}
               PROVE  Entries(Workspaces(page)) = Entries(page.exists)
    BY DEF MenuCatchesUp
  <2>1. ListsAgree(Entries(page.exists), Entries(Workspaces(page)), page.creates, page.deletes)
    BY DEF MenuInv, MenuSound, Query!Settled
  <2>2. Entries(page.exists) \subseteq MenuIds /\ Entries(Workspaces(page)) \subseteq MenuIds
    BY MenuLists3
  <2> QED BY <2>1, <2>2 DEF ListsAgree, Done
<1>3. ChosenIsShown
  <2>1. page.wanted # None /\ ~page.query.behind => workspace(page) = page.wanted
    <3> SUFFICES ASSUME page.wanted # None, ~page.query.behind
                 PROVE  workspace(page) = page.wanted
      OBVIOUS
    <3>1. page.wanted \in Entries(Workspaces(page)) /\ page.chosen = page.wanted
      BY DEF MenuInv, MenuSound, FormInv
    <3> QED BY <3>1 DEF workspace
  <2>2. page.intent => FormShown(page)
    BY DEF MenuInv, FormInv
  <2> QED BY <2>1, <2>2 DEF ChosenIsShown
<1> QED BY <1>1, <1>2, <1>3

--------------------------------------------------------------------------------

HistEntries == {Foreign} \cup {Entry(v, s) : v \in Views, s \in Selections}

PaletteOK(pal) ==
    /\ DOMAIN pal = {"open", "items", "idx"}
    /\ pal.items \in Seq(VIEW_IDS) /\ pal.idx \in 0..6
    /\ Len(pal.items) \in 0..6
    /\ pal.items # <<>> => pal.idx \in DOMAIN pal.items

ShellType(p) ==
    /\ p.name = "shell"
    /\ DOMAIN p = {"name", "view", "selected", "hist", "pos", "stored", "intent", "palette",
                   "strayed"}
    /\ p.view \in Views /\ p.selected \in Selections /\ p.stored \in Views
    /\ p.hist \in Seq(HistEntries) /\ p.pos \in 1..Len(p.hist)
    /\ p.intent \in BOOLEAN /\ p.strayed \in BOOLEAN
    /\ PaletteOK(p.palette)

PathsDiffer(hist) ==
    \A i \in 2..Len(hist) : hist[i].view # None => hist[i].path # hist[i - 1].path

ShellInv(p) ==
    /\ ShellType(p)
    /\ p.hist[p.pos].view # None => p.hist[p.pos] = Entry(p.view, p.selected)
    /\ ~p.strayed => PathsDiffer(p.hist)

\* The path of each view.
LEMMA Paths ==
    ASSUME NEW v \in Views, NEW s
    PROVE  /\ v \in Pages => stateToPath(v, s) = <<"extensions", v>>
           /\ v = "overview" => stateToPath(v, s) = <<>>
           /\ v = "workflows" => stateToPath(v, s) = Below("workflows", s.workflow)
           /\ v = "compare" => stateToPath(v, s) = ComparePath(s)
           /\ v = "trace" => stateToPath(v, s) = Below("traces", s.traceId)
           /\ v = "usage" => stateToPath(v, s) = <<"usage">>
           /\ v = "users" => stateToPath(v, s) = <<"clients">>
           /\ v = "user" => stateToPath(v, s) = Below("clients", s.user)
           /\ v = "keys" => stateToPath(v, s) = <<"api-keys">>
           /\ v = "settings" => stateToPath(v, s) = <<"settings">>
<1>1. v \in VIEW_IDS => v \notin Pages
  BY NavigationAssumption
<1>2. v \in VIEW_IDS \/ v \in Pages
  BY DEF Views
<1> QED BY <1>1, <1>2 DEF stateToPath, VIEW_IDS

\* null is no view and no word of a path.
LEMMA NullIsNoWord == \A x \in Views \cup SEGMENTS : x # None
BY NavigationAssumption

\* The segments of paths.
LEMMA OneSeg ==
    ASSUME NEW a
    PROVE  <<a>> # <<>> /\ Seg(<<a>>, 1) = a /\ Seg(<<a>>, 2) = None /\ Seg(<<a>>, 3) = None
BY SMTT(30) DEF Seg

\* The segments of a path of two.
LEMMA TwoSegs ==
    ASSUME NEW a, NEW b
    PROVE  /\ <<a, b>> # <<>> /\ Seg(<<a, b>>, 1) = a /\ Seg(<<a, b>>, 2) = b
           /\ Seg(<<a, b>>, 3) = None
BY SMTT(30) DEF Seg

\* The segments of a path of five.
LEMMA FiveSegs ==
    ASSUME NEW a, NEW b, NEW c, NEW d, NEW e
    PROVE  /\ <<a, b, c, d, e>> # <<>>
           /\ <<a, b, c, d, e>>[4] = d /\ <<a, b, c, d, e>>[5] = e
           /\ Seg(<<a, b, c, d, e>>, 1) = a /\ Seg(<<a, b, c, d, e>>, 2) = b
           /\ Seg(<<a, b, c, d, e>>, 3) = c /\ Seg(<<a, b, c, d, e>>, 4) = d
           /\ Seg(<<a, b, c, d, e>>, 5) = e
<1>1. DOMAIN <<a, b, c, d, e>> = 1..5
  BY SMTT(30)
<1> QED BY <1>1, SMTT(30) DEF Seg

\* What a path of one or two segments means when it is opened.
LEMMA Opened ==
    ASSUME NEW p, NEW second, p # <<>>, Seg(p, 2) = second, Seg(p, 3) = None
    PROVE  /\ Seg(p, 1) = "extensions" /\ second \in Pages => pathToState(p) = At(second, Nothing)
           /\ Seg(p, 1) = "workflows" =>
                 pathToState(p) = At("workflows", [Nothing EXCEPT !.workflow = second])
           /\ Seg(p, 1) = "traces" =>
                 pathToState(p) = At("trace", [Nothing EXCEPT !.traceId = second])
           /\ Seg(p, 1) = "usage" => pathToState(p) = At("usage", Nothing)
           /\ Seg(p, 1) = "clients" =>
                 pathToState(p) = At(IF second = None THEN "users" ELSE "user",
                                     [Nothing EXCEPT !.user = second])
           /\ Seg(p, 1) = "api-keys" => pathToState(p) = At("keys", Nothing)
           /\ Seg(p, 1) = "settings" => pathToState(p) = At("settings", Nothing)
           /\ Seg(p, 1) = "login" => pathToState(p) = None
<1>1. None # "compare"
  BY NullIsNoWord DEF SEGMENTS
<1>2. Seg(p, 1) = "extensions" /\ second \in Pages => pathToState(p) = At(second, Nothing)
  BY DEF pathToState
<1>3. Seg(p, 1) = "workflows" =>
         pathToState(p) = At("workflows", [Nothing EXCEPT !.workflow = second])
  BY <1>1 DEF pathToState
<1>4. Seg(p, 1) = "traces" => pathToState(p) = At("trace", [Nothing EXCEPT !.traceId = second])
  BY DEF pathToState
<1>5. Seg(p, 1) = "clients" =>
         pathToState(p) = At(IF second = None THEN "users" ELSE "user",
                             [Nothing EXCEPT !.user = second])
  BY DEF pathToState
<1>6. /\ Seg(p, 1) = "usage" => pathToState(p) = At("usage", Nothing)
      /\ Seg(p, 1) = "api-keys" => pathToState(p) = At("keys", Nothing)
      /\ Seg(p, 1) = "settings" => pathToState(p) = At("settings", Nothing)
      /\ Seg(p, 1) = "login" => pathToState(p) = None
  BY DEF pathToState
<1> QED BY <1>2, <1>3, <1>4, <1>5, <1>6

\* What the views' paths mean.
LEMMA Locations ==
    /\ pathToState(<<>>) = At("overview", Nothing)
    /\ pathToState(<<"workflows">>) = At("workflows", Nothing)
    /\ pathToState(<<"traces">>) = At("trace", Nothing)
    /\ pathToState(<<"usage">>) = At("usage", Nothing)
    /\ pathToState(<<"clients">>) = At("users", Nothing)
    /\ pathToState(<<"api-keys">>) = At("keys", Nothing)
    /\ pathToState(<<"settings">>) = At("settings", Nothing)
    /\ pathToState(<<"login">>) = None
<1>1. ASSUME NEW a
      PROVE  <<a>> # <<>> /\ Seg(<<a>>, 1) = a /\ Seg(<<a>>, 2) = None /\ Seg(<<a>>, 3) = None
  BY OneSeg
<1>2. /\ Nothing = [Nothing EXCEPT !.workflow = None] /\ Nothing = [Nothing EXCEPT !.traceId = None]
      /\ Nothing = [Nothing EXCEPT !.user = None]
  BY SMTT(30) DEF Nothing
<1>3. pathToState(<<>>) = At("overview", Nothing)
  <2>1. Seg(<<>>, 1) = None /\ Seg(<<>>, 2) = None /\ Seg(<<>>, 3) = None
    BY SMTT(30) DEF Seg
  <2>2. /\ None # "extensions" /\ None # "workflows" /\ None # "traces" /\ None # "usage"
        /\ None # "clients" /\ None # "users" /\ None # "api-keys" /\ None # "settings"
    BY NullIsNoWord DEF SEGMENTS
  <2> DEFINE p == <<>>
  <2>3. p = <<>> /\ Seg(p, 1) = None
    BY <2>1
  <2> HIDE DEF p
  <2>4. pathToState(p) = At("overview", Nothing)
    BY <2>2, <2>3 DEF pathToState
  <2> QED BY <2>4 DEF p
<1>4. pathToState(<<"workflows">>) = At("workflows", Nothing)
  BY <1>1, <1>2, Opened, SMTT(30)
<1>5. pathToState(<<"traces">>) = At("trace", Nothing)
  BY <1>1, <1>2, Opened, SMTT(30)
<1>6. pathToState(<<"usage">>) = At("usage", Nothing)
  BY <1>1, Opened
<1>7. pathToState(<<"clients">>) = At("users", Nothing)
  BY <1>1, <1>2, Opened, SMTT(30)
<1>8. pathToState(<<"api-keys">>) = At("keys", Nothing) /\ pathToState(<<"login">>) = None
  BY <1>1, Opened
<1>9. pathToState(<<"settings">>) = At("settings", Nothing)
  BY <1>1, Opened
<1> QED BY <1>3, <1>4, <1>5, <1>6, <1>7, <1>8, <1>9

\* What the paths mean that hold a name.
LEMMA NamedLocations ==
    ASSUME NEW w, w # None
    PROVE  /\ w \in Pages => pathToState(<<"extensions", w>>) = At(w, Nothing)
           /\ pathToState(<<"workflows", w>>) = At("workflows", [Nothing EXCEPT !.workflow = w])
           /\ pathToState(<<"traces", w>>) = At("trace", [Nothing EXCEPT !.traceId = w])
           /\ pathToState(<<"clients", w>>) = At("user", [Nothing EXCEPT !.user = w])
<1>1. ASSUME NEW a
      PROVE  /\ <<a, w>> # <<>> /\ Seg(<<a, w>>, 1) = a /\ Seg(<<a, w>>, 2) = w
             /\ Seg(<<a, w>>, 3) = None
  BY TwoSegs
<1>2. w \in Pages => pathToState(<<"extensions", w>>) = At(w, Nothing)
  <2> DEFINE p == <<"extensions", w>>
  <2>1. p # <<>> /\ Seg(p, 1) = "extensions" /\ Seg(p, 2) = w /\ Seg(p, 3) = None
    BY <1>1
  <2> HIDE DEF p
  <2>2. w \in Pages => pathToState(p) = At(w, Nothing)
    BY <2>1, Opened
  <2> QED BY <2>2 DEF p
<1>3. pathToState(<<"workflows", w>>) = At("workflows", [Nothing EXCEPT !.workflow = w])
  <2> DEFINE p == <<"workflows", w>>
  <2>1. p # <<>> /\ Seg(p, 1) = "workflows" /\ Seg(p, 2) = w /\ Seg(p, 3) = None
    BY <1>1
  <2> HIDE DEF p
  <2>2. pathToState(p) = At("workflows", [Nothing EXCEPT !.workflow = w])
    BY <2>1, Opened
  <2> QED BY <2>2 DEF p
<1>4. pathToState(<<"traces", w>>) = At("trace", [Nothing EXCEPT !.traceId = w])
  <2> DEFINE p == <<"traces", w>>
  <2>1. p # <<>> /\ Seg(p, 1) = "traces" /\ Seg(p, 2) = w /\ Seg(p, 3) = None
    BY <1>1
  <2> HIDE DEF p
  <2>2. pathToState(p) = At("trace", [Nothing EXCEPT !.traceId = w])
    BY <2>1, Opened
  <2> QED BY <2>2 DEF p
<1>5. pathToState(<<"clients", w>>) = At("user", [Nothing EXCEPT !.user = w])
  <2> DEFINE p == <<"clients", w>>
  <2>1. p # <<>> /\ Seg(p, 1) = "clients" /\ Seg(p, 2) = w /\ Seg(p, 3) = None
    BY <1>1
  <2> HIDE DEF p
  <2>2. pathToState(p) = At("user", [Nothing EXCEPT !.user = w])
    BY <2>1, Opened
  <2> QED BY <2>2 DEF p
<1> QED BY <1>2, <1>3, <1>4, <1>5

\* What the path of two versions means.
LEMMA VersionsLocation ==
    ASSUME NEW w, NEW b, NEW c, w # None, b # None, c # None
    PROVE  pathToState(<<"workflows", w, "compare", b, c>>) =
              At("compare", [workflow |-> w, base |-> b, candidate |-> c, traceId |-> None,
                             user |-> None])
<1> DEFINE p == <<"workflows", w, "compare", b, c>>
<1>1. /\ p # <<>> /\ p[4] = b /\ p[5] = c /\ Seg(p, 1) = "workflows" /\ Seg(p, 2) = w /\ Seg(p, 3) = "compare"
      /\ Seg(p, 4) = b /\ Seg(p, 5) = c
  BY FiveSegs, SMTT(30)
<1> HIDE DEF p
<1>2. pathToState(p) = At("compare", [Nothing EXCEPT !.workflow = w, !.base = b, !.candidate = c])
  BY <1>1 DEF pathToState
<1>3. [Nothing EXCEPT !.workflow = w, !.base = b, !.candidate = c] =
         [workflow |-> w, base |-> b, candidate |-> c, traceId |-> None, user |-> None]
  <2> DEFINE x == [Nothing EXCEPT !.workflow = w]
             y == [x EXCEPT !.base = b]
             z == [y EXCEPT !.candidate = c]
  <2>1. x = [workflow |-> w, base |-> None, candidate |-> None, traceId |-> None, user |-> None]
    BY SMTT(30) DEF Nothing
  <2> HIDE DEF x
  <2>2. y = [workflow |-> w, base |-> b, candidate |-> None, traceId |-> None, user |-> None]
    BY <2>1, SMTT(30)
  <2> HIDE DEF y
  <2>3. z = [workflow |-> w, base |-> b, candidate |-> c, traceId |-> None, user |-> None]
    BY <2>2, SMTT(30)
  <2> HIDE DEF z
  <2>4. z = [Nothing EXCEPT !.workflow = w, !.base = b, !.candidate = c]
    BY DEF x, y, z, Nothing
  <2> QED BY <2>3, <2>4
<1> QED BY <1>2, <1>3 DEF p

\* What is rendered for each view.
LEMMA Shown ==
    ASSUME NEW v \in Views, NEW s
    PROVE  /\ v \notin {"workflows", "compare", "trace", "user"} => Rendered(v, s) = <<v>>
           /\ v = "workflows" => Rendered(v, s) = <<v, s.workflow>>
           /\ v = "compare" /\ HasVersions(s) =>
                 Rendered(v, s) = <<v, s.workflow, s.base, s.candidate>>
           /\ v = "trace" => Rendered(v, s) = <<v, s.traceId>>
           /\ v = "user" => Rendered(v, s) = <<v, s.user>>
BY DEF Rendered

\* What is selected by the paths that hold a name.
LEMMA Selects ==
    /\ Nothing \in Selections
    /\ Nothing.workflow = None /\ Nothing.traceId = None /\ Nothing.user = None
    /\ \A w \in Workflows : LET t == [Nothing EXCEPT !.workflow = w]
                            IN  t \in Selections /\ t.workflow = w
    /\ \A x \in Traces : LET t == [Nothing EXCEPT !.traceId = x]
                         IN  t \in Selections /\ t.traceId = x
    /\ \A x \in Clients : LET t == [Nothing EXCEPT !.user = x]
                          IN  t \in Selections /\ t.user = x
BY DEF Nothing, Selections

\* Opening the path of a view shows a view at the same path, and renders the
\* same unless the view has no path of its own.
Again(v, s, w, t) ==
    /\ pathToState(stateToPath(v, s)) = At(w, t)
    /\ stateToPath(w, t) = stateToPath(v, s)
    /\ ~(v = "compare" /\ ~HasVersions(s)) /\ ~(v = "user" /\ s.user = None)
          => Rendered(w, t) = Rendered(v, s)

\* pathToState inverts stateToPath on every view that the shell can show.
LEMMA RoundTrip ==
    ASSUME NEW v \in Views, NEW s \in Selections
    PROVE  \E w \in Views, t \in Selections : Again(v, s, w, t)
<1>0. /\ s.workflow \in Workflows \cup {None} /\ s.base \in Versions \cup {None}
      /\ s.candidate \in Versions \cup {None} /\ s.traceId \in Traces \cup {None}
      /\ s.user \in Clients \cup {None} /\ Nothing \in Selections
  BY Selects DEF Selections
<1>1. ASSUME NEW f PROVE Below(f, None) = <<f>> /\ \A x : x # None => Below(f, x) = <<f, x>>
  BY DEF Below
<1>2. v # None /\ VIEW_IDS \subseteq Views
  BY NullIsNoWord DEF Views
<1>3. CASE v \in Pages
  <2>1. v \notin VIEW_IDS
    BY <1>3, NavigationAssumption
  <2>2. v \notin {"workflows", "compare", "trace", "user"}
    BY <2>1 DEF VIEW_IDS
  <2>3. \A t : stateToPath(v, t) = <<"extensions", v>> /\ Rendered(v, t) = <<v>>
    BY <1>3, <2>2, Paths, Shown
  <2>4. Again(v, s, v, Nothing)
    BY <1>2, <1>3, <2>3, NamedLocations DEF Again
  <2> QED BY <1>0, <2>4
<1>4. CASE v \in {"overview", "usage", "users", "keys", "settings"}
  <2>1. \A t : stateToPath(v, t) = stateToPath(v, s) /\ Rendered(v, t) = <<v>>
    BY <1>4, Paths, Shown, SMTT(30)
  <2>2. pathToState(stateToPath(v, s)) = At(v, Nothing)
    BY <1>4, Paths, Locations
  <2>3. Again(v, s, v, Nothing)
    BY <2>1, <2>2 DEF Again
  <2> QED BY <1>0, <2>3
<1>5. CASE v = "workflows" \/ (v = "compare" /\ ~HasVersions(s))
  <2> DEFINE w == "workflows"
  <2>0. stateToPath(v, s) = Below("workflows", s.workflow) /\ w \in Views
    BY <1>2, <1>5, Paths DEF ComparePath, VIEW_IDS
  <2>1. CASE s.workflow = None
    <3>1. stateToPath(v, s) = <<"workflows">> /\ stateToPath(w, Nothing) = <<"workflows">>
      BY <2>0, <2>1, <1>1, Paths, Selects, SMTT(30)
    <3>2. v = w => Rendered(w, Nothing) = Rendered(v, s)
      BY <2>0, <2>1, Shown, Selects, SMTT(30)
    <3>3. Again(v, s, w, Nothing)
      BY <1>5, <3>1, <3>2, Locations DEF Again
    <3> QED BY <1>0, <2>0, <3>3
  <2>2. CASE s.workflow # None
    <3> DEFINE t == [Nothing EXCEPT !.workflow = s.workflow]
    <3>1. t \in Selections /\ t.workflow = s.workflow
      BY <1>0, <2>2, Selects
    <3>2. pathToState(<<"workflows", s.workflow>>) = At(w, t)
      BY <2>2, NamedLocations
    <3> HIDE DEF t
    <3>3. /\ stateToPath(v, s) = <<"workflows", s.workflow>>
          /\ stateToPath(w, t) = <<"workflows", s.workflow>>
      <4>1. stateToPath(w, t) = Below("workflows", t.workflow)
        BY <2>0, Paths
      <4> QED BY <2>0, <2>2, <3>1, <4>1, <1>1
    <3>4. v = w => Rendered(w, t) = Rendered(v, s)
      BY <2>0, <3>1, Shown, SMTT(30)
    <3>5. Again(v, s, w, t)
      BY <1>5, <3>2, <3>3, <3>4 DEF Again
    <3> QED BY <2>0, <3>1, <3>5
  <2> QED BY <2>1, <2>2
<1>6. CASE v = "compare" /\ HasVersions(s)
  <2> DEFINE t == [workflow |-> s.workflow, base |-> s.base, candidate |-> s.candidate,
                   traceId |-> None, user |-> None]
  <2>1. s.workflow # None /\ s.base # None /\ s.candidate # None
    BY <1>6 DEF HasVersions
  <2>2. /\ t \in Selections /\ t.workflow = s.workflow /\ t.base = s.base
        /\ t.candidate = s.candidate
    BY <1>0, <2>1 DEF Selections
  <2>3. pathToState(<<"workflows", s.workflow, "compare", s.base, s.candidate>>) = At(v, t)
    BY <1>6, <2>1, VersionsLocation
  <2> HIDE DEF t
  <2>4. HasVersions(t)
    BY <2>1, <2>2 DEF HasVersions
  <2>5. /\ stateToPath(v, s) = <<"workflows", s.workflow, "compare", s.base, s.candidate>>
        /\ stateToPath(v, t) = <<"workflows", s.workflow, "compare", s.base, s.candidate>>
    BY <1>6, <2>2, <2>4, Paths DEF ComparePath
  <2>6. Rendered(v, t) = Rendered(v, s)
    BY <1>6, <2>2, <2>4, Shown, SMTT(30)
  <2>7. Again(v, s, v, t)
    BY <2>3, <2>5, <2>6 DEF Again
  <2> QED BY <2>2, <2>7
<1>7. CASE v = "trace"
  <2>0. stateToPath(v, s) = Below("traces", s.traceId)
    BY <1>7, Paths
  <2>1. CASE s.traceId = None
    <3>1. stateToPath(v, s) = <<"traces">> /\ stateToPath(v, Nothing) = <<"traces">>
      <4>1. stateToPath(v, Nothing) = Below("traces", Nothing.traceId)
        BY <1>7, Paths
      <4> QED BY <2>0, <2>1, <4>1, <1>1, Selects
    <3>2. Rendered(v, Nothing) = Rendered(v, s)
      <4>1. Rendered(v, Nothing) = <<v, Nothing.traceId>> /\ Rendered(v, s) = <<v, s.traceId>>
        BY <1>7, Shown
      <4> QED BY <2>1, <4>1 DEF Nothing
    <3>3. Again(v, s, v, Nothing)
      BY <1>7, <3>1, <3>2, Locations DEF Again
    <3> QED BY <1>0, <3>3
  <2>2. CASE s.traceId # None
    <3> DEFINE t == [Nothing EXCEPT !.traceId = s.traceId]
    <3>1. t \in Selections /\ t.traceId = s.traceId
      BY <1>0, <2>2, Selects
    <3>2. pathToState(<<"traces", s.traceId>>) = At(v, t)
      BY <1>7, <2>2, NamedLocations
    <3> HIDE DEF t
    <3>3. /\ stateToPath(v, s) = <<"traces", s.traceId>>
          /\ stateToPath(v, t) = <<"traces", s.traceId>>
      BY <1>7, <2>0, <2>2, <3>1, <1>1, Paths, SMTT(30)
    <3>4. Rendered(v, t) = Rendered(v, s)
      BY <1>7, <3>1, Shown
    <3>5. Again(v, s, v, t)
      BY <3>2, <3>3, <3>4 DEF Again
    <3> QED BY <3>1, <3>5
  <2> QED BY <2>1, <2>2
<1>8. CASE v = "user"
  <2>0. stateToPath(v, s) = Below("clients", s.user)
    BY <1>8, Paths
  <2>1. CASE s.user = None
    <3>1. "users" \in Views
      BY <1>2 DEF VIEW_IDS
    <3>2. stateToPath(v, s) = <<"clients">> /\ stateToPath("users", Nothing) = <<"clients">>
      BY <2>0, <2>1, <3>1, <1>1, Paths
    <3>3. Again(v, s, "users", Nothing)
      BY <1>8, <2>1, <3>2, Locations DEF Again
    <3> QED BY <1>0, <3>1, <3>3
  <2>2. CASE s.user # None
    <3> DEFINE t == [Nothing EXCEPT !.user = s.user]
    <3>1. t \in Selections /\ t.user = s.user
      BY <1>0, <2>2, Selects
    <3>2. pathToState(<<"clients", s.user>>) = At(v, t)
      BY <1>8, <2>2, NamedLocations
    <3> HIDE DEF t
    <3>3. /\ stateToPath(v, s) = <<"clients", s.user>>
          /\ stateToPath(v, t) = <<"clients", s.user>>
      BY <1>8, <2>0, <2>2, <3>1, <1>1, Paths, SMTT(30)
    <3>4. Rendered(v, t) = Rendered(v, s)
      BY <1>8, <3>1, Shown
    <3>5. Again(v, s, v, t)
      BY <3>2, <3>3, <3>4 DEF Again
    <3> QED BY <3>1, <3>5
  <2> QED BY <2>1, <2>2
<1> QED BY <1>3, <1>4, <1>5, <1>6, <1>7, <1>8 DEF Views, VIEW_IDS

\* No view is at the path of another page.
LEMMA NeverLogin ==
    ASSUME NEW v \in Views, NEW s \in Selections
    PROVE  stateToPath(v, s) # <<"login">>
<1>1. PICK w \in Views, t \in Selections : pathToState(stateToPath(v, s)) = At(w, t)
  BY RoundTrip DEF Again
<1>2. At(w, t) \in [view : Views, selected : Selections]
  BY DEF At
<1>3. At(w, t) # None
  BY <1>2, NavigationAssumption
<1> QED BY <1>1, <1>3, Locations

\* The entries of the history.
LEMMA HistoryEntries ==
    /\ \A v \in Views, s \in Selections :
          /\ Entry(v, s) \in HistEntries /\ Entry(v, s).view = v /\ Entry(v, s).selected = s
          /\ Entry(v, s).path = stateToPath(v, s) /\ v # None
    /\ \A e \in HistEntries : e.view # None =>
          e.view \in Views /\ e.selected \in Selections /\ e = Entry(e.view, e.selected)
    /\ \A e \in HistEntries : e.view = None => e.path = <<"login">>
    /\ Foreign \in HistEntries /\ Foreign.view = None
<1>1. ASSUME NEW v \in Views, NEW s \in Selections
      PROVE  /\ Entry(v, s) \in HistEntries /\ Entry(v, s).view = v /\ Entry(v, s).selected = s
             /\ Entry(v, s).path = stateToPath(v, s) /\ v # None
  <2>1. Entry(v, s) \in HistEntries
    BY SMTT(30) DEF HistEntries
  <2>2. /\ Entry(v, s).view = v /\ Entry(v, s).selected = s /\ Entry(v, s).path = stateToPath(v, s)
    BY DEF Entry
  <2> QED BY <2>1, <2>2, NullIsNoWord
<1>2. Foreign \in HistEntries /\ Foreign.view = None /\ Foreign.path = <<"login">>
  BY SMTT(30) DEF HistEntries, Foreign
<1>3. ASSUME NEW e \in HistEntries
      PROVE  e = Foreign \/ \E v \in Views, s \in Selections : e = Entry(v, s)
  BY SMTT(30) DEF HistEntries
<1> QED BY <1>1, <1>2, <1>3, SMTT(30)

\* A step that leaves the view and the history keeps the invariant.
LEMMA ShellQuiet ==
    ASSUME NEW p, NEW r, ShellInv(p), DOMAIN r = DOMAIN p, r.name = p.name, r.view = p.view,
           r.selected = p.selected, r.hist = p.hist, r.pos = p.pos, r.strayed = p.strayed,
           r.stored \in Views, r.intent \in BOOLEAN, PaletteOK(r.palette)
    PROVE  ShellInv(r)
BY DEF ShellInv, ShellType

\* Showing a view and mirroring it onto the history, from any entry.
LEMMA MirroredKeeps ==
    ASSUME NEW p, ShellType(p), ~p.strayed => PathsDiffer(p.hist),
           NEW v \in Views, NEW s \in Selections
    PROVE  /\ ShellInv(Mirrored(p, v, s))
           /\ DOMAIN Mirrored(p, v, s) = DOMAIN p
           /\ Mirrored(p, v, s).stored = p.stored /\ Mirrored(p, v, s).intent = p.intent
           /\ Mirrored(p, v, s).palette = p.palette
<1> DEFINE e == Entry(v, s)
           m == Mirrored(p, v, s)
           pushed == Append(SubSeq(p.hist, 1, p.pos), e)
<1>1. /\ e \in HistEntries /\ e.view = v /\ e.path = stateToPath(v, s) /\ v # None
      /\ e = Entry(v, s)
  BY HistoryEntries
<1>2. p.hist \in Seq(HistEntries) /\ p.pos \in 1..Len(p.hist) /\ Len(p.hist) \in Nat
      /\ p.hist[p.pos] \in HistEntries
  BY SMTT(30) DEF ShellType
<1> HIDE DEF e
<1>3. CASE e.path # p.hist[p.pos].path
  <2>1. m = [[p EXCEPT !.view = v, !.selected = s] EXCEPT !.hist = pushed, !.pos = p.pos + 1]
    BY <1>3 DEF Mirrored, e
  <2>2. /\ pushed \in Seq(HistEntries) /\ Len(pushed) = p.pos + 1 /\ pushed[p.pos + 1] = e
        /\ \A i \in 1..p.pos : pushed[i] = p.hist[i]
    BY <1>1, <1>2, SMTT(30)
  <2> HIDE DEF pushed, m
  <2>3. /\ DOMAIN m = DOMAIN p /\ m.name = p.name /\ m.view = v /\ m.selected = s
        /\ m.hist = pushed /\ m.pos = p.pos + 1 /\ m.stored = p.stored /\ m.intent = p.intent
        /\ m.palette = p.palette /\ m.strayed = p.strayed
    BY <2>1 DEF ShellType
  <2>4. p.pos + 1 \in 1..Len(pushed)
    BY <1>2, <2>2, SMTT(30)
  <2>5. ShellType(m)
    BY <2>2, <2>3, <2>4 DEF ShellType
  <2>6. ~p.strayed => PathsDiffer(pushed)
    <3> SUFFICES ASSUME PathsDiffer(p.hist), NEW i \in 2..Len(pushed), pushed[i].view # None
                 PROVE  pushed[i].path # pushed[i - 1].path
      BY DEF PathsDiffer
    <3>1. CASE i = p.pos + 1
      <4>1. i - 1 = p.pos /\ p.pos \in 1..p.pos
        BY <3>1, <1>2, SMTT(30)
      <4> QED BY <1>3, <2>2, <3>1, <4>1
    <3>2. CASE i # p.pos + 1
      <4>1. i \in 2..Len(p.hist) /\ i \in 1..p.pos /\ i - 1 \in 1..p.pos
        BY <3>2, <1>2, <2>2, SMTT(30)
      <4> QED BY <2>2, <4>1 DEF PathsDiffer
    <3> QED BY <3>1, <3>2
  <2>7. m.hist[m.pos] = Entry(m.view, m.selected)
    BY <1>1, <2>2, <2>3
  <2>8. ShellInv(m)
    BY <2>3, <2>5, <2>6, <2>7 DEF ShellInv
  <2> QED BY <2>3, <2>8 DEF m
<1>4. CASE e.path = p.hist[p.pos].path
  <2> DEFINE replaced == [p.hist EXCEPT ![p.pos] = e]
  <2>1. m = [p EXCEPT !.view = v, !.selected = s, !.hist = replaced]
    BY <1>4 DEF Mirrored, e, ShellType
  <2>2. /\ replaced \in Seq(HistEntries) /\ Len(replaced) = Len(p.hist) /\ replaced[p.pos] = e
        /\ \A i \in 1..Len(p.hist) : i # p.pos => replaced[i] = p.hist[i]
    BY <1>1, <1>2, SMTT(30)
  <2> HIDE DEF replaced, m
  <2>3. /\ DOMAIN m = DOMAIN p /\ m.name = p.name /\ m.view = v /\ m.selected = s
        /\ m.hist = replaced /\ m.pos = p.pos /\ m.stored = p.stored /\ m.intent = p.intent
        /\ m.palette = p.palette /\ m.strayed = p.strayed
    BY <2>1 DEF ShellType
  <2>4. ShellType(m)
    BY <1>2, <2>2, <2>3 DEF ShellType
  <2>5. p.hist[p.pos].view # None
    <3>1. e.path # <<"login">>
      BY <1>1, NeverLogin
    <3>2. p.hist[p.pos].view = None => p.hist[p.pos].path = <<"login">>
      BY <1>2, HistoryEntries
    <3> QED BY <1>4, <3>1, <3>2
  <2>6. \A i \in 1..Len(p.hist) : /\ replaced[i].path = p.hist[i].path
                                  /\ replaced[i].view # None => p.hist[i].view # None
    BY <1>4, <2>2, <2>5
  <2>7. ~p.strayed => PathsDiffer(replaced)
    <3> SUFFICES ASSUME PathsDiffer(p.hist), NEW i \in 2..Len(p.hist), replaced[i].view # None
                 PROVE  replaced[i].path # replaced[i - 1].path
      BY <2>2 DEF PathsDiffer
    <3>1. i \in 1..Len(p.hist) /\ i - 1 \in 1..Len(p.hist)
      BY <1>2, SMTT(30)
    <3> QED BY <2>6, <3>1 DEF PathsDiffer
  <2>8. m.hist[m.pos] = Entry(m.view, m.selected)
    BY <1>1, <2>2, <2>3
  <2>9. ShellInv(m)
    BY <2>3, <2>4, <2>7, <2>8 DEF ShellInv
  <2> QED BY <2>3, <2>9 DEF m
<1> QED BY <1>3, <1>4

\* The palette lists the items of the dashboard, from the first.
LEMMA PaletteOpens ==
    /\ \A b \in BOOLEAN : PaletteOK(Palette(b))
    /\ \A m \in Matches : m \in Seq(VIEW_IDS) /\ Len(m) \in 0..6
<1>1. CMD_ITEMS \in Seq(VIEW_IDS) /\ Len(CMD_ITEMS) = 6 /\ DOMAIN CMD_ITEMS = 1..6
  BY SMTT(30) DEF CMD_ITEMS, VIEW_IDS
<1>2. \A b \in BOOLEAN : PaletteOK(Palette(b))
  <2> SUFFICES ASSUME NEW b \in BOOLEAN PROVE PaletteOK(Palette(b))
    OBVIOUS
  <2>1. /\ DOMAIN Palette(b) = {"open", "items", "idx"} /\ Palette(b).items = CMD_ITEMS
        /\ Palette(b).idx = 1
    BY DEF Palette
  <2> QED BY <1>1, <2>1, SMTT(30) DEF PaletteOK
<1>3. ASSUME NEW m \in Matches PROVE m \in Seq(VIEW_IDS) /\ Len(m) \in 0..6
  BY <1>1, MatchesAssumption
<1> QED BY <1>2, <1>3

\* The steps of the palette that show no view.
LEMMA PaletteSteps ==
    ASSUME ShellInv(page),
           \/ OpenPalette \/ TypeQuery \/ ArrowDown \/ ArrowUp \/ Hover \/ ClosePalette
    PROVE  ShellInv(page')
<1>0. /\ ShellType(page) /\ PaletteOK(page.palette)
      /\ DOMAIN page.palette = {"open", "items", "idx"}
      /\ page.palette.items \in Seq(VIEW_IDS) /\ page.palette.idx \in 0..6
      /\ Len(page.palette.items) \in 0..6
  <2>1. ShellType(page) /\ PaletteOK(page.palette)
    BY DEF ShellInv, ShellType
  <2>2. /\ DOMAIN page.palette = {"open", "items", "idx"}
        /\ page.palette.items \in Seq(VIEW_IDS) /\ page.palette.idx \in 0..6
        /\ Len(page.palette.items) \in 0..6
    BY <2>1 DEF PaletteOK
  <2> QED BY <2>1, <2>2
<1>1. ASSUME NEW x, PaletteOK(x), page' = [page EXCEPT !.palette = x]
      PROVE  ShellInv(page')
  <2>1. /\ DOMAIN page' = DOMAIN page /\ page'.name = page.name /\ page'.view = page.view
        /\ page'.selected = page.selected /\ page'.hist = page.hist /\ page'.pos = page.pos
        /\ page'.strayed = page.strayed /\ page'.stored = page.stored
        /\ page'.intent = page.intent /\ page'.palette = x
    BY <1>0, <1>1 DEF ShellType
  <2>2. page.stored \in Views /\ page.intent \in BOOLEAN
    BY <1>0 DEF ShellType
  <2> QED BY <1>1, <2>1, <2>2, ShellQuiet
<1>2. ASSUME NEW i \in 0..6, page.palette.items # <<>> => i \in DOMAIN page.palette.items,
             page' = [page EXCEPT !.palette.idx = i]
      PROVE  ShellInv(page')
  <2> DEFINE x == [page.palette EXCEPT !.idx = i]
  <2>1. page' = [page EXCEPT !.palette = x]
    BY <1>0, <1>2 DEF ShellType
  <2>2. PaletteOK(x)
    BY <1>0, <1>2 DEF PaletteOK
  <2> QED BY <1>1, <2>1, <2>2
<1>3. page.palette.items # <<>> =>
         /\ Len(page.palette.items) \in 1..6 /\ DOMAIN page.palette.items = 1..Len(page.palette.items)
         /\ page.palette.idx \in 1..Len(page.palette.items)
  BY <1>0, SMTT(30) DEF PaletteOK
<1>4. page.palette.items = <<>> => Len(page.palette.items) = 0
  BY SMTT(30)
<1>5. CASE OpenPalette
  BY <1>5, <1>1, PaletteOpens DEF OpenPalette
<1>6. CASE ClosePalette
  BY <1>6, <1>1, PaletteOpens DEF ClosePalette
<1>7. CASE TypeQuery
  <2>1. PICK m \in Matches : page' = [page EXCEPT !.palette.idx = 1, !.palette.items = m]
    BY <1>7 DEF TypeQuery
  <2> DEFINE x == [page.palette EXCEPT !.idx = 1, !.items = m]
  <2>2. m \in Seq(VIEW_IDS) /\ Len(m) \in 0..6
    BY PaletteOpens
  <2>3. page' = [page EXCEPT !.palette = x]
    BY <1>0, <2>1 DEF ShellType
  <2>4. PaletteOK(x)
    <3>1. m # <<>> => 1 \in DOMAIN m
      BY <2>2, SMTT(30)
    <3>2. DOMAIN x = {"open", "items", "idx"} /\ x.items = m /\ x.idx = 1
      BY <1>0
    <3> QED BY <2>2, <3>1, <3>2, SMTT(30) DEF PaletteOK
  <2> QED BY <1>1, <2>3, <2>4
<1>8. CASE ArrowDown
  <2> DEFINE i == Lesser(page.palette.idx + 1, Len(page.palette.items))
  <2>1. page' = [page EXCEPT !.palette.idx = i]
    BY <1>8 DEF ArrowDown
  <2>2. i \in 0..6 /\ (page.palette.items # <<>> => i \in DOMAIN page.palette.items)
    BY <1>0, <1>3, <1>4, SMTT(30) DEF Lesser
  <2> QED BY <1>2, <2>1, <2>2
<1>9. CASE ArrowUp
  <2> DEFINE i == IF page.palette.idx - 1 > 1 THEN page.palette.idx - 1 ELSE 1
  <2>1. page' = [page EXCEPT !.palette.idx = i]
    BY <1>9 DEF ArrowUp
  <2>2. i \in 0..6 /\ (page.palette.items # <<>> => i \in DOMAIN page.palette.items)
    BY <1>0, <1>3, SMTT(30)
  <2> QED BY <1>2, <2>1, <2>2
<1>10. CASE Hover
  <2>1. PICK i \in DOMAIN page.palette.items : page' = [page EXCEPT !.palette.idx = i]
    BY <1>10 DEF Hover
  <2>2. i \in 0..6
    BY <1>0, <2>1, SMTT(30)
  <2> QED BY <1>2, <2>1, <2>2
<1> QED BY <1>5, <1>6, <1>7, <1>8, <1>9, <1>10

\* A view is shown: its entry, the stored view and the intent follow.
LEMMA ViewShown ==
    ASSUME NEW p, ShellType(p), ~p.strayed => PathsDiffer(p.hist),
           NEW v \in Views, NEW s \in Selections, NEW st \in Views, NEW i \in BOOLEAN, NEW r,
           r = [Mirrored(p, v, s) EXCEPT !.stored = st, !.intent = i]
    PROVE  ShellInv(r)
<1> DEFINE m == Mirrored(p, v, s)
<1>1. /\ ShellInv(m) /\ DOMAIN m = DOMAIN p /\ m.palette = p.palette
  BY MirroredKeeps
<1>2. r = [m EXCEPT !.stored = st, !.intent = i]
  OBVIOUS
<1> HIDE DEF m
<1>3. /\ DOMAIN r = DOMAIN m /\ r.name = m.name /\ r.view = m.view /\ r.selected = m.selected
      /\ r.hist = m.hist /\ r.pos = m.pos /\ r.strayed = m.strayed /\ r.stored = st
      /\ r.intent = i /\ r.palette = m.palette
  BY <1>1, <1>2 DEF ShellInv, ShellType
<1>4. PaletteOK(r.palette)
  BY <1>1, <1>3 DEF ShellInv, ShellType
<1>5. r.stored \in Views /\ r.intent \in BOOLEAN
  BY <1>3
<1> HIDE DEF m
<1> QED BY <1>1, <1>3, <1>4, <1>5, ShellQuiet

\* setView, from any view and with any selection.
LEMMA SetViewKeeps ==
    ASSUME ShellInv(page), NEW v \in Views, NEW s \in Selections, SetView(v, s)
    PROVE  ShellInv(page')
<1> DEFINE m == Mirrored(page, v, s)
           i == page.intent /\ v = "settings"
<1>1. ShellType(page) /\ (~page.strayed => PathsDiffer(page.hist))
  BY DEF ShellInv
<1>2. m.intent = page.intent
  BY <1>1, MirroredKeeps
<1>3. page' = [m EXCEPT !.stored = v, !.intent = i]
  BY <1>2 DEF SetView
<1>4. i \in BOOLEAN
  OBVIOUS
<1> HIDE DEF i
<1> QED BY <1>1, <1>3, <1>4, ViewShown

\* Changing what is selected.
LEMMA Selecting ==
    ASSUME NEW s \in Selections
    PROVE  /\ \A t \in Traces : [s EXCEPT !.traceId = t] \in Selections
           /\ \A w \in Workflows : [s EXCEPT !.workflow = w] \in Selections
           /\ \A c \in Clients : [s EXCEPT !.user = c] \in Selections
           /\ \A b, c \in Versions : [s EXCEPT !.base = b, !.candidate = c] \in Selections
           /\ \A names : Without(s, names) \in Selections
<1>1. ASSUME NEW names PROVE Without(s, names) \in Selections
  BY DEF Selections, Without
<1> QED BY <1>1 DEF Selections

\* Every link, button and menu of the shell and of the pages.
LEMMA ShellLinks ==
    ASSUME ShellInv(page),
           \/ SidebarNavigate \/ ClickCrumb
           \/ ViewExample \/ SelectActivity \/ OpenRun \/ OpenClientRun
           \/ SelectTopWorkflow \/ inspectOutlier \/ ViewWorkflows \/ ViewInstructions
           \/ OpenListedWorkflow \/ OpenClientWorkflow
           \/ OpenSpender \/ OpenClientRow \/ ClientChip \/ AllClients
           \/ LeaveTrace \/ CompareVersions
    PROVE  ShellInv(page')
<1>0. page.view \in Views /\ page.selected \in Selections
  BY DEF ShellInv, ShellType
<1>1. ASSUME NEW v \in VIEW_IDS, NEW s \in Selections, SetView(v, s) PROVE ShellInv(page')
  BY <1>1, SetViewKeeps DEF Views
<1>2. CASE SidebarNavigate
  <2>1. PICK v \in NAV_ITEMS : SetView(v, page.selected)
    BY <1>2 DEF SidebarNavigate
  <2>2. v \in Views
    BY DEF NAV_ITEMS, Views, VIEW_IDS
  <2> QED BY <1>0, <2>1, <2>2, SetViewKeeps
<1>3. CASE ClickCrumb
  <2>1. PICK c \in Breadcrumb(page.view, page.selected) : SetView(c.view, c.selected)
    BY <1>3 DEF ClickCrumb
  <2>2. \E v \in VIEW_IDS, s \in Selections : c = At(v, s)
    <3>1. \A names : Without(page.selected, names) \in Selections
      BY <1>0, Selecting
    <3> QED BY <1>0, <3>1 DEF Breadcrumb, VIEW_IDS
  <2>3. c.view \in VIEW_IDS /\ c.selected \in Selections
    BY <2>2, SMTT(30) DEF At
  <2> QED BY <1>1, <2>1, <2>3
<1>4. ASSUME NEW t \in Traces, OpenTrace(t) PROVE ShellInv(page')
  <2>1. [page.selected EXCEPT !.traceId = t] \in Selections /\ "trace" \in VIEW_IDS
    BY <1>0, Selecting DEF VIEW_IDS
  <2> QED BY <1>1, <1>4, <2>1 DEF OpenTrace
<1>5. ASSUME NEW w \in Workflows, OpenWorkflow(w) PROVE ShellInv(page')
  <2>1. [page.selected EXCEPT !.workflow = w] \in Selections /\ "workflows" \in VIEW_IDS
    BY <1>0, Selecting DEF VIEW_IDS
  <2> QED BY <1>1, <1>5, <2>1 DEF OpenWorkflow
<1>6. ASSUME NEW c \in Clients, OpenClient(c) PROVE ShellInv(page')
  <2>1. [page.selected EXCEPT !.user = c] \in Selections /\ "user" \in VIEW_IDS
    BY <1>0, Selecting DEF VIEW_IDS
  <2> QED BY <1>1, <1>6, <2>1 DEF OpenClient
<1>7. CASE ViewExample \/ SelectActivity \/ OpenRun \/ OpenClientRun
  BY <1>4, <1>7 DEF ViewExample, SelectActivity, OpenRun, OpenClientRun
<1>8. CASE SelectTopWorkflow \/ inspectOutlier \/ OpenListedWorkflow \/ OpenClientWorkflow
  BY <1>5, <1>8 DEF SelectTopWorkflow, inspectOutlier, OpenListedWorkflow, OpenClientWorkflow
<1>9. CASE OpenSpender \/ OpenClientRow \/ ClientChip
  BY <1>6, <1>9 DEF OpenSpender, OpenClientRow, ClientChip
<1>10. CASE ViewWorkflows \/ ViewInstructions \/ AllClients
  BY <1>0, <1>1, <1>10 DEF ViewWorkflows, ViewInstructions, AllClients, VIEW_IDS
<1>11. CASE LeaveTrace
  <2>1. Without(page.selected, {"workflow"}) \in Selections /\ "workflows" \in VIEW_IDS
    BY <1>0, Selecting DEF VIEW_IDS
  <2> QED BY <1>1, <1>11, <2>1 DEF LeaveTrace
<1>12. CASE CompareVersions
  <2>1. PICK b \in Versions, c \in Versions :
           SetView("compare", [page.selected EXCEPT !.base = b, !.candidate = c])
    BY <1>12 DEF CompareVersions
  <2>2. [page.selected EXCEPT !.base = b, !.candidate = c] \in Selections /\ "compare" \in VIEW_IDS
    BY <1>0, Selecting DEF VIEW_IDS
  <2> QED BY <1>1, <2>1, <2>2
<1> QED BY <1>2, <1>3, <1>7, <1>8, <1>9, <1>10, <1>11, <1>12

\* The steps that show a view without going through setView.
LEMMA ShellViews ==
    ASSUME ShellInv(page), PickVersions \/ goCreateWorkspace \/ CancelCreate \/ Choose
    PROVE  ShellInv(page')
<1>0. /\ ShellType(page) /\ (~page.strayed => PathsDiffer(page.hist)) /\ page.view \in Views
      /\ page.selected \in Selections /\ page.stored \in Views /\ page.intent \in BOOLEAN
      /\ PaletteOK(page.palette)
  BY DEF ShellInv, ShellType
<1>1. VIEW_IDS \subseteq Views
  BY DEF Views
<1>2. CASE PickVersions
  <2>1. PICK b \in Versions, c \in Versions :
           page' = Mirrored(page, "compare", [page.selected EXCEPT !.base = b, !.candidate = c])
    BY <1>2 DEF PickVersions
  <2>2. [page.selected EXCEPT !.base = b, !.candidate = c] \in Selections
    BY <1>0, Selecting
  <2>3. "compare" \in Views
    BY <1>1 DEF VIEW_IDS
  <2> QED BY <1>0, <2>1, <2>2, <2>3, MirroredKeeps
<1>3. CASE goCreateWorkspace
  <2>1. page' = [Mirrored(page, "settings", page.selected) EXCEPT !.stored = "settings",
                                                                 !.intent = TRUE]
    BY <1>3 DEF goCreateWorkspace
  <2>2. "settings" \in Views
    BY <1>1 DEF VIEW_IDS
  <2> QED BY <1>0, <2>1, <2>2, ViewShown
<1>4. CASE CancelCreate
  <2>1. page' = [page EXCEPT !.intent = FALSE]
    BY <1>4 DEF CancelCreate
  <2>2. /\ DOMAIN page' = DOMAIN page /\ page'.name = page.name /\ page'.view = page.view
        /\ page'.selected = page.selected /\ page'.hist = page.hist /\ page'.pos = page.pos
        /\ page'.strayed = page.strayed /\ page'.stored = page.stored
        /\ page'.intent = FALSE /\ page'.palette = page.palette
    BY <1>0, <2>1 DEF ShellType
  <2> QED BY <1>0, <2>2, ShellQuiet
<1>5. CASE Choose
  <2> DEFINE closed == [page EXCEPT !.palette = Palette(FALSE)]
             v == Seg(page.palette.items, page.palette.idx)
             i == page.intent /\ v = "settings"
  <2>1. /\ DOMAIN closed = DOMAIN page /\ closed.name = page.name /\ closed.view = page.view
        /\ closed.selected = page.selected /\ closed.hist = page.hist /\ closed.pos = page.pos
        /\ closed.strayed = page.strayed /\ closed.stored = page.stored
        /\ closed.intent = page.intent /\ closed.palette = Palette(FALSE)
    BY <1>0 DEF ShellType
  <2>2. page' = IF v = None THEN closed
                ELSE [Mirrored(closed, v, page.selected) EXCEPT
                         !.stored = v, !.intent = @ /\ v = "settings"]
    BY <1>5 DEF Choose
  <2>3. v = None \/ v \in Views
    BY <1>0, <1>1, SMTT(30) DEF Seg, PaletteOK
  <2>4. PaletteOK(Palette(FALSE))
    BY PaletteOpens
  <2> HIDE DEF closed, v
  <2>5. ShellInv(closed)
    BY <1>0, <2>1, <2>4, ShellQuiet
  <2>6. CASE v = None
    BY <2>2, <2>5, <2>6
  <2>7. CASE v \in Views /\ v # None
    <3> DEFINE m == Mirrored(closed, v, page.selected)
    <3>1. ShellType(closed) /\ (~closed.strayed => PathsDiffer(closed.hist))
      BY <2>5 DEF ShellInv
    <3>2. m.intent = page.intent
      BY <1>0, <2>1, <2>7, <3>1, MirroredKeeps
    <3>3. page' = [m EXCEPT !.stored = v, !.intent = i] /\ i \in BOOLEAN
      BY <2>2, <2>7, <3>2
    <3> HIDE DEF i
    <3> QED BY <1>0, <2>7, <3>1, <3>3, ViewShown
  <2> QED BY <2>3, <2>6, <2>7
<1> QED BY <1>2, <1>3, <1>4, <1>5

\* Back and Forward: the entry brings its view back, or nothing.
LEMMA ShellPops ==
    ASSUME ShellInv(page), NEW pos, OnPop(pos)
    PROVE  ShellInv(page')
<1> DEFINE moved == [page EXCEPT !.pos = pos]
           e == page.hist[pos]
<1>0. /\ ShellType(page) /\ (~page.strayed => PathsDiffer(page.hist))
      /\ pos \in DOMAIN page.hist /\ page.hist \in Seq(HistEntries) /\ page.intent \in BOOLEAN
  BY DEF ShellInv, ShellType, OnPop
<1>1. pos \in 1..Len(page.hist) /\ e \in HistEntries
  BY <1>0, SMTT(30)
<1>2. /\ DOMAIN moved = DOMAIN page /\ moved.name = page.name /\ moved.view = page.view
      /\ moved.selected = page.selected /\ moved.hist = page.hist /\ moved.pos = pos
      /\ moved.strayed = page.strayed /\ moved.stored = page.stored
      /\ moved.intent = page.intent /\ moved.palette = page.palette
  BY <1>0 DEF ShellType
<1>3. ShellType(moved) /\ (~moved.strayed => PathsDiffer(moved.hist))
  <2> HIDE DEF moved
  <2> QED BY <1>0, <1>1, <1>2 DEF ShellType
<1>4. CASE e.view = None
  <2>1. pathToState(e.path) = None
    BY <1>1, <1>4, HistoryEntries, Locations
  <2>2. page' = moved
    BY <1>4, <2>1 DEF OnPop
  <2> HIDE DEF moved
  <2>3. ShellInv(moved)
    BY <1>2, <1>3, <1>4 DEF ShellInv
  <2> QED BY <2>2, <2>3
<1>5. CASE e.view # None
  <2> DEFINE v == e.view
             s == e.selected
             m == Mirrored(moved, v, s)
             i == page.intent /\ v = "settings"
  <2>1. v \in Views /\ s \in Selections
    BY <1>1, <1>5, HistoryEntries
  <2>2. /\ At(v, s).view = v /\ At(v, s).selected = s /\ At(v, s) # None
    <3>1. At(v, s) \in [view : Views, selected : Selections]
      BY <2>1 DEF At
    <3>2. At(v, s) # None
      BY <3>1, NavigationAssumption
    <3> QED BY <3>2 DEF At
  <2>3. page' = [m EXCEPT !.stored = v, !.intent = @ /\ v = "settings"]
    <3> HIDE DEF m
    <3> QED BY <1>5, <2>2 DEF OnPop, m
  <2> HIDE DEF moved
  <2>4. m.intent = page.intent
    BY <1>2, <1>3, <2>1, MirroredKeeps
  <2>5. page' = [m EXCEPT !.stored = v, !.intent = i] /\ i \in BOOLEAN
    BY <2>3, <2>4
  <2> HIDE DEF i, v, s
  <2> QED BY <1>3, <2>1, <2>5, ViewShown
<1> QED BY <1>4, <1>5

\* A dashboard that mounts at an entry of the history.
LEMMA ShellMounted ==
    ASSUME NEW hist \in Seq(HistEntries), NEW pos \in 1..Len(hist), NEW stored \in Views,
           NEW v \in Views, NEW s \in Selections, NEW b \in BOOLEAN, NEW r,
           ~b => PathsDiffer([hist EXCEPT ![pos] = Entry(v, s)]),
           r = [Mounted(At(v, s), hist, pos, stored) EXCEPT !.strayed = b]
    PROVE  ShellInv(r)
<1> DEFINE h == [hist EXCEPT ![pos] = Entry(v, s)]
           m == Mounted(At(v, s), hist, pos, stored)
<1>1. Entry(v, s) \in HistEntries
  BY HistoryEntries
<1>2. h \in Seq(HistEntries) /\ Len(h) = Len(hist) /\ h[pos] = Entry(v, s)
  BY <1>1, SMTT(30)
<1>3. At(v, s).view = v /\ At(v, s).selected = s
  BY DEF At
<1>4. m = [name |-> "shell", view |-> v, selected |-> s, hist |-> h, pos |-> pos,
           stored |-> stored, intent |-> FALSE, palette |-> Palette(FALSE), strayed |-> FALSE]
  BY <1>3 DEF Mounted
<1> HIDE DEF h
<1>5. r = [m EXCEPT !.strayed = b]
  OBVIOUS
<1> HIDE DEF m
<1>6. /\ DOMAIN r = {"name", "view", "selected", "hist", "pos", "stored", "intent", "palette",
                     "strayed"}
      /\ r.name = "shell" /\ r.view = v /\ r.selected = s /\ r.hist = h /\ r.pos = pos
      /\ r.stored = stored /\ r.intent = FALSE /\ r.palette = Palette(FALSE) /\ r.strayed = b
  BY <1>4, <1>5
<1>7. PaletteOK(r.palette) /\ r.intent \in BOOLEAN
  BY <1>6, PaletteOpens
<1>8. pos \in 1..Len(h)
  BY <1>2
<1>9. ShellType(r)
  BY <1>2, <1>6, <1>7, <1>8 DEF ShellType
<1>10. ~b => PathsDiffer(h)
  BY DEF h
<1> QED BY <1>2, <1>6, <1>9, <1>10 DEF ShellInv

\* A reload opens the view at the location, or the last view visited.
LEMMA ShellReloads ==
    ASSUME ShellInv(page), Reload
    PROVE  ShellInv(page')
<1> DEFINE nav == computeInitialNav(Here.path, page.stored)
           b == page.strayed \/ Here.view = None
<1>0. /\ page.hist \in Seq(HistEntries) /\ page.pos \in 1..Len(page.hist)
      /\ Here \in HistEntries /\ page.stored \in Views /\ page.strayed \in BOOLEAN
      /\ page.view \in Views /\ page.selected \in Selections
      /\ Here = page.hist[page.pos]
      /\ Here.view # None => Here = Entry(page.view, page.selected)
      /\ ~page.strayed => PathsDiffer(page.hist)
  BY SMTT(30) DEF ShellInv, ShellType, Here
<1>1. page' = [Mounted(nav, page.hist, page.pos, page.stored) EXCEPT !.strayed = b]
  BY DEF Reload
<1>2. b \in BOOLEAN
  BY <1>0
<1>3. CASE Here.view = None
  <2>1. pathToState(Here.path) = None
    BY <1>0, <1>3, HistoryEntries, Locations
  <2>2. nav = At(page.stored, Nothing) /\ Nothing \in Selections /\ b
    BY <1>3, <2>1, Selects DEF computeInitialNav
  <2> HIDE DEF nav, b
  <2> QED BY <1>0, <1>1, <1>2, <2>2, ShellMounted
<1>4. CASE Here.view # None
  <2>1. Here.path = stateToPath(page.view, page.selected)
    BY <1>0, <1>4, HistoryEntries, SMTT(30)
  <2>2. PICK w \in Views, t \in Selections : Again(page.view, page.selected, w, t)
    BY <1>0, RoundTrip
  <2>3. pathToState(Here.path) = At(w, t) /\ stateToPath(w, t) = Here.path
    BY <2>1, <2>2 DEF Again
  <2>4. At(w, t) # None
    <3>1. At(w, t) \in [view : Views, selected : Selections]
      BY DEF At
    <3> QED BY <3>1, NavigationAssumption
  <2>5. nav = At(w, t)
    BY <2>3, <2>4 DEF computeInitialNav
  <2> DEFINE e == Entry(w, t)
             h == [page.hist EXCEPT ![page.pos] = e]
  <2>6. e.path = Here.path /\ e.view # None
    BY <2>3, HistoryEntries
  <2> HIDE DEF nav, e
  <2>7. /\ Len(h) = Len(page.hist) /\ h[page.pos] = e
        /\ \A i \in 1..Len(page.hist) : i # page.pos => h[i] = page.hist[i]
    BY <1>0, SMTT(30)
  <2>8. ~b => PathsDiffer(h)
    <3> HIDE DEF h
    <3>1. \A i \in 1..Len(page.hist) : /\ h[i].path = page.hist[i].path
                                       /\ h[i].view # None => page.hist[i].view # None
      BY <1>0, <1>4, <2>6, <2>7
    <3> SUFFICES ASSUME ~b, NEW i \in 2..Len(page.hist), h[i].view # None
                 PROVE  h[i].path # h[i - 1].path
      BY <2>7 DEF PathsDiffer
    <3>2. i \in 1..Len(page.hist) /\ i - 1 \in 1..Len(page.hist)
      BY <1>0, SMTT(30)
    <3> QED BY <1>0, <3>1, <3>2 DEF PathsDiffer
  <2>9. ~b => PathsDiffer([page.hist EXCEPT ![page.pos] = Entry(w, t)])
    BY <2>8 DEF e
  <2> HIDE DEF b
  <2> QED BY <1>0, <1>1, <1>2, <2>5, <2>9, ShellMounted
<1> QED BY <1>3, <1>4

\* Every step of the shell keeps its invariant.
LEMMA ShellStep ==
    ASSUME ShellInv(page), ShellNext
    PROVE  ShellInv(page')
<1>1. CASE Back \/ Forward
  BY <1>1, ShellPops DEF Back, Forward
<1> QED
  BY <1>1, ShellLinks, ShellViews, ShellReloads, PaletteSteps DEF ShellNext

\* The shell after signing in.
LEMMA ShellStart ==
    ASSUME NEW p \in ShellInit
    PROVE  ShellInv(p)
<1>1. computeInitialNav(<<"login">>, "overview") = At("overview", Nothing)
  BY Locations DEF computeInitialNav
<1>2. "overview" \in Views /\ Nothing \in Selections
  BY Selects DEF Views, VIEW_IDS
<1>3. PICK h \in {<<Foreign>>, <<Foreign, Foreign>>} :
         p = Mounted(At("overview", Nothing), h, Len(h), "overview")
  BY <1>1 DEF ShellInit
<1>4. h \in Seq(HistEntries) /\ Len(h) \in 1..2 /\ \A i \in 1..Len(h) : h[i] = Foreign
  <2>1. CASE h = <<Foreign>>
    BY <2>1, HistoryEntries, SMTT(30)
  <2>2. CASE h = <<Foreign, Foreign>>
    BY <2>2, HistoryEntries, SMTT(30)
  <2> QED BY <1>3, <2>1, <2>2
<1> DEFINE e == Entry("overview", Nothing)
           g == [h EXCEPT ![Len(h)] = e]
<1>5. PathsDiffer(g)
  <2>1. e.path # <<"login">>
    BY <1>2, HistoryEntries, NeverLogin, SMTT(30)
  <2>2. Foreign.path = <<"login">>
    BY DEF Foreign
  <2> HIDE DEF e
  <2>3. Len(g) = Len(h) /\ g[Len(h)] = e /\ (Len(h) = 2 => g[1] = Foreign)
    BY <1>4, SMTT(30)
  <2> HIDE DEF g
  <2> SUFFICES ASSUME NEW i \in 2..Len(g) PROVE g[i].path # g[i - 1].path
    BY DEF PathsDiffer
  <2>4. i = 2 /\ Len(h) = 2 /\ i - 1 = 1
    BY <1>4, <2>3, SMTT(30)
  <2> QED BY <2>1, <2>2, <2>3, <2>4
<1> DEFINE m == Mounted(At("overview", Nothing), h, Len(h), "overview")
<1>6. p = [m EXCEPT !.strayed = FALSE]
  <2>1. m.strayed = FALSE /\ m = [x \in DOMAIN m |-> m[x]]
    BY DEF Mounted
  <2> HIDE DEF m
  <2>2. [m EXCEPT !.strayed = FALSE] = m
    BY <2>1
  <2> QED BY <1>3, <2>2 DEF m
<1>7. Len(h) \in 1..Len(h)
  BY <1>4, SMTT(30)
<1> QED BY <1>2, <1>3, <1>4, <1>5, <1>6, <1>7, ShellMounted

\* What the invariant of the shell shows.
LEMMA ShellShown ==
    ASSUME ShellInv(page)
    PROVE  ShellTypeOK /\ HistoryTellsView /\ URLShareable
<1>0. /\ page.hist \in Seq(HistEntries) /\ page.pos \in 1..Len(page.hist)
      /\ page.stored \in Views /\ page.view \in Views /\ page.selected \in Selections
      /\ PaletteOK(page.palette)
      /\ Here.view # None => Here = Entry(page.view, page.selected)
      /\ ~page.strayed => PathsDiffer(page.hist)
  BY DEF ShellInv, ShellType, Here
<1>1. ShellTypeOK
  <2>1. Len(CMD_ITEMS) = 6
    BY DEF CMD_ITEMS
  <2> QED BY <1>0, <2>1, SMTT(30) DEF ShellTypeOK, PaletteOK
<1>2. HistoryTellsView
  <2>1. \A i \in DOMAIN page.hist :
           page.hist[i].view # None =>
               page.hist[i] = Entry(page.hist[i].view, page.hist[i].selected)
    BY <1>0, HistoryEntries, SMTT(30)
  <2> QED BY <1>0, <2>1 DEF HistoryTellsView, PathsDiffer
<1>3. URLShareable
  <2> SUFFICES ASSUME Here.view # None,
                      ~(page.view = "compare" /\ ~HasVersions(page.selected)),
                      ~(page.view = "user" /\ page.selected.user = None)
               PROVE  LET nav == pathToState(Here.path)
                      IN  Rendered(nav.view, nav.selected) = Rendered(page.view, page.selected)
    BY DEF URLShareable
  <2>1. Here.path = stateToPath(page.view, page.selected)
    BY <1>0, HistoryEntries, SMTT(30)
  <2>2. PICK w \in Views, t \in Selections : Again(page.view, page.selected, w, t)
    BY <1>0, RoundTrip
  <2>3. pathToState(Here.path) = At(w, t) /\ Rendered(w, t) = Rendered(page.view, page.selected)
    BY <2>1, <2>2 DEF Again
  <2>4. At(w, t).view = w /\ At(w, t).selected = t
    BY DEF At
  <2> QED BY <2>3, <2>4
<1> QED BY <1>1, <1>2, <1>3
================================================================================
