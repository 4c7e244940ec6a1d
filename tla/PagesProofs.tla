----------------------------- MODULE PagesProofs -------------------------------
(***************************************************************************)
(* The pages that show numbers, for any checks, versions, attributes and   *)
(* bounds: what the user dismissed, and whose numbers are shown.  A step   *)
(* keeps the page's name, so the invariants of the pages make one.         *)
(***************************************************************************)
EXTENDS TracePage, OverviewPage, WorkflowPages, UsagePages, Charts, TLAPS

\* Most leaves are set theory for Zenon; those that need more cite SMT.
USE ZenonT(30)

\* The keys that the panel leaves out are the ones that the user dismissed.
OverviewInv(p) == {"dismissed", "hidden"} \subseteq DOMAIN p /\ p.dismissed = p.hidden

\* What was muted in the storage is there, and the block that is mounted read it.
SetupInv(p) ==
    /\ {"space", "open", "dismissed", "muted", "stored", "storage", "silenced"} \subseteq DOMAIN p
    /\ p.space \in CheckSpaces /\ DOMAIN p.stored = CheckSpaces /\ DOMAIN p.silenced = CheckSpaces
    /\ \A w \in CheckSpaces : p.silenced[w] \subseteq p.stored[w]
    /\ p.silenced[p.space] \subseteq p.muted

\* The data that a section may show as its previous ones are of that section.
WorkflowInv(p) ==
    /\ {"source", "range", "filter", "kept", "last"} \subseteq DOMAIN p
    /\ \A x \in Sections : p.last[x] # None => p.last[x].section = x

\* The pair to compare is of two versions, the candidate not the earlier one.
ReleasesInv(p) ==
    /\ {"runs", "pair"} \subseteq DOMAIN p
    /\ p.pair # None =>
          /\ p.pair.base # p.pair.candidate
          /\ p.runs[p.pair.base].first <= p.runs[p.pair.candidate].first

\* The two sides of the comparison differ.
CompareInv(p) ==
    /\ {"pair", "long", "picked", "listed", "status"} \subseteq DOMAIN p
    /\ DOMAIN p.pair = {"base", "candidate"} /\ p.pair.base # p.pair.candidate

\* What was read is of a short range, and of an attribute of its workspace.
UsageInv(p) ==
    /\ {"keysOf", "space", "long", "tab", "attrKey", "sortBy", "read"} \subseteq DOMAIN p
    /\ p.space \in UsageSpaces /\ p.keysOf \in [UsageSpaces -> KeyLists]
    /\ \A q \in p.read : ~q.long /\ (q.attr # "" => q.attr \in ToSet(p.keysOf[q.space]))

\* What was read is of a client.
ClientInv(p) ==
    /\ {"space", "range", "user", "read"} \subseteq DOMAIN p
    /\ \A q \in p.read : q.user # ""

PagesInv ==
    /\ "name" \in DOMAIN page
    /\ On("overview") => OverviewInv(page)
    /\ On("setup") => SetupInv(page)
    /\ On("workflow") => WorkflowInv(page)
    /\ On("releases") => ReleasesInv(page)
    /\ On("compare") => CompareInv(page)
    /\ On("usage") => UsageInv(page)
    /\ On("client") => ClientInv(page)

\* The shell, its menu and the lists that the user edits are not on the screen.
Elsewhere == ~(On("shell") \/ On("menu") \/ On("keys") \/ On("members"))

--------------------------------------------------------------------------------

\* The step leaves the page's name.
Stays(p, q) == "name" \in DOMAIN q /\ q.name = p.name

\* No step of the trace page opens another one.
LEMMA TraceStays ==
    ASSUME "name" \in DOMAIN page, TraceNext
    PROVE  Stays(page, page')
BY DEF Stays, TraceNext, SelectSpan, toggleCollapse, SetTab, JumpToFailing, RefetchTrace

\* The query of a section is of the workflow on the screen.
LEMMA Sectioned ==
    ASSUME NEW p, NEW x \in Sections
    PROVE  SectionKey(p, x).section = x /\ SectionKey(p, x).source = p.source
<1>1. CASE x = "versions"
  BY <1>1 DEF SectionKey, VersionsKey
<1>2. CASE x = "series"
  BY <1>2 DEF SectionKey, VersionsKey
<1> QED BY <1>1, <1>2 DEF Sections

\* A render notes only the queries of its own sections.
LEMMA ObservedKeeps ==
    ASSUME "name" \in DOMAIN page, NEW p, Stays(page, p), WorkflowInv(p)
    PROVE  Stays(page, Observed(p)) /\ WorkflowInv(Observed(p))
<1> DEFINE last == [x \in Sections |->
                       IF SectionKey(p, x) \in p.kept THEN SectionKey(p, x) ELSE p.last[x]]
<1>1. \A x \in Sections : last[x] # None => last[x].section = x
  BY Sectioned DEF WorkflowInv
<1>2. Observed(p) = [p EXCEPT !.last = last]
  BY DEF Observed
<1> HIDE DEF last
<1>3. /\ DOMAIN Observed(p) = DOMAIN p /\ Observed(p).name = p.name
      /\ Observed(p).last = last
  BY <1>2 DEF WorkflowInv, Stays
<1> QED BY <1>1, <1>3 DEF WorkflowInv, Stays

\* The workflow page: a section's last data stay data of that section.
LEMMA WorkflowStep ==
    ASSUME "name" \in DOMAIN page, WorkflowInv(page), WorkflowNext
    PROVE  Stays(page, page') /\ WorkflowInv(page')
<1>1. ASSUME NEW p, DOMAIN p = DOMAIN page, p.name = page.name,
             p.last = page.last \/ p.last = [x \in Sections |-> None]
      PROVE  Stays(page, p) /\ WorkflowInv(p)
  BY <1>1 DEF Stays, WorkflowInv
<1>2. ASSUME NEW p, DOMAIN p = DOMAIN page, p.name = page.name,
             p.last = page.last \/ p.last = [x \in Sections |-> None],
             page' = Observed(p)
      PROVE  Stays(page, page') /\ WorkflowInv(page')
  BY <1>1, <1>2, ObservedKeeps
<1>3. CASE ChangeSource
  <2> DEFINE Turned(s) == [page EXCEPT !.source = s, !.filter = None,
                                       !.last = [x \in Sections |-> None]]
  <2>1. PICK s \in Sources :
           page' = Observed(IF s.workflow = page.source.workflow THEN [page EXCEPT !.source = s]
                            ELSE Turned(s))
    BY <1>3 DEF ChangeSource
  <2> DEFINE p == IF s.workflow = page.source.workflow THEN [page EXCEPT !.source = s]
                  ELSE Turned(s)
  <2>2. /\ DOMAIN p = DOMAIN page /\ p.name = page.name
        /\ p.last = page.last \/ p.last = [x \in Sections |-> None]
    BY DEF WorkflowInv
  <2>3. page' = Observed(p)
    BY <2>1
  <2> HIDE DEF p
  <2> QED BY <1>2, <2>2, <2>3
<1>4. CASE WorkflowRange
  <2>1. PICK r \in {"7d", "1y"} : page' = Observed([page EXCEPT !.range = r])
    BY <1>4 DEF WorkflowRange
  <2> DEFINE p == [page EXCEPT !.range = r]
  <2>2. DOMAIN p = DOMAIN page /\ p.name = page.name /\ p.last = page.last
    BY DEF WorkflowInv
  <2> QED BY <1>2, <2>1, <2>2
<1>5. CASE SetFilter
  <2>1. PICK v : page' = Observed([page EXCEPT !.filter = v])
    BY <1>5 DEF SetFilter
  <2> DEFINE p == [page EXCEPT !.filter = v]
  <2>2. DOMAIN p = DOMAIN page /\ p.name = page.name /\ p.last = page.last
    BY DEF WorkflowInv
  <2> QED BY <1>2, <2>1, <2>2
<1>6. CASE LandSection
  <2>1. PICK x \in Sections :
           page' = Observed([page EXCEPT !.kept = page.kept \cup {SectionKey(page, x)}])
    BY <1>6 DEF LandSection
  <2> DEFINE p == [page EXCEPT !.kept = page.kept \cup {SectionKey(page, x)}]
  <2>2. DOMAIN p = DOMAIN page /\ p.name = page.name /\ p.last = page.last
    BY DEF WorkflowInv
  <2> QED BY <1>2, <2>1, <2>2
<1>7. CASE CollectUnused
  <2>1. PICK k : page' = [page EXCEPT !.kept = page.kept \ {k}]
    BY <1>7 DEF CollectUnused
  <2>2. DOMAIN page' = DOMAIN page /\ page'.name = page.name /\ page'.last = page.last
    BY <2>1 DEF WorkflowInv
  <2> QED BY <1>1, <2>2
<1> QED BY <1>3, <1>4, <1>5, <1>6, <1>7 DEF WorkflowNext

\* The table of releases offers a version with one that was there before it.
LEMMA ReleasesStep ==
    ASSUME "name" \in DOMAIN page, ReleasesInv(page), ReleasesNext
    PROVE  Stays(page, page') /\ ReleasesInv(page')
<1>1. ASSUME NEW v, Compared(v) PROVE Stays(page, page') /\ ReleasesInv(page')
  <2>1. PICK prev \in previousVersion(page.runs, v) :
           prev # None /\ page' = [page EXCEPT !.pair = [base |-> prev, candidate |-> v]]
    BY <1>1 DEF Compared
  <2>2. prev # v /\ page.runs[prev].first <= page.runs[v].first
    BY <2>1 DEF previousVersion, LatestOf
  <2>3. /\ DOMAIN page' = DOMAIN page /\ page'.name = page.name /\ page'.runs = page.runs
        /\ page'.pair.base = prev /\ page'.pair.candidate = v
    BY <2>1 DEF ReleasesInv
  <2> QED BY <2>2, <2>3 DEF Stays, ReleasesInv
<1> QED BY <1>1 DEF ReleasesNext, OfferPair, ClickFlag, DefaultPair

\* The compare page: a swap and a pick keep the two sides apart.
LEMMA CompareStep ==
    ASSUME "name" \in DOMAIN page, CompareInv(page), CompareNext
    PROVE  Stays(page, page') /\ CompareInv(page')
<1> DEFINE Fine(p) == Stays(page, p) /\ CompareInv(p)
<1>1. ASSUME NEW p, DOMAIN p = DOMAIN page, p.name = page.name, p.pair = page.pair PROVE Fine(p)
  BY <1>1 DEF Stays, CompareInv
<1>2. ASSUME NEW p, Fine(p) PROVE Fine(Enable(p))
  <2>1. DOMAIN Enable(p) = DOMAIN p /\ Enable(p).name = p.name /\ Enable(p).pair = p.pair
    BY <1>2 DEF Enable, Stays, CompareInv
  <2> QED BY <1>2, <2>1 DEF Stays, CompareInv
<1>3. ASSUME NEW p, Fine(p) PROVE Fine(Requeried(p))
  <2> DEFINE q == [p EXCEPT !.status = [k \in Series |->
                      CASE p.status[k] \in {"ok", "failed"} -> "ok"
                        [] OTHER -> "none"]]
  <2>1. DOMAIN q = DOMAIN p /\ q.name = p.name /\ q.pair = p.pair
    BY <1>3 DEF Stays, CompareInv
  <2>2. Requeried(p) = Enable(q)
    BY DEF Requeried
  <2> HIDE DEF q
  <2>3. Fine(q)
    BY <1>3, <2>1 DEF Stays, CompareInv
  <2> HIDE DEF Fine
  <2> QED BY <1>2, <2>2, <2>3
<1>4. CASE LandVersions \/ LandSeries \/ FailSeries \/ RetrySeries
  <2>1. DOMAIN page' = DOMAIN page /\ page'.name = page.name /\ page'.pair = page.pair
    BY <1>4 DEF CompareInv, LandVersions, LandSeries, FailSeries, RetrySeries
  <2> QED BY <1>1, <2>1
<1>5. CASE CompareRange
  <2> DEFINE p == [page EXCEPT !.long = ~page.long]
  <2>1. DOMAIN p = DOMAIN page /\ p.name = page.name /\ p.pair = page.pair
    BY DEF CompareInv
  <2>2. page' = Requeried(p)
    BY <1>5 DEF CompareRange
  <2> HIDE DEF p
  <2> QED BY <1>1, <1>3, <2>1, <2>2
<1>6. CASE Swap
  <2> DEFINE turned == [base |-> page.pair.candidate, candidate |-> page.pair.base]
             p == [page EXCEPT !.pair = turned]
  <2>1. /\ DOMAIN p = DOMAIN page /\ p.name = page.name
        /\ p.pair = turned /\ DOMAIN turned = {"base", "candidate"}
        /\ turned.base = page.pair.candidate /\ turned.candidate = page.pair.base
    BY DEF CompareInv
  <2>2. page' = Requeried(p)
    BY <1>6 DEF Swap
  <2> HIDE DEF p, turned
  <2>3. Fine(p)
    BY <2>1 DEF Stays, CompareInv
  <2> QED BY <1>3, <2>2, <2>3
<1>7. CASE VersionCell
  <2>1. PICK side \in {"base", "candidate"}, v \in Releases \ {page.pair.base, page.pair.candidate} :
           page' = Requeried([page EXCEPT !.pair[side] = v])
    BY <1>7 DEF VersionCell
  <2> DEFINE chosen == [page.pair EXCEPT ![side] = v]
             p == [page EXCEPT !.pair = chosen]
  <2>2. page' = Requeried(p)
    BY <2>1
  <2>3. /\ DOMAIN p = DOMAIN page /\ p.name = page.name
        /\ p.pair = chosen /\ DOMAIN chosen = {"base", "candidate"}
    BY DEF CompareInv
  <2>4. chosen.base # chosen.candidate
    BY <2>1 DEF CompareInv
  <2> HIDE DEF p, chosen
  <2>5. Fine(p)
    BY <2>3, <2>4 DEF Stays, CompareInv
  <2> QED BY <1>3, <2>2, <2>5
<1>8. CASE PickMetric
  <2>1. PICK m : page' = Enable([page EXCEPT !.picked = toggle(charted(page), m)])
    BY <1>8 DEF PickMetric
  <2> DEFINE p == [page EXCEPT !.picked = toggle(charted(page), m)]
  <2>2. DOMAIN p = DOMAIN page /\ p.name = page.name /\ p.pair = page.pair
    BY DEF CompareInv
  <2>3. page' = Enable(p)
    BY <2>1
  <2> HIDE DEF p
  <2> QED BY <1>1, <1>2, <2>2, <2>3
<1> QED BY <1>4, <1>5, <1>6, <1>7, <1>8 DEF CompareNext

\* No step of a table opens another page.
LEMMA TableStays ==
    ASSUME "name" \in DOMAIN page, TableNext
    PROVE  Stays(page, page')
BY DEF Stays, TableNext, SortWorkflows, SortClients, SortPreview, setSortBy, SearchWorkflows,
       SearchClients, toggleSort

\* No step of a chart opens another page.
LEMMA ChartStays ==
    ASSUME "name" \in DOMAIN page, ChartNext
    PROVE  Stays(page, page')
<1>1. ASSUME NEW p, "name" \in DOMAIN p PROVE Stays(p, Drawing(p))
  BY <1>1 DEF Stays, Drawing
<1>2. ASSUME NEW p, Stays(page, p), page' = Drawing(p) PROVE Stays(page, page')
  BY <1>1, <1>2 DEF Stays
<1>3. CASE EnterBucket
  <2>1. PICK i : page' = Drawing([page EXCEPT !.hover = i])
    BY <1>3 DEF EnterBucket
  <2>2. Stays(page, [page EXCEPT !.hover = i])
    BY DEF Stays
  <2> QED BY <1>2, <2>1, <2>2
<1>4. CASE LeaveChart \/ OpenViewAgain
  BY <1>4 DEF Stays, LeaveChart, OpenViewAgain
<1>5. CASE ChartRange
  <2>1. PICK s : \/ page' = [page EXCEPT !.span = s]
                 \/ \E a, e : page' = Drawing([page EXCEPT !.span = s, !.axis = a, !.errs = e])
    BY <1>5 DEF ChartRange
  <2>2. CASE page' = [page EXCEPT !.span = s]
    BY <2>2 DEF Stays
  <2>3. ASSUME NEW a, NEW e, page' = Drawing([page EXCEPT !.span = s, !.axis = a, !.errs = e])
        PROVE  Stays(page, page')
    <3>1. Stays(page, [page EXCEPT !.span = s, !.axis = a, !.errs = e])
      BY DEF Stays
    <3> QED BY <1>2, <2>3, <3>1
  <2> QED BY <2>1, <2>2, <2>3
<1>6. CASE LandChart
  <2>1. PICK a : \/ page' = Drawing([page EXCEPT !.axis = a])
                 \/ page' = Drawing([page EXCEPT !.errs = a])
    BY <1>6 DEF LandChart
  <2>2. Stays(page, [page EXCEPT !.axis = a]) /\ Stays(page, [page EXCEPT !.errs = a])
    BY DEF Stays
  <2> QED BY <1>2, <2>1, <2>2
<1> QED BY <1>3, <1>4, <1>5, <1>6 DEF ChartNext

--------------------------------------------------------------------------------

\* The panel: what is dismissed is hidden, whatever is found, selected or shown.
LEMMA OverviewStep ==
    ASSUME "name" \in DOMAIN page, OverviewInv(page), OverviewNext
    PROVE  Stays(page, page') /\ OverviewInv(page')
<1>1. CASE LandAnomalies \/ FailAnomalies \/ OverviewRange \/ ViewToggle
  BY <1>1 DEF Stays, OverviewInv, LandAnomalies, FailAnomalies, OverviewRange, ViewToggle
<1>2. ASSUME NEW k, page' = [page EXCEPT !.selected = k]
      PROVE  Stays(page, page') /\ OverviewInv(page')
  BY <1>2 DEF Stays, OverviewInv
<1>3. CASE SelectMarker \/ ToggleRow \/ ToggleIncident
  BY <1>2, <1>3 DEF SelectMarker, ToggleRow, ToggleIncident
<1>4. ASSUME NEW flags, DismissOutliers(flags)
      PROVE  Stays(page, page') /\ OverviewInv(page')
  <2> DEFINE keys == {anomalyKey(f) : f \in flags}
  <2>1. page' = [page EXCEPT !.dismissed = page.dismissed \cup keys,
                             !.hidden = page.hidden \cup keys]
    BY <1>4 DEF DismissOutliers
  <2> HIDE DEF keys
  <2> QED BY <2>1 DEF Stays, OverviewInv
<1>5. CASE DismissRow \/ DismissIncident
  BY <1>4, <1>5 DEF DismissRow, DismissIncident
<1>6. CASE UndoAll
  BY <1>6 DEF Stays, OverviewInv, UndoAll
<1> QED BY <1>1, <1>3, <1>5, <1>6 DEF OverviewNext

\* The setup checks: a block that mounts reads what the last one stored.
LEMMA SetupStep ==
    ASSUME "name" \in DOMAIN page, SetupInv(page), SetupNext
    PROVE  Stays(page, page') /\ SetupInv(page')
<1>0. /\ {"space", "open", "dismissed", "muted", "stored", "storage", "silenced"}
            \subseteq DOMAIN page
      /\ page.space \in CheckSpaces /\ DOMAIN page.stored = CheckSpaces
      /\ DOMAIN page.silenced = CheckSpaces
      /\ \A w \in CheckSpaces : page.silenced[w] \subseteq page.stored[w]
      /\ page.silenced[page.space] \subseteq page.muted
  BY DEF SetupInv
<1>1. CASE MountChecks
  <2>1. PICK s \in CheckSpaces :
           page' = [page EXCEPT !.space = s, !.open = FALSE, !.dismissed = {},
                                !.muted = page.stored[s]]
    BY <1>1 DEF MountChecks
  <2>2. /\ DOMAIN page' = DOMAIN page /\ page'.name = page.name /\ page'.space = s
        /\ page'.muted = page.stored[s] /\ page'.stored = page.stored
        /\ page'.silenced = page.silenced
    BY <1>0, <2>1, SMTT(30)
  <2> QED BY <1>0, <2>2 DEF Stays, SetupInv
<1>2. CASE ReviewChecks \/ DismissChecks
  <2>1. \/ page' = [page EXCEPT !.open = ~page.open]
        \/ \E codes : page' = [page EXCEPT !.dismissed = page.dismissed \cup codes]
    BY <1>2 DEF ReviewChecks, DismissChecks
  <2>2. /\ DOMAIN page' = DOMAIN page /\ page'.name = page.name /\ page'.space = page.space
        /\ page'.muted = page.muted /\ page'.stored = page.stored
        /\ page'.silenced = page.silenced
    BY <1>0, <2>1
  <2> QED BY <1>0, <2>2 DEF Stays, SetupInv
<1>3. CASE MuteCheck
  <2> DEFINE s == page.space
  <2>1. PICK c \in VisibleChecks :
           page' = [page EXCEPT
              !.muted = page.muted \cup {c},
              !.stored[s] = IF page.storage THEN page.muted \cup {c} ELSE page.stored[s],
              !.silenced[s] = IF page.storage THEN page.silenced[s] \cup {c}
                              ELSE page.silenced[s]]
    BY <1>3 DEF MuteCheck
  <2> DEFINE stored == [page.stored EXCEPT ![s] =
                           IF page.storage THEN page.muted \cup {c} ELSE page.stored[s]]
             silenced == [page.silenced EXCEPT ![s] =
                           IF page.storage THEN page.silenced[s] \cup {c} ELSE page.silenced[s]]
  <2>2. /\ DOMAIN page' = DOMAIN page /\ page'.name = page.name /\ page'.space = s
        /\ page'.muted = page.muted \cup {c} /\ page'.stored = stored
        /\ page'.silenced = silenced
    BY <1>0, <2>1
  <2>3. /\ DOMAIN stored = CheckSpaces /\ DOMAIN silenced = CheckSpaces
        /\ silenced[s] \subseteq page.muted \cup {c} /\ silenced[s] \subseteq stored[s]
        /\ \A w \in CheckSpaces : w # s => /\ stored[w] = page.stored[w]
                                           /\ silenced[w] = page.silenced[w]
    BY <1>0
  <2> HIDE DEF stored, silenced
  <2> QED BY <1>0, <2>2, <2>3 DEF Stays, SetupInv
<1> QED BY <1>1, <1>2, <1>3 DEF SetupNext

\* What the two invariants of the overview show.
LEMMA OverviewShown ==
    ASSUME "name" \in DOMAIN page, On("overview") => OverviewInv(page),
           On("setup") => SetupInv(page)
    PROVE  DismissedStayHidden
<1>1. ASSUME On("overview") PROVE {anomalyKey(f) : f \in Live} \cap page.hidden = {}
  BY <1>1 DEF Live, OverviewInv
<1>2. ASSUME On("setup") PROVE VisibleChecks \cap page.silenced[page.space] = {}
  BY <1>2 DEF VisibleChecks, SetupInv
<1> QED BY <1>1, <1>2 DEF DismissedStayHidden

--------------------------------------------------------------------------------

\* The client page reads nothing without a client.
LEMMA ClientStep ==
    ASSUME "name" \in DOMAIN page, ClientInv(page), ClientNext
    PROVE  Stays(page, page') /\ ClientInv(page')
<1>1. CASE ClientTurns
  <2>1. PICK s, r, u : page' = [page EXCEPT !.space = s, !.range = r, !.user = u]
    BY <1>1 DEF ClientTurns
  <2>2. DOMAIN page' = DOMAIN page /\ page'.name = page.name /\ page'.read = page.read
    BY <2>1 DEF ClientInv
  <2> QED BY <2>2 DEF Stays, ClientInv
<1>2. CASE LandClient
  <2>1. page.user # "" /\ page' = [page EXCEPT !.read = page.read \cup {ClientQuery}]
    BY <1>2 DEF LandClient
  <2>2. ClientQuery.user = page.user
    BY DEF ClientQuery
  <2>3. /\ DOMAIN page' = DOMAIN page /\ page'.name = page.name
        /\ page'.read = page.read \cup {ClientQuery}
    BY <2>1 DEF ClientInv
  <2> QED BY <2>1, <2>2, <2>3 DEF Stays, ClientInv
<1>3. CASE DropClient
  <2>1. PICK q : page' = [page EXCEPT !.read = page.read \ {q}]
    BY <1>3 DEF DropClient
  <2>2. DOMAIN page' = DOMAIN page /\ page'.name = page.name /\ page'.read = page.read \ {q}
    BY <2>1 DEF ClientInv
  <2> QED BY <2>2 DEF Stays, ClientInv
<1> QED BY <1>1, <1>2, <1>3 DEF ClientNext

\* The first of a workspace's attribute keys is one of them.
LEMMA FirstKey ==
    ASSUME NEW s \in KeyLists, s # <<>>
    PROVE  Head(s) \in ToSet(s)
<1>1. PICK n \in 0..MaxAttributes : s \in [1..n -> Attributes]
  BY DEF KeyLists, SeqOf
<1> QED BY <1>1, SMTT(30) DEF ToSet

\* The attribute that is read is one of the workspace's, and the range short.
LEMMA ActiveAttribute ==
    ASSUME UsageInv(page), UsageEnabled
    PROVE  /\ UsageQuery.attr \in ToSet(page.keysOf[page.space])
           /\ UsageQuery.space = page.space /\ UsageQuery.long = page.long /\ ~page.long
<1>1. /\ UsageQuery.space = page.space /\ UsageQuery.long = page.long
      /\ UsageQuery.attr = IF UsageView = "attribute" THEN activeAttr ELSE ""
  BY DEF UsageQuery, KeysQuery
<1>2. UsageView = "attribute" /\ activeAttr # ""
  BY <1>1 DEF UsageEnabled
<1>3. ~page.long
  BY <1>2 DEF UsageView
<1>4. attributeKeys # <<>>
  <2>1. SUFFICES ASSUME attributeKeys = <<>> PROVE FALSE
    OBVIOUS
  <2>2. ToSet(attributeKeys) = {}
    BY <2>1, SMTT(30) DEF ToSet
  <2> QED BY <1>2, <2>1, <2>2 DEF activeAttr
<1>5. attributeKeys = page.keysOf[page.space] /\ attributeKeys \in KeyLists
  BY <1>4 DEF attributeKeys, UsageInv
<1>6. activeAttr \in ToSet(attributeKeys)
  BY <1>4, <1>5, FirstKey DEF activeAttr
<1> QED BY <1>1, <1>2, <1>3, <1>5, <1>6

\* The breakdown: what lands is of the attribute and the range on the screen.
LEMMA UsageStep ==
    ASSUME "name" \in DOMAIN page, UsageInv(page), UsageNext
    PROVE  Stays(page, page') /\ UsageInv(page')
<1>1. ASSUME DOMAIN page' = DOMAIN page, page'.name = page.name, page'.keysOf = page.keysOf,
             page'.space \in UsageSpaces,
             \A q \in page'.read :
                q \in page.read \/ (~q.long /\ (q.attr # "" => q.attr \in ToSet(page.keysOf[q.space])))
      PROVE  Stays(page, page') /\ UsageInv(page')
  BY <1>1 DEF Stays, UsageInv
<1>2. CASE UsageRange \/ UsageSpace \/ handleTabChange \/ handleAttrSelect \/ SortUsage
  <2>1. /\ DOMAIN page' = DOMAIN page /\ page'.name = page.name /\ page'.keysOf = page.keysOf
        /\ page'.space \in UsageSpaces /\ page'.read = page.read
    BY <1>2 DEF UsageInv, UsageRange, UsageSpace, handleTabChange, handleAttrSelect, SortUsage
  <2> QED BY <1>1, <2>1
<1>3. CASE LandUsage
  <2>1. PICK q : /\ page' = [page EXCEPT !.read = page.read \cup {q}]
                 /\ (~page.long /\ q = KeysQuery(page)) \/ (UsageEnabled /\ q = UsageQuery)
    BY <1>3 DEF LandUsage
  <2>2. KeysQuery(page).attr = "" /\ KeysQuery(page).long = page.long
    BY DEF KeysQuery
  <2>3. ~q.long /\ (q.attr # "" => q.attr \in ToSet(page.keysOf[q.space]))
    BY <2>1, <2>2, ActiveAttribute
  <2>4. /\ DOMAIN page' = DOMAIN page /\ page'.name = page.name /\ page'.keysOf = page.keysOf
        /\ page'.space \in UsageSpaces /\ page'.read = page.read \cup {q}
    BY <2>1 DEF UsageInv
  <2> QED BY <1>1, <2>3, <2>4
<1>4. CASE DropUsage
  <2>1. PICK q : page' = [page EXCEPT !.read = page.read \ {q}]
    BY <1>4 DEF DropUsage
  <2>2. /\ DOMAIN page' = DOMAIN page /\ page'.name = page.name /\ page'.keysOf = page.keysOf
        /\ page'.space \in UsageSpaces /\ page'.read = page.read \ {q}
    BY <2>1 DEF UsageInv
  <2> QED BY <1>1, <2>2
<1> QED BY <1>2, <1>3, <1>4 DEF UsageNext

\* What the invariants of the pages with numbers show.
LEMMA NumbersShown ==
    ASSUME "name" \in DOMAIN page,
           On("workflow") => WorkflowInv(page), On("releases") => ReleasesInv(page),
           On("compare") => CompareInv(page), On("usage") => UsageInv(page),
           On("client") => ClientInv(page)
    PROVE  WorkflowNumbers /\ PairsCompare /\ UsageNumbers
<1>1. WorkflowNumbers
  BY Sectioned DEF WorkflowNumbers, WorkflowInv, Displayed, Placeholder
<1>2. PairsCompare
  BY DEF PairsCompare, ReleasesInv, CompareInv
<1>3. UsageNumbers
  BY DEF UsageNumbers, UsageInv, ClientInv, UsageView
<1> QED BY <1>1, <1>2, <1>3

--------------------------------------------------------------------------------

\* Where the invariants start: each page mounts with its own, under its name.
LEMMA PagesStart ==
    ASSUME page \in UNION {TraceInit, OverviewInit, SetupInit, WorkflowInit, ReleasesInit,
                           CompareInit, UsageInit, ClientInit, TableInit, ChartInit}
    PROVE  PagesInv /\ Elsewhere
<1>1. ASSUME "name" \in DOMAIN page, page.name \in {"trace", "table", "chart"}
      PROVE  PagesInv /\ Elsewhere
  BY <1>1 DEF PagesInv, Elsewhere, On
<1>2. CASE page \in TraceInit
  <2>1. PICK parent, late, failed : page = TraceMounted(parent, late, failed)
    BY <1>2, SMTT(30) DEF TraceInit
  <2>2. "name" \in DOMAIN page /\ page.name = "trace"
    BY <2>1 DEF TraceMounted
  <2> QED BY <1>1, <2>2
<1>3. CASE page \in OverviewInit
  <2>1. /\ {"name", "dismissed", "hidden"} \subseteq DOMAIN page /\ page.name = "overview"
        /\ page.dismissed = {} /\ page.hidden = {}
    BY <1>3, SMTT(30) DEF OverviewInit
  <2> QED BY <2>1 DEF PagesInv, Elsewhere, On, OverviewInv
<1>4. CASE page \in SetupInit
  <2>1. PICK s \in CheckSpaces, storage \in BOOLEAN :
           page = [name |-> "setup", space |-> s, open |-> FALSE, dismissed |-> {}, muted |-> {},
                   stored |-> [w \in CheckSpaces |-> {}], storage |-> storage,
                   silenced |-> [w \in CheckSpaces |-> {}]]
    BY <1>4, SMTT(30) DEF SetupInit
  <2>2. SetupInv(page) /\ "name" \in DOMAIN page /\ page.name = "setup"
    BY <2>1 DEF SetupInv
  <2> QED BY <2>2 DEF PagesInv, Elsewhere, On
<1>5. CASE page \in WorkflowInit
  <2>1. PICK s, r : page = [name |-> "workflow", source |-> s, range |-> r, filter |-> None,
                          kept |-> {}, last |-> [x \in Sections |-> None]]
    BY <1>5, SMTT(30) DEF WorkflowInit
  <2>2. WorkflowInv(page) /\ "name" \in DOMAIN page /\ page.name = "workflow"
    BY <2>1 DEF WorkflowInv
  <2> QED BY <2>2 DEF PagesInv, Elsewhere, On
<1>6. CASE page \in ReleasesInit
  <2>1. PICK h, r, w : page = [name |-> "releases", runs |-> h, pair |-> None, reach |-> r,
                             window |-> w]
    BY <1>6, SMTT(30) DEF ReleasesInit
  <2>2. ReleasesInv(page) /\ "name" \in DOMAIN page /\ page.name = "releases"
    BY <2>1 DEF ReleasesInv
  <2> QED BY <2>2 DEF PagesInv, Elsewhere, On
<1>7. CASE page \in CompareInit
  <2>1. PICK pair \in [base : Releases, candidate : Releases], long \in BOOLEAN :
           pair.base # pair.candidate /\ page = CompareMounted(pair, long)
    BY <1>7, SMTT(30) DEF CompareInit
  <2>2. CompareInv(page) /\ "name" \in DOMAIN page /\ page.name = "compare"
    BY <2>1 DEF CompareInv, CompareMounted, Enable
  <2> QED BY <2>2 DEF PagesInv, Elsewhere, On
<1>8. CASE page \in UsageInit
  <2>1. PICK keys \in [UsageSpaces -> KeyLists], s \in UsageSpaces : page = UsageMounted(keys, s)
    BY <1>8, SMTT(30) DEF UsageInit
  <2>2. UsageInv(page) /\ "name" \in DOMAIN page /\ page.name = "usage"
    BY <2>1 DEF UsageInv, UsageMounted
  <2> QED BY <2>2 DEF PagesInv, Elsewhere, On
<1>9. CASE page \in ClientInit
  <2>1. PICK s, u : page = ClientMounted(s, u)
    BY <1>9, SMTT(30) DEF ClientInit
  <2>2. ClientInv(page) /\ "name" \in DOMAIN page /\ page.name = "client"
    BY <2>1 DEF ClientInv, ClientMounted
  <2> QED BY <2>2 DEF PagesInv, Elsewhere, On
<1>10. CASE page \in TableInit
  <2>1. "name" \in DOMAIN page /\ page.name = "table"
    BY <1>10, SMTT(30) DEF TableInit
  <2> QED BY <1>1, <2>1, SMTT(30)
<1>11. CASE page \in ChartInit
  <2>1. "name" \in DOMAIN page /\ page.name = "chart"
    BY <1>11, SMTT(30) DEF ChartInit
  <2> QED BY <1>1, <2>1
<1> QED
  BY <1>2, <1>3, <1>4, <1>5, <1>6, <1>7, <1>8, <1>9, <1>10, <1>11

\* Every step keeps the invariant of the page that it is a step of.
LEMMA PagesStep ==
    ASSUME PagesInv,
           \/ TraceNext \/ OverviewNext \/ SetupNext \/ WorkflowNext \/ ReleasesNext
           \/ CompareNext \/ UsageNext \/ ClientNext \/ TableNext \/ ChartNext
    PROVE  PagesInv' /\ Elsewhere'
<1>0. "name" \in DOMAIN page
  BY DEF PagesInv
<1>1. ASSUME Stays(page, page'), page.name \in {"trace", "table", "chart"}
      PROVE  PagesInv' /\ Elsewhere'
  BY <1>1 DEF PagesInv, Elsewhere, On, Stays
<1>2. CASE TraceNext
  BY <1>0, <1>1, <1>2, TraceStays DEF TraceNext, On
<1>3. CASE OverviewNext
  <2>1. page.name = "overview" /\ OverviewInv(page)
    BY <1>3 DEF OverviewNext, On, PagesInv
  <2>2. Stays(page, page') /\ OverviewInv(page')
    BY <1>0, <1>3, <2>1, OverviewStep
  <2> QED BY <2>1, <2>2 DEF PagesInv, Elsewhere, On, Stays
<1>4. CASE SetupNext
  <2>1. page.name = "setup" /\ SetupInv(page)
    BY <1>4 DEF SetupNext, On, PagesInv
  <2>2. Stays(page, page') /\ SetupInv(page')
    BY <1>0, <1>4, <2>1, SetupStep
  <2> QED BY <2>1, <2>2 DEF PagesInv, Elsewhere, On, Stays
<1>5. CASE WorkflowNext
  <2>1. page.name = "workflow" /\ WorkflowInv(page)
    BY <1>5 DEF WorkflowNext, On, PagesInv
  <2>2. Stays(page, page') /\ WorkflowInv(page')
    BY <1>0, <1>5, <2>1, WorkflowStep
  <2> QED BY <2>1, <2>2 DEF PagesInv, Elsewhere, On, Stays
<1>6. CASE ReleasesNext
  <2>1. page.name = "releases" /\ ReleasesInv(page)
    BY <1>6 DEF ReleasesNext, On, PagesInv
  <2>2. Stays(page, page') /\ ReleasesInv(page')
    BY <1>0, <1>6, <2>1, ReleasesStep
  <2> QED BY <2>1, <2>2 DEF PagesInv, Elsewhere, On, Stays
<1>7. CASE CompareNext
  <2>1. page.name = "compare" /\ CompareInv(page)
    BY <1>7 DEF CompareNext, On, PagesInv
  <2>2. Stays(page, page') /\ CompareInv(page')
    BY <1>0, <1>7, <2>1, CompareStep
  <2> QED BY <2>1, <2>2 DEF PagesInv, Elsewhere, On, Stays
<1>8. CASE UsageNext
  <2>1. page.name = "usage" /\ UsageInv(page)
    BY <1>8 DEF UsageNext, On, PagesInv
  <2>2. Stays(page, page') /\ UsageInv(page')
    BY <1>0, <1>8, <2>1, UsageStep
  <2> QED BY <2>1, <2>2 DEF PagesInv, Elsewhere, On, Stays
<1>9. CASE ClientNext
  <2>1. page.name = "client" /\ ClientInv(page)
    BY <1>9 DEF ClientNext, On, PagesInv
  <2>2. Stays(page, page') /\ ClientInv(page')
    BY <1>0, <1>9, <2>1, ClientStep
  <2> QED BY <2>1, <2>2 DEF PagesInv, Elsewhere, On, Stays
<1>10. CASE TableNext
  BY <1>0, <1>1, <1>10, TableStays DEF TableNext, On
<1>11. CASE ChartNext
  BY <1>0, <1>1, <1>11, ChartStays DEF ChartNext, On
<1> QED
  BY <1>2, <1>3, <1>4, <1>5, <1>6, <1>7, <1>8, <1>9, <1>10, <1>11
================================================================================
