------------------------------ MODULE WorkflowPages ----------------------------
(***************************************************************************)
(* The pages of one workflow.  "workflow" is the detail page as a reader   *)
(* of the query cache: while the query of a new range or version loads,    *)
(* each section keeps showing its previous data.  "releases" is its table  *)
(* of versions, which offers pairs to compare.  "compare" is the page that *)
(* compares a pair and charts up to two metrics of it.                     *)
(***************************************************************************)
EXTENDS PageState, Integers, Sequences, SequencesExt, FiniteSets, FiniteSetsExt, Functions

CONSTANTS
    ReleaseDays,      \* first_seen_ms and last_seen_ms, in days
    Releases,         \* names of versions
    ChartMetrics,     \* the rows of the comparison, of "runs", "cost", "cpr", "p95", "err", "tpr"
    MaxKept           \* bound: results in the query cache

--------------------------------------------------------------------------------

Sources == {[space |-> "w1", workflow |-> "a"], [space |-> "w1", workflow |-> "b"],
            [space |-> "w2", workflow |-> "a"]}

Sections == {"versions", "series"}

\* The versions that ran in a range; an older one may be out of a short range.
Ran(range) == IF range = "1y" THEN {"v1", "v2"} ELSE {"v2"}

WorkflowInit ==
    {[name |-> "workflow", source |-> s, range |-> r, filter |-> None,
      kept |-> {},                                  \* queries with data in the cache
      last |-> [x \in Sections |-> None]] :         \* each section's last query with data
        s \in Sources, r \in {"7d", "1y"}}

PlaceholderAny(previous, source) == previous

\* placeholderData of shared: the previous data, unless they are another
\* workflow's or another workspace's.
Placeholder(previous, source) ==
    IF previous # None /\ previous.source = source THEN previous ELSE None

\* What a section shows, for its query and the last one it had data of.
Displayed(p, key, section) ==
    IF key \in p.kept THEN key ELSE Placeholder(p.last[section], p.source)

VersionsKey(p) == [source |-> p.source, range |-> p.range, section |-> "versions", version |-> None]

\* The filter applies while its version is in the list on the screen.
FilteredVersion(p) ==
    LET list == Displayed(p, VersionsKey(p), "versions")
    IN  IF list # None /\ p.filter \in Ran(list.range) THEN p.filter ELSE None

SectionKey(p, section) ==
    IF section = "versions" THEN VersionsKey(p)
    ELSE [VersionsKey(p) EXCEPT !.section = section, !.version = FilteredVersion(p)]

\* After each render the observer of a section notes its query if it has data.
Observed(p) ==
    [p EXCEPT !.last = [x \in Sections |->
        IF SectionKey(p, x) \in p.kept THEN SectionKey(p, x) ELSE p.last[x]]]

\* Another workspace, or another workflow by the browser's history, for which
\* the page mounts anew.
ChangeSource ==
    \E s \in Sources :
       page' = Observed(
          IF s.workflow = page.source.workflow THEN [page EXCEPT !.source = s]
          ELSE [page EXCEPT !.source = s, !.filter = None, !.last = [x \in Sections |-> None]])

WorkflowRange == \E r \in {"7d", "1y"} : page' = Observed([page EXCEPT !.range = r])

\* VersionDropdown offers all versions and those of the list.
SetFilter ==
    LET list == Displayed(page, VersionsKey(page), "versions")
    IN  /\ list # None
        /\ \E v \in {None} \cup Ran(list.range) :
              page' = Observed([page EXCEPT !.filter = v])

LandSection ==
    /\ Cardinality(page.kept) < MaxKept
    /\ \E x \in Sections :
          page' = Observed([page EXCEPT !.kept = @ \cup {SectionKey(page, x)}])

\* The cache drops a result that no section uses.
CollectUnused ==
    \E k \in page.kept \ {SectionKey(page, x) : x \in Sections} :
       page' = [page EXCEPT !.kept = @ \ {k}]

WorkflowNext ==
    On("workflow") /\ (ChangeSource \/ WorkflowRange \/ SetFilter \/ LandSection \/ CollectUnused)

--------------------------------------------------------------------------------

\* When each version ran; "" is the version of the runs that name none.
Histories ==
    {h \in [Releases \cup {""} -> [first : ReleaseDays, last : ReleaseDays]] :
        \A v \in Releases \cup {""} : h[v].first <= h[v].last}

\* window has the starts of the buckets of the spend chart; flags closer than
\* reach buckets to each other would overlap.
ReleasesInit ==
    LET end == Max(ReleaseDays)
    IN  {[name |-> "releases", runs |-> h, pair |-> None, reach |-> r,
          window |-> [i \in 1..(end + 1 - d) |-> d + i - 1]] :
            h \in Histories, r \in 0..1, d \in 0..(end + 1)}

\* comparable
Named(h) == DOMAIN h \ {""}

\* The latest release, or any of those first seen together: the order of the
\* list decides.
LatestOf(h, S) == IF S = {} THEN {None} ELSE {v \in S : \A o \in S : h[o].first <= h[v].first}

previousVersion(h, v) == LatestOf(h, {o \in Named(h) \ {v} : h[o].first <= h[v].first})

\* The newest release that ran in the day before the latest run.
currentVersion(h) ==
    LET latest == Max({h[v].last : v \in Named(h)})
    IN  LatestOf(h, {v \in Named(h) : h[v].last >= latest - 1})

\* The bucket that holds a time, 0 before the first.
bucketIndex(window, at) == Max({0} \cup {i \in DOMAIN window : window[i] <= at})

\* The bucket of each version that was released in the window.
releaseMarkers(h, window) ==
    LET Released(v) == bucketIndex(window, h[v].first) > 1
    IN  [v \in {v \in Named(h) : Released(v)} |-> bucketIndex(window, h[v].first)]

\* The buckets whose flag is shown, from the last one back.
withoutOverlap(buckets, reach) ==
    LET Keep(kept, b) == IF \E k \in kept : k - b <= reach THEN kept ELSE kept \cup {b}
    IN  FoldLeft(Keep, {}, SetToSortSeq(buckets, >))

ReleaseMarks == releaseMarkers(page.runs, page.window)

Flagged == withoutOverlap(Range(ReleaseMarks), page.reach)

Compared(v) ==
    \E prev \in previousVersion(page.runs, v) :
       /\ prev # None
       /\ page' = [page EXCEPT !.pair = [base |-> prev, candidate |-> v]]

\* "vs" in the table.
OfferPair == \E v \in Named(page.runs) : Compared(v)

\* The flag of a bucket is of one of the versions released in it.
ClickFlag == \E v \in DOMAIN ReleaseMarks : ReleaseMarks[v] \in Flagged /\ Compared(v)

\* "Compare versions".
DefaultPair == \E v \in currentVersion(page.runs) : Compared(v)

ReleasesNext == On("releases") /\ (OfferPair \/ ClickFlag \/ DefaultPair)

--------------------------------------------------------------------------------

Series == {"err", "cost", "latency", "tokens"}

SeriesOf(metric) ==
    CASE metric \in {"runs", "err"} -> "err"
      [] metric \in {"cost", "cpr"} -> "cost"
      [] metric = "p95" -> "latency"
      [] metric = "tpr" -> "tokens"

\* The metrics in the chart.  The daily rollup of a long range has no latency.
charted(p) ==
    LET Chartable(m) == ~(p.long /\ m = "p95")
        shown == SelectSeq(p.picked, Chartable)
    IN  IF shown = <<>> THEN <<"cpr">> ELSE shown

\* The enabled queries: the error series doubles as the number of runs.
Needed(p) == {"err"} \cup {SeriesOf(m) : m \in ToSet(charted(p))}

\* A query that is enabled and has never run starts.
Enable(p) ==
    [p EXCEPT !.status = [k \in Series |->
        IF k \in Needed(p) /\ p.status[k] = "none" THEN "loading" ELSE p.status[k]]]

\* The queries of a series, of both sides: "none" (disabled so far), "loading"
\* (nothing to show), "ok" (data or a placeholder), "failed" with or without
\* earlier data of this workflow.
CompareMounted(pair, long) ==
    Enable([name |-> "compare", pair |-> pair, long |-> long, picked |-> <<"cpr">>,
            listed |-> FALSE,                      \* the list of versions is loaded
            status |-> [k \in Series |-> "none"]])

CompareInit ==
    {CompareMounted(pair, long) :
        pair \in {p \in [base : Releases, candidate : Releases] : p.base # p.candidate},
        long \in BOOLEAN}

\* The other queries of another range or version: with a placeholder where
\* there were data.
Requeried(p) ==
    Enable([p EXCEPT !.status = [k \in Series |->
        CASE p.status[k] \in {"ok", "failed"} -> "ok"
          [] OTHER -> "none"]])

LandVersions == ~page.listed /\ page' = [page EXCEPT !.listed = TRUE]

\* v1 did not run in the short range: "Nothing to compare in this range".
Comparable == page.listed /\ (page.long \/ "v1" \notin {page.pair.base, page.pair.candidate})

CompareRange == page' = Requeried([page EXCEPT !.long = ~@])

Swap ==
    /\ Comparable
    /\ page' = Requeried([page EXCEPT !.pair = [base |-> page.pair.candidate,
                                                candidate |-> page.pair.base]])

\* The menu of a side leaves out the version of the other side.
VersionCell ==
    /\ Comparable
    /\ \E side \in {"base", "candidate"} : \E v \in Releases \ {page.pair.base, page.pair.candidate} :
          page' = Requeried([page EXCEPT !.pair[side] = v])

\* A second pick shares the chart, a third one replaces the oldest.
toggle(c, m) ==
    LET Other(x) == x # m
        more == Append(c, m)
    IN  IF m \notin ToSet(c) THEN SubSeq(more, Max({1, Len(more) - 1}), Len(more))
        ELSE IF Len(c) > 1 THEN SelectSeq(c, Other) ELSE c

\* A row of the comparison; the latency of a long range is no button.
PickMetric ==
    /\ Comparable
    /\ \E m \in {m \in ChartMetrics : ~(page.long /\ m = "p95")} :
          page' = Enable([page EXCEPT !.picked = toggle(charted(page), m)])

LandSeries ==
    \E k \in Series :
       /\ page.status[k] # "none"
       /\ page' = [page EXCEPT !.status[k] = "ok"]

\* A request of a placeholder or of nothing fails, or of a refetch.
FailSeries ==
    \E k \in Series :
       /\ page.status[k] \in {"loading", "ok"}
       /\ page' = [page EXCEPT !.status[k] = IF @ = "ok" THEN "failed" ELSE "unmet"]

\* The next interval of an enabled query without data.
RetrySeries ==
    \E k \in Needed(page) :
       /\ page.status[k] = "unmet"
       /\ page' = [page EXCEPT !.status[k] = "loading"]

CompareNext ==
    /\ On("compare")
    /\ \/ LandVersions \/ CompareRange \/ Swap \/ VersionCell \/ PickMetric
       \/ LandSeries \/ FailSeries \/ RetrySeries

\* VersionLineChart is drawn: no query failed, charted or not, and none that the
\* chart needs is loading.
Drawn ==
    /\ Comparable
    /\ \A k \in Series : page.status[k] \notin {"failed", "unmet"}
    /\ \A k \in Needed(page) : page.status[k] # "loading"

--------------------------------------------------------------------------------

\* A section of the detail page shows the numbers of its query, or those of an
\* earlier range or version of the same workflow, and "another workflow or
\* workspace never shows these numbers" (useWorkflowDetail), in whatever order
\* the answers land and results leave the cache.
WorkflowNumbers ==
    On("workflow") =>
        \A x \in Sections :
           LET key == SectionKey(page, x)
               shown == Displayed(page, key, x)
           IN  shown # None =>
                 /\ shown.source = page.source /\ shown.section = x
                 /\ key \in page.kept => shown = key

\* The pairs that the detail page offers are of two named versions, the
\* candidate never the earlier one; and the comparison keeps two versions apart
\* through every swap and pick.
PairsCompare ==
    /\ On("releases") /\ page.pair # None =>
          /\ page.pair.base # page.pair.candidate
          /\ page.runs[page.pair.base].first <= page.runs[page.pair.candidate].first
    /\ On("compare") => page.pair.base # page.pair.candidate

\* The spend chart marks the bucket in which a version was first seen, for every
\* version but those "already running when the window opened" (versions.ts), and
\* flags the latest release; a flag is left out when it would cover one of a
\* later release, which is shown.
ReleasesFlagged ==
    On("releases") =>
        /\ \A v \in Named(page.runs) :
              LET first == page.runs[v].first
                  b == ReleaseMarks[v]
              IN  /\ v \in DOMAIN ReleaseMarks <=> page.window # <<>> /\ \E d \in ToSet(Tail(page.window)) : d <= first
                  /\ v \in DOMAIN ReleaseMarks => page.window[b] = first
        /\ \A b \in Range(ReleaseMarks) \ Flagged : \E k \in Flagged : b < k /\ k - b <= page.reach
        /\ \A a, b \in Flagged : a < b => b - a > page.reach

\* The comparison charts one or two different metrics, none that a long range
\* lacks, and draws the chart when every series that it needs has data, however
\* the user toggled metrics and changed the range while requests were out.
ChartHasSeries ==
    On("compare") =>
        /\ Len(charted(page)) \in 1..2 /\ IsInjective(charted(page))
        /\ page.long => "p95" \notin ToSet(charted(page))
        /\ Drawn => \A m \in {"runs"} \cup ToSet(charted(page)) : page.status[SeriesOf(m)] = "ok"
================================================================================
