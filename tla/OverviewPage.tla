------------------------------ MODULE OverviewPage -----------------------------
(***************************************************************************)
(* The overview: the outliers that the API detected, as flags on the       *)
(* charts, as rows and as incidents of the outliers panel, which the user  *)
(* dismisses for the session; and the setup checks above them, which the   *)
(* user dismisses for the session or mutes for good in the browser's       *)
(* storage.  The two blocks share no state and are two pages here.         *)
(***************************************************************************)
EXTENDS PageState, Integers, Sequences, SequencesExt, FiniteSets, FiniteSetsExt

CONSTANTS
    Days,             \* bucket_ms of the daily detection
    MaxFlags,         \* bound: anomalies of a workspace
    MaxMarkers,       \* max of toChartMarkers; the pages leave it at 4
    Checks,           \* codes of the setup checks
    CheckSpaces       \* workspaces whose checks are shown

\* An anomaly.  The API grades the severity by the size of the score, and the
\* scope is the workspace when no workflow is named.
Flags == [metric : {"cost", "error_rate"}, workflow : {"", "support"}, day : Days, score : 1..2]

anomalyKey(f) == <<f.metric, f.workflow, f.day>>

byRecency(a, b) == a.day > b.day \/ (a.day = b.day /\ a.score > b.score)

\* a comes before b.  Of two that are level, either may come first.
bySeverity(a, b) == a.score > b.score \/ (a.score = b.score /\ a.day > b.day)

toChartMarkers(flags, axis) ==
    LET Step(markers, f) ==
            IF \/ Len(markers) >= MaxMarkers
               \/ f.day \notin axis
               \/ \E i \in DOMAIN markers : markers[i].day = f.day
            THEN markers
            ELSE Append(markers, f)
    IN  FoldLeft(Step, <<>>, SetToSortSeq(flags, bySeverity))

\* The anomalies of one target on one day, worst first, the groups likewise.
groupIncidents(flags) ==
    LET groups == {{g \in flags : g.workflow = f.workflow /\ g.day = f.day} : f \in flags}
        incidents == {[severity |-> Max({f.score : f \in g}),
                       anomalies |-> SetToSortSeq(g, bySeverity)] : g \in groups}
        Before(x, y) == bySeverity(x.anomalies[1], y.anomalies[1])
    IN  SetToSortSeq(incidents, Before)

OverviewInit ==
    {[name |-> "overview", found |-> found, axis |-> axis,
      range |-> "30d", anomalies |-> None, error |-> FALSE,
      dismissed |-> {}, selected |-> None, view |-> "list",
      hidden |-> {}] :         \* history: keys the user dismissed and did not restore
        found \in {S \in kSubset(MaxFlags, Flags) :
                     \A a, b \in S : anomalyKey(a) = anomalyKey(b) => a = b},
        axis \in {Days, Days \ {Max(Days)}}}

--------------------------------------------------------------------------------

Loaded == page.anomalies # None

\* liveAnoms
Live == {f \in page.anomalies : anomalyKey(f) \notin page.dismissed}

Markers(metric) == toChartMarkers({f \in Live : f.metric = metric}, page.axis)

\* OutliersPanel is mounted.
Panel == page.range # "24h" /\ Loaded /\ ~page.error

Expanded(flags) == \E f \in flags : anomalyKey(f) = page.selected

Incidents == {ToSet(inc.anomalies) : inc \in ToSet(groupIncidents(Live))}

\* The detector runs daily: the next answer may lack an anomaly of the last.
LandAnomalies ==
    /\ page.range # "24h"
    /\ \E gone \in {{}} \cup {{f} : f \in page.found} :
          page' = [page EXCEPT !.anomalies = page.found \ gone, !.error = FALSE]

\* A failed refetch takes the panel down, and its choice of view with it.
FailAnomalies ==
    /\ page.range # "24h"
    /\ page' = [page EXCEPT !.error = TRUE, !.view = "list"]

\* Another query: the query of 24h is disabled.
OverviewRange ==
    \E r \in {"24h", "30d"} \ {page.range} :
       page' = [page EXCEPT !.range = r, !.anomalies = None, !.error = FALSE, !.view = "list"]

\* A flag of a chart.
SelectMarker ==
    /\ Loaded
    /\ \E metric \in {"cost", "error_rate"} : \E f \in ToSet(Markers(metric)) :
          page' = [page EXCEPT !.selected = anomalyKey(f)]

ToggleRow ==
    /\ Panel /\ page.view = "list"
    /\ \E f \in Live :
          page' = [page EXCEPT !.selected = IF Expanded({f}) THEN None ELSE anomalyKey(f)]

ToggleIncident ==
    /\ Panel /\ page.view = "grouped"
    /\ \E inc \in ToSet(groupIncidents(Live)) :
          page' = [page EXCEPT !.selected =
                      IF Expanded(ToSet(inc.anomalies)) THEN None ELSE anomalyKey(inc.anomalies[1])]

ViewToggle == Panel /\ \E v \in {"list", "grouped"} : page' = [page EXCEPT !.view = v]

DismissFirst(flags) ==
    LET keys == {anomalyKey(f) : f \in flags}
    IN  page' = [page EXCEPT !.dismissed = @ \cup {CHOOSE k \in keys : TRUE}, !.hidden = @ \cup keys]

\* onDismiss for each: the updates of the set build on each other.
DismissOutliers(flags) ==
    LET keys == {anomalyKey(f) : f \in flags}
    IN  page' = [page EXCEPT !.dismissed = @ \cup keys, !.hidden = @ \cup keys]

\* "Not an outlier" in an expanded row.
DismissRow ==
    /\ Panel /\ page.view = "list"
    /\ \E f \in Live : Expanded({f}) /\ DismissOutliers({f})

\* "Dismiss all" in an expanded incident.
DismissIncident ==
    /\ Panel /\ page.view = "grouped"
    /\ \E flags \in Incidents : Expanded(flags) /\ DismissOutliers(flags)

\* onRestoreAll
UndoAll ==
    /\ Panel /\ Live # page.anomalies
    /\ page' = [page EXCEPT !.dismissed = {}, !.hidden = {}]

OverviewNext ==
    /\ On("overview")
    /\ \/ LandAnomalies \/ FailAnomalies \/ OverviewRange
       \/ SelectMarker \/ ToggleRow \/ ToggleIncident \/ ViewToggle
       \/ DismissRow \/ DismissIncident \/ UndoAll

--------------------------------------------------------------------------------

\* The storage may be unavailable, for reading and for writing.
SetupInit ==
    {[name |-> "setup", space |-> s, open |-> FALSE, dismissed |-> {}, muted |-> {},
      stored |-> [w \in CheckSpaces |-> {}], storage |-> storage,
      silenced |-> [w \in CheckSpaces |-> {}]] :    \* history: checks muted in the storage
        s \in CheckSpaces, storage \in BOOLEAN}

\* The checks of SetupChecks; with none left the block is not there.
VisibleChecks == Checks \ (page.dismissed \cup page.muted)

\* readMuted, by a block that its key mounts anew for each workspace.
MountChecks ==
    \E s \in CheckSpaces :
       page' = [page EXCEPT !.space = s, !.open = FALSE, !.dismissed = {},
                            !.muted = page.stored[s]]

ReviewChecks == VisibleChecks # {} /\ page' = [page EXCEPT !.open = ~@]

DismissChecks ==
    /\ VisibleChecks # {}
    /\ \E codes \in {VisibleChecks} \cup (IF page.open THEN {{c} : c \in VisibleChecks} ELSE {}) :
          page' = [page EXCEPT !.dismissed = @ \cup codes]

\* A muted check stays muted for the session when the storage is unavailable.
MuteCheck ==
    /\ page.open
    /\ \E c \in VisibleChecks :
          LET next == page.muted \cup {c}
          IN  page' = [page EXCEPT
                 !.muted = next,
                 !.stored[page.space] = IF page.storage THEN next ELSE @,
                 !.silenced[page.space] = IF page.storage THEN @ \cup {c} ELSE @]

SetupNext == On("setup") /\ (MountChecks \/ ReviewChecks \/ DismissChecks \/ MuteCheck)

--------------------------------------------------------------------------------

\* No flag is lost among worse ones: the panel's incidents divide the live
\* anomalies by target and day, the worst incident first; and a chart carries
\* at most one marker per day and max overall, and what it leaves out on its
\* axis is no worse than what it shows (the comment on toChartMarkers).
FlagsShown ==
    On("overview") /\ Loaded =>
        LET incs == groupIncidents(Live)
        IN  /\ UNION Incidents = Live
            /\ \A i, j \in DOMAIN incs :
                  LET x == ToSet(incs[i].anomalies)
                      y == ToSet(incs[j].anomalies)
                  IN  /\ i # j => x \cap y = {}
                      /\ \A a \in x, b \in y :
                            i = j <=> a.workflow = b.workflow /\ a.day = b.day
                      /\ \A a \in x : incs[i].severity >= a.score
                      /\ incs[i].severity = incs[i].anomalies[1].score
                      /\ i < j => incs[i].severity >= incs[j].severity
            /\ \A metric \in {"cost", "error_rate"} :
                  LET shown == ToSet(Markers(metric))
                      left == {f \in Live : f.metric = metric /\ f.day \in page.axis} \ shown
                  IN  /\ Cardinality(shown) <= MaxMarkers
                      /\ \A a, b \in shown : a.day = b.day => a = b
                      /\ \A f \in left, m \in shown :
                            f.score <= m.score \/ \E o \in shown : o.day = f.day /\ o.score >= f.score
                      /\ \A f \in left :
                            Cardinality(shown) = MaxMarkers \/ \E o \in shown : o.day = f.day

\* What the user dismissed does not come back with the next answer, another
\* range or another view of the panel until "Undo all" restores it, and a check
\* muted for a workspace is not shown there again, whichever workspaces and
\* however many mounts come between.
DismissedStayHidden ==
    /\ On("overview") /\ Loaded => {anomalyKey(f) : f \in Live} \cap page.hidden = {}
    /\ On("setup") => VisibleChecks \cap page.silenced[page.space] = {}
================================================================================
