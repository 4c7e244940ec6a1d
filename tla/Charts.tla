--------------------------------- MODULE Charts --------------------------------
(***************************************************************************)
(* A chart of a page, under a pointer.  "cost", "latency" and "errors" are *)
(* CostBarChart, LatencyChart and HorizonStrip, "daily" and "tokens" the   *)
(* charts of usage and "versions" the chart of a comparison.  A chart of   *)
(* the "detail" and compare pages stays mounted while another range loads, *)
(* the one of a "section" does not.  Time is in half buckets.              *)
(***************************************************************************)
EXTENDS PageState, Integers, Sequences, SequencesExt, FiniteSets, FiniteSetsExt

CONSTANTS
    Spans,         \* lengths of the ranges, in buckets
    Instants,      \* when the server answers
    MaxTicks       \* bound: buckets of an axis

\* The grid of a window that ends now: a bucket more than its length, unless
\* it ends where a bucket does.
bucketAxis(now, span) ==
    LET base == 2 * ((now - 2 * span) \div 2)
        n == Max({1, (now - base + 1) \div 2})
    IN  [i \in 1..n |-> base + 2 * (i - 1)]

Buckets == UNION {ToSet(bucketAxis(now, span)) : now \in Instants, span \in Spans}

\* axis has the starts of the buckets of the series, errs those of the error
\* series, which supplies the number of runs; either is <<>> while it loads.
\* There were runs in the buckets of busy.
ChartInit ==
    {[name |-> "chart", kind |-> c[1], host |-> c[2], busy |-> b, span |-> s,
      axis |-> <<>>, errs |-> <<>>, hover |-> None, failed |-> FALSE] :
        c \in {"cost", "latency", "errors"} \X {"section", "detail"}
                \cup {<<"daily", "section">>, <<"tokens", "section">>, <<"versions", "detail">>},
        b \in SUBSET Buckets, s \in Spans}

RunsIn(p, at) == IF at \in p.busy THEN at + 1 ELSE 0

\* The runs of each bucket, looked up by its time in another query's answer.
toDailySeries(p) ==
    [i \in DOMAIN p.axis |-> IF p.axis[i] \in ToSet(p.errs) THEN RunsIn(p, p.axis[i]) ELSE 0]

\* A bucket of a version without runs has no value.
seriesFor(p) == [i \in DOMAIN p.axis |-> IF toDailySeries(p)[i] = 0 THEN None ELSE toDailySeries(p)[i]]

toLatencyPoints(p) == [i \in DOMAIN p.axis |-> IF p.axis[i] \in p.busy THEN p.axis[i] ELSE None]

\* The line of a chart whose buckets may be empty.
Line(p) == IF p.kind = "latency" THEN toLatencyPoints(p) ELSE seriesFor(p)

\* The runs of buckets in a row that have a value.
segmentsOf(line) ==
    LET Step(acc, i) ==
            IF line[i] # None THEN [acc EXCEPT !.seg = Append(@, i)]
            ELSE [segs |-> IF acc.seg = <<>> THEN acc.segs ELSE Append(acc.segs, acc.seg),
                  seg |-> <<>>]
        end == FoldLeft(Step, [segs |-> <<>>, seg |-> <<>>], [i \in DOMAIN line |-> i])
    IN  IF end.seg = <<>> THEN end.segs ELSE Append(end.segs, end.seg)

\* The buckets drawn as a dot.
isolatedPoints(line) == {Head(s) : s \in {s \in ToSet(segmentsOf(line)) : Len(s) = 1}}

\* The letter of each bucket in the path of a version: the pen is up after a
\* bucket without a value.
VersionPath(line) ==
    LET Step(acc, i) ==
            IF line[i] = None THEN [acc EXCEPT !.pen = FALSE, !.d = Append(@, "")]
            ELSE [pen |-> TRUE, d |-> Append(acc.d, IF acc.pen THEN "L" ELSE "M")]
    IN  FoldLeft(Step, [pen |-> FALSE, d |-> <<>>], [i \in DOMAIN line |-> i]).d

\* The buckets with a label on the axis: five, evenly spaced and rounded.
tickIndices(n) ==
    IF n <= 1 THEN {0} ELSE {((n - 1) * quarter + 2) \div 4 : quarter \in 0..4}

--------------------------------------------------------------------------------

Joins(p) == p.kind \in {"daily", "tokens", "versions"}

\* A Section shows its children once its queries have data.
OnScreen(p) ==
    \/ p.host = "detail"
    \/ p.axis # <<>> /\ (Joins(p) => p.errs # <<>>)

\* The bucket under the pointer: after a shorter series landed there may be none.
Hovered(p) == IF p.hover \in DOMAIN p.axis THEN p.axis[p.hover] ELSE None

Tip(at, tells, throws) == [at |-> at, tells |-> tells, throws |-> throws]

\* These charts read the hovered bucket outside of their list of buckets, which
\* throws when there is none.
CostTooltip(p) == Tip(Hovered(p), Hovered(p), Hovered(p) = None)

LatencyTooltip(p) ==
    Tip(Hovered(p), IF Hovered(p) = None THEN None ELSE Line(p)[p.hover], Hovered(p) = None)

StripTooltip(p) ==
    Tip(Hovered(p), IF Hovered(p) = None THEN None ELSE RunsIn(p, Hovered(p)), Hovered(p) = None)

\* A tooltip without numbers when there is no such bucket.
VersionTooltip(p) ==
    Tip(Hovered(p), IF Hovered(p) = None THEN None ELSE Line(p)[p.hover], FALSE)

\* The tooltip is part of its bucket.
DailyTooltip(p) ==
    IF Hovered(p) = None THEN None ELSE Tip(Hovered(p), toDailySeries(p)[p.hover], FALSE)

TokenTooltip(p) ==
    IF Hovered(p) = None THEN None ELSE Tip(Hovered(p), toDailySeries(p)[p.hover], FALSE)

Tooltip(p) ==
    IF p.hover = None \/ ~OnScreen(p) THEN None
    ELSE CASE p.kind = "cost" -> CostTooltip(p)
           [] p.kind = "latency" -> LatencyTooltip(p)
           [] p.kind = "errors" -> StripTooltip(p)
           [] p.kind = "versions" -> VersionTooltip(p)
           [] p.kind = "daily" -> DailyTooltip(p)
           [] p.kind = "tokens" -> TokenTooltip(p)

\* A render: the pointer is forgotten with the chart, and a tooltip that throws
\* leaves the view to the error boundary.
Drawing(p) ==
    IF OnScreen(p) THEN [p EXCEPT !.failed = Tooltip(p) # None /\ Tooltip(p).throws]
    ELSE [p EXCEPT !.hover = None]

\* The pointer enters a bucket, leaves the chart.
EnterBucket ==
    /\ OnScreen(page)
    /\ \E i \in DOMAIN page.axis : page' = Drawing([page EXCEPT !.hover = i])

LeaveChart == page.hover # None /\ page' = [page EXCEPT !.hover = None]

\* Another range.  Its series is in the cache, or the previous one stays on a
\* detail page and makes room for a spinner in a section.
ChartRange ==
    \E s \in Spans :
       /\ s # page.span
       /\ \/ page.host = "detail" /\ page' = [page EXCEPT !.span = s]
          \/ page.host = "section"
             /\ page' = Drawing([page EXCEPT !.span = s, !.axis = <<>>, !.errs = <<>>])
          \/ \E now \in Instants :
                page' = Drawing([page EXCEPT !.span = s, !.axis = bucketAxis(now, s),
                                             !.errs = IF Joins(page) THEN bucketAxis(now, s) ELSE <<>>])

\* An answer, of the first fetch of a range or of a refetch.
LandChart ==
    \E now \in Instants :
       LET axis == bucketAxis(now, page.span)
       IN  \/ page' = Drawing([page EXCEPT !.axis = axis])
           \/ Joins(page) /\ page' = Drawing([page EXCEPT !.errs = axis])

\* The boundary is keyed by the view: opening it again mounts the page.
OpenViewAgain ==
    page' = [page EXCEPT !.failed = FALSE, !.hover = None, !.axis = <<>>, !.errs = <<>>]

ChartNext ==
    /\ On("chart")
    /\ \/ ~page.failed /\ (EnterBucket \/ LeaveChart \/ ChartRange \/ LandChart)
       \/ page.failed /\ OpenViewAgain

--------------------------------------------------------------------------------

\* A line connects exactly the buckets next to each other that have a value,
\* "so the chart shows a real gap", and a bucket between two gaps is drawn as a
\* dot, "to keep the point visible" (LatencyChart), in whatever buckets there
\* were runs; the path of a version lifts its pen at the same gaps.
LinesShowGaps ==
    On("chart") /\ page.kind \in {"latency", "versions"} =>
        LET line == Line(page)
            segs == segmentsOf(line)
            Filled == {i \in DOMAIN line : line[i] # None}
        IN  /\ FlattenSeq(segs) = SetToSortSeq(Filled, <)
            /\ \A i, j \in Filled :
                  j = i + 1 <=> \E s \in ToSet(segs) : \E k \in 2..Len(s) : s[k - 1] = i /\ s[k] = j
            /\ isolatedPoints(line) = {i \in Filled : i - 1 \notin Filled /\ i + 1 \notin Filled}
            /\ \A i \in DOMAIN line :
                  VersionPath(line)[i] = "M" <=> i \in Filled /\ i - 1 \notin Filled

\* A tooltip tells the numbers of the bucket it stands over, though the runs
\* come from another query, whose window may have moved on: they are that
\* bucket's own, or missing.  And the labels of an axis are of different buckets,
\* from its first to its last (axis.ts).
TooltipsTellBucket ==
    On("chart") =>
        /\ LET tip == Tooltip(page)
           IN  tip # None /\ page.kind \in {"errors", "daily", "tokens", "versions"} =>
                  tip.tells \in {None, 0} \/ tip.tells = RunsIn(page, page.axis[page.hover])
        /\ page.kind = "daily" => \A n \in 1..MaxTicks :
              LET ticks == tickIndices(n)
              IN  {0, n - 1} \subseteq ticks /\ ticks \subseteq 0..(n - 1)
                    /\ Cardinality(ticks) = Min({n, 5})
================================================================================
