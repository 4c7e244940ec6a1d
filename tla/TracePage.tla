------------------------------- MODULE TracePage -------------------------------
(***************************************************************************)
(* The page of a trace: the outline that toTraceView makes of the spans    *)
(* and their parent links, which may lead to spans that are not there or   *)
(* round in a circle, and the timeline that folds it.  Spans are numbered  *)
(* in the order in which the API returns them, by start.  One of them may  *)
(* arrive late: the next fetch of the trace brings it, and the page keeps  *)
(* what was folded and selected.                                           *)
(***************************************************************************)
EXTENDS PageState, Integers, Sequences, SequencesExt, FiniteSets, FiniteSetsExt

CONSTANT MaxSpans    \* bound: spans of a trace

AllSpans == 1..MaxSpans

\* isRoot: the parent is unset or not among the spans.
Roots(t) == {s \in t.spans : t.parent[s] \notin t.spans}

ByStart(S) == SetToSortSeq(S, <)

childrenOf(t, s) == ByStart({c \in t.spans \ Roots(t) : t.parent[c] = s})

--------------------------------------------------------------------------------

SeenSpans(ordered) == {ordered[i].span : i \in DOMAIN ordered}

\* visit, for each of a group of spans and then for their children.
VisitEach(t, group, depth, ordered) ==
    LET visit[g \in Seq(AllSpans), d \in Nat, rows \in Seq([span : AllSpans, depth : Nat])] ==
            IF g = <<>> THEN rows
            ELSE LET s == Head(g)
                     after == IF s \in SeenSpans(rows) THEN rows
                              ELSE visit[childrenOf(t, s), d + 1,
                                         Append(rows, [span |-> s, depth |-> d])]
                 IN  visit[Tail(g), d, after]
    IN  visit[group, depth, ordered]

OrderedByStart(t) == VisitEach(t, ByStart(t.spans), 0, <<>>)

\* The outline: the trees of the roots, then those of the spans in a circle.
Ordered(t) == VisitEach(t, ByStart(t.spans), 0, VisitEach(t, ByStart(Roots(t)), 0, <<>>))

isParentSpan(t, s) == childrenOf(t, s) # <<>>

\* The rows of the timeline: a folded row hides the deeper rows that follow.
visibleSpans(t, outline, collapsed) ==
    LET Step(acc, row) ==
            IF acc.hideBelow # None /\ row.depth > acc.hideBelow THEN acc
            ELSE [rows |-> acc.rows \cup {row.span},
                  hideBelow |-> IF row.span \in collapsed /\ isParentSpan(t, row.span)
                                THEN row.depth ELSE None]
    IN  FoldLeft(Step, [rows |-> {}, hideBelow |-> None], outline).rows

\* The rows above row i that are shallower than every row in between.
AncestorsDirect(outline, i) ==
    {outline[j].span : j \in {j \in 1..(i - 1) : outline[j].depth = outline[i].depth - 1}}

Ancestors(outline, i) ==
    {outline[j].span : j \in {j \in 1..(i - 1) :
        \A k \in (j + 1)..i : outline[j].depth < outline[k].depth}}

firstFailed(t, outline) ==
    LET failed == {i \in DOMAIN outline : outline[i].span \in t.failed}
    IN  IF failed = {} THEN None ELSE outline[Min(failed)].span

TraceMounted(parent, late, failed) ==
    LET t == [spans |-> AllSpans \ late, parent |-> parent, failed |-> failed]
        outline == Ordered(t)
        first == firstFailed(t, outline)
    IN  [name |-> "trace", trace |-> t, late |-> late,
         outline |-> outline,       \* t.spans of TraceView
         active |-> IF first # None THEN first ELSE outline[1].span,
         tab |-> "timeline",
         collapsed |-> {},
         revealed |-> FALSE]        \* history: nothing was folded since the jump

\* A trace with some failed span and at most one that is late.
TraceInit ==
    {TraceMounted(parent, late, failed) :
        parent \in [AllSpans -> {0} \cup AllSpans],
        late \in {{}} \cup {{s} : s \in AllSpans},
        failed \in {{}} \cup {{s} : s \in AllSpans}}

--------------------------------------------------------------------------------

VisibleRows == visibleSpans(page.trace, page.outline, page.collapsed)

SelectSpan ==
    /\ page.tab = "timeline"
    /\ \E s \in VisibleRows : page' = [page EXCEPT !.active = s, !.revealed = FALSE]

toggleCollapse ==
    /\ page.tab = "timeline"
    /\ \E s \in VisibleRows :
          /\ isParentSpan(page.trace, s)
          /\ page' = [page EXCEPT !.collapsed = SymDiff(@, {s}), !.revealed = FALSE]

Tabs == {"timeline", "input", "output", "metadata", "raw"}

SetTab == \E tab \in Tabs : page' = [page EXCEPT !.tab = tab, !.revealed = FALSE]

\* revealSpan, for the button of the error banner.
JumpToFailing ==
    LET f == firstFailed(page.trace, page.outline)
        i == CHOOSE i \in DOMAIN page.outline : page.outline[i].span = f
    IN  /\ f # None
        /\ page' = [page EXCEPT !.collapsed = @ \ Ancestors(page.outline, i),
                                !.active = f, !.tab = "timeline", !.revealed = TRUE]

\* The trace is fetched again and is complete.
RefetchTrace ==
    LET t == [page.trace EXCEPT !.spans = AllSpans]
    IN  /\ page.late # {}
        /\ page' = [page EXCEPT !.trace = t, !.late = {}, !.outline = Ordered(t),
                                !.revealed = FALSE]

TraceNext ==
    /\ On("trace")
    /\ SelectSpan \/ toggleCollapse \/ SetTab \/ JumpToFailing \/ RefetchTrace

--------------------------------------------------------------------------------

\* The spans that at most n parent links lead to from s.
Above(t, s, n) ==
    LET above[r \in AllSpans, k \in Nat] ==
            IF k = 0 \/ r \in Roots(t) THEN {}
            ELSE {t.parent[r]} \cup above[t.parent[r], k - 1]
    IN  above[s, n]

LeadsToCircle(t, s) == ({s} \cup Above(t, s, MaxSpans)) \cap Roots(t) = {}

DepthOf(s) == page.outline[CHOOSE i \in DOMAIN page.outline : page.outline[i].span = s].depth

\* toTraceView lists every span once and every parent immediately above its
\* children (its comment): the row above that is one level up is the parent,
\* siblings are in the order of their start, and only a span without a parent
\* here, or one whose parent links lead into a circle, starts a tree.
OutlineIsForest ==
    On("trace") =>
        LET rows == page.outline
            t == page.trace
        IN  /\ Len(rows) = Cardinality(t.spans) /\ SeenSpans(rows) = t.spans
            /\ \A i \in DOMAIN rows :
                  IF rows[i].depth = 0
                  THEN rows[i].span \in Roots(t) \/ LeadsToCircle(t, rows[i].span)
                  ELSE \E j \in 1..(i - 1) :
                          /\ rows[j].span = t.parent[rows[i].span]
                          /\ rows[j].depth = rows[i].depth - 1
                          /\ \A k \in (j + 1)..(i - 1) :
                                /\ rows[k].depth >= rows[i].depth
                                /\ rows[k].depth = rows[i].depth => rows[k].span < rows[i].span

\* Folding hides the spans below and nothing else, and "Jump to failing span"
\* shows the span it selects, however its ancestors were folded: found by
\* parent links here, by depth alone in TraceView.
FoldingHidesSubtrees ==
    On("trace") =>
        /\ VisibleRows =
              {s \in page.trace.spans : Above(page.trace, s, DepthOf(s)) \cap page.collapsed = {}}
        /\ page.revealed => page.active \in VisibleRows /\ page.tab = "timeline"
================================================================================
