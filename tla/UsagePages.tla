------------------------------- MODULE UsagePages ------------------------------
(***************************************************************************)
(* The pages of usage.  "usage" is the breakdown by a custom attribute,    *)
(* whose keys and rows are two queries in a row and which a long range     *)
(* does not have; "client" is the page of one client; "table" is a table   *)
(* of clients, workflows or attribute values that the user sorts and       *)
(* filters, with the rows that make up most of the spend marked.           *)
(***************************************************************************)
EXTENDS PageState, Integers, Sequences, SequencesExt, FiniteSets, FiniteSetsExt, Functions

CONSTANTS
    UsageSpaces,      \* workspaces
    Attributes,       \* keys of custom attributes
    MaxAttributes,    \* bound: keys of a workspace
    Customers,        \* user ids
    TableRows,        \* rows of a table, in the order of their names
    MaxCost,          \* bound: cost of a row
    MaxReads          \* bound: results in the query cache

--------------------------------------------------------------------------------

\* The attribute keys that each workspace sent, in the order of the API.
KeyLists == {ks \in SeqOf(Attributes, MaxAttributes) : IsInjective(ks)}

UsageMounted(ks, s) ==
    [name |-> "usage", keysOf |-> ks, space |-> s, long |-> FALSE,
     tab |-> "user", attrKey |-> "", sortBy |-> "cost", read |-> {}]

UsageInit == {UsageMounted(ks, s) : ks \in [UsageSpaces -> KeyLists], s \in UsageSpaces}

KeysQuery(p) == [space |-> p.space, long |-> p.long, attr |-> ""]

\* attrKeys is disabled over a long range.
attributeKeys == IF KeysQuery(page) \in page.read THEN page.keysOf[page.space] ELSE <<>>

activeAttr ==
    IF page.attrKey \in ToSet(attributeKeys) THEN page.attrKey
    ELSE IF attributeKeys # <<>> THEN Head(attributeKeys) ELSE ""

UsageView == IF page.tab = "attribute" /\ page.long THEN "user" ELSE page.tab

\* attrUsage, and whether it is enabled.
UsageQuery == [KeysQuery(page) EXCEPT !.attr = IF UsageView = "attribute" THEN activeAttr ELSE ""]
UsageEnabled == UsageQuery.attr # ""

UsageRange == page' = [page EXCEPT !.long = ~@]

UsageSpace == \E s \in UsageSpaces : page' = [page EXCEPT !.space = s]

handleTabChange ==
    \E t \in {"user", "workflow"} : page' = [page EXCEPT !.tab = t, !.sortBy = "cost"]

\* AttributeTab, which is there when the range has keys.
handleAttrSelect ==
    \E k \in ToSet(attributeKeys) :
       page' = [page EXCEPT !.attrKey = k, !.tab = "attribute", !.sortBy = "cost"]

SortUsage == \E k \in {"cost", "runs"} : page' = [page EXCEPT !.sortBy = k]

LandUsage ==
    /\ Cardinality(page.read) < MaxReads
    /\ \E q \in (IF page.long THEN {} ELSE {KeysQuery(page)})
                 \cup (IF UsageEnabled THEN {UsageQuery} ELSE {}) :
          page' = [page EXCEPT !.read = @ \cup {q}]

DropUsage == \E q \in page.read \ {KeysQuery(page), UsageQuery} : page' = [page EXCEPT !.read = @ \ {q}]

UsageNext ==
    /\ On("usage")
    /\ \/ UsageRange \/ UsageSpace \/ handleTabChange \/ handleAttrSelect \/ SortUsage
       \/ LandUsage \/ DropUsage

--------------------------------------------------------------------------------

\* The user ids in the address of a client's page, which may be missing.
UserIds == Customers \cup {""}

ClientMounted(s, u) == [name |-> "client", space |-> s, range |-> "7d", user |-> u, read |-> {}]

ClientInit == {ClientMounted(s, u) : s \in UsageSpaces, u \in UserIds}

\* The sections' queries.  Without a user the server would answer for the
\* whole workspace.
ClientQuery == [space |-> page.space, range |-> page.range, user |-> page.user]

\* The workspace, the range or, by the browser's history, the client changes.
ClientTurns ==
    \E s \in UsageSpaces, r \in {"7d", "1y"}, u \in UserIds :
       page' = [page EXCEPT !.space = s, !.range = r, !.user = u]

LandClient ==
    /\ page.user # ""                              \* enabled: !!userId
    /\ Cardinality(page.read) < MaxReads
    /\ page' = [page EXCEPT !.read = @ \cup {ClientQuery}]

DropClient == \E q \in page.read \ {ClientQuery} : page' = [page EXCEPT !.read = @ \ {q}]

ClientNext == On("client") /\ (ClientTurns \/ LandClient \/ DropClient)

--------------------------------------------------------------------------------

SortKeys == {"name", "cost", "runs"}

\* A Breakdown, the list of clients or of workflows, or the workflows of a client
\* in the preview.
TableInit ==
    {[name |-> "table", rows |-> rows, kind |-> kind,
      sortKey |-> IF kind = "workflows" THEN "runs" ELSE "cost", sortDir |-> "desc",
      matching |-> DOMAIN rows] :
        rows \in [TableRows -> [cost : 0..MaxCost, runs : 0..1]],
        kind \in {"breakdown", "clients", "workflows", "preview"}}

Value(r, key) == IF key = "name" THEN r ELSE page.rows[r][key]

\* A Breakdown sorts names up and numbers down.
Direction ==
    IF page.kind # "breakdown" THEN page.sortDir
    ELSE IF page.sortKey = "name" THEN "asc" ELSE "desc"

\* The rows on the screen; which of two level rows is first is left open.
Sorted ==
    LET Before(a, b) == IF Direction = "asc" THEN Value(a, page.sortKey) < Value(b, page.sortKey)
                        ELSE Value(a, page.sortKey) > Value(b, page.sortKey)
    IN  SetToSortSeq(page.matching, Before)

sumCost(rows) == FoldFunction(LAMBDA r, sum : r.cost + sum, 0, rows)

\* top75Set: by falling cost until three quarters of the total are reached.
Top75(rows) ==
    LET Before(a, b) == rows[a].cost > rows[b].cost
        Step(acc, r) ==
            IF 4 * acc.cum >= 3 * sumCost(rows) THEN acc
            ELSE [cum |-> acc.cum + rows[r].cost, top |-> acc.top \cup {r}]
    IN  FoldLeft(Step, [cum |-> 0, top |-> {}], SetToSortSeq(DOMAIN rows, Before)).top

\* topVolume and topCost: the first row that no row exceeds.
TopRow(key) ==
    LET Step(m, r) == IF m = None THEN r ELSE IF Value(r, key) > Value(m, key) THEN r ELSE m
    IN  FoldLeft(Step, None, SetToSortSeq(TableRows, <))

\* The column that is sorted by turns around, another one starts downwards.
toggleSort(k) ==
    page' = [page EXCEPT !.sortKey = k,
                         !.sortDir = IF page.sortKey = k /\ @ = "desc" THEN "asc" ELSE "desc"]

SortWorkflows == page.kind = "workflows" /\ \E k \in SortKeys : toggleSort(k)

SortClients == page.kind = "clients" /\ \E k \in SortKeys : toggleSort(k)

SortPreview == page.kind = "preview" /\ \E k \in SortKeys : toggleSort(k)

setSortBy == page.kind = "breakdown" /\ \E k \in SortKeys : page' = [page EXCEPT !.sortKey = k]

\* The rows whose name matches the search of a list.
SearchWorkflows ==
    /\ page.kind = "workflows"
    /\ \E m \in SUBSET TableRows : page' = [page EXCEPT !.matching = m]

SearchClients ==
    /\ page.kind = "clients"
    /\ \E m \in SUBSET TableRows : page' = [page EXCEPT !.matching = m]

TableNext ==
    /\ On("table")
    /\ \/ SortWorkflows \/ SortClients \/ SortPreview \/ setSortBy
       \/ SearchWorkflows \/ SearchClients

--------------------------------------------------------------------------------

\* A breakdown is read by an attribute that this workspace has, however the
\* workspace changes under a chosen one, and never over a long range, where
\* "the server rejects long ranges" (useUsage); and no number on a client's page
\* is the whole workspace's: "every query waits for a client id"
\* (useClientDetail).
UsageNumbers ==
    /\ On("usage") =>
          /\ \A q \in page.read : ~q.long
          /\ \A q \in page.read : q.attr # "" => q.attr \in ToSet(page.keysOf[q.space])
          /\ UsageView = "attribute" => ~page.long
    /\ On("client") => \A q \in page.read : q.user # ""

\* A table lists the matching rows in the order of its header, whatever was
\* sorted by before, and "Dot marks the top 75% of spend" (UsageLivePage): the
\* marked rows make up three quarters of it, none costs less than a row
\* without a mark, and none can be spared.  The tiles above the workflows name
\* one with the most runs and one with the highest cost, whatever the list is
\* filtered by.
TopSpendMarked ==
    On("table") =>
        LET top == Top75(page.rows)
            Cost(S) == sumCost([r \in S |-> page.rows[r]])
        IN  /\ ToSet(Sorted) = page.matching /\ IsInjective(Sorted)
            /\ \A i, j \in DOMAIN Sorted :
                  i < j => LET a == Value(Sorted[i], page.sortKey)
                               b == Value(Sorted[j], page.sortKey)
                           IN  IF Direction = "asc" THEN a <= b ELSE a >= b
            /\ 4 * Cost(top) >= 3 * Cost(TableRows)
            /\ \A key \in {"runs", "cost"} : \A r \in TableRows : Value(r, key) <= Value(TopRow(key), key)
            /\ \A r \in top :
                  /\ \A s \in TableRows \ top : page.rows[r].cost >= page.rows[s].cost
                  /\ 4 * Cost(top \ {r}) < 3 * Cost(TableRows)
================================================================================
