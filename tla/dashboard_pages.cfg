SPECIFICATION Spec
CONSTANTS
    None = None
    Workflows = {"support"}
    Versions = {"v1", "v2"}
    Traces = {"t1"}
    Clients = {"acme"}
    Pages = {"extension:billing"}
    Matches <- SomeMatches
    MaxEntries = 3
    Joined = 2
    Owned = {1}
    MaxCreates = 1
    KeyWorkspaces = {"w1", "w2"}
    MaxKeys = 2
    People = {"ann"}
    MaxLinks = 2
    MaxActs = 1
    MaxSpans = 3
    Days = {1, 2}
    MaxFlags = 3
    MaxMarkers = 1
    Checks = {"no_llm_spans", "unmetered"}
    CheckSpaces = {"w1", "w2"}
    ReleaseDays = {0, 1, 2}
    Releases = {"v1", "v2", "v3"}
    ChartMetrics = {"runs", "cost", "cpr", "p95"}
    MaxKept = 2
    UsageSpaces = {"w1", "w2"}
    Attributes = {"region", "team"}
    MaxAttributes = 2
    Customers = {"acme"}
    TableRows = {1, 2, 3}
    MaxCost = 3
    MaxReads = 3
    Spans = {1, 3}
    Instants = {6, 9}
    MaxTicks = 25
INVARIANTS
    TypeOK HistoryTellsView    SecretsOnScreen
    OutlineIsForest FoldingHidesSubtrees   
