SPECIFICATION MCSpec
CONSTANTS
    \* approvals
    Findings = {f1, f2}
    Admins = {x1, x2}
    MaxRows = 2
    Budget = 1
    \* analysis
    Worker = w1
    Clients = {}
    Batch = 2
    Mode = "assisted"
    Protected = {f2}
    MaxChanges = 1
    MaxFailures = 1
    \* bundle
    Builders = {x1, x2}
    MaxCveRev = 1
    BundleFaults = 1
    \* findings
    Cves = {cve1}
    Libraries = {l1}
    Runtimes = {r1}
    Sources = {osv, nvd}
    MatchSources = {osv}
    Nvd = nvd
    About <- MCAbout
    MaxImports = 2
    MaxReports = 1
    MaxHostScans = 2
    MaxPackages = 1
    MatchFaults = 1
    \* versions
    Versions <- MCVersions
    \* matching
    Entries <- SomeEntries
    MaxUpserts = 1
    Intervals <- SomeIntervals
    NvdProducts <- SomeNvd
    Installed <- SomeInstalled
    \* stats
    StatsClients = {c1}
    Importers = {i1}
    Refresher = refresher
    MaxCommits = 1
    \* migrations
    Instances = {"old", "new"}
    Knows <- MCKnows
    Edited = {"new"}
    Inspected = 2
    MigrationFaults = 2
    \* tokens
    Bearers = {x1, x2}
    JWTs <- SomeJWTs
    KeyIds = {1, 2}
    KeysTTL = 1
    FetchTime = 1
    Leeway = 0
    MaxTime = 3
    \* scans
    MatchCalls = {x1, x2}
    PackageLists <- SomeLists
    Permits = 1
SYMMETRY Alike
INVARIANTS SilencingIsExplained ApprovedOnce RowShowsTheAction CacheIsSound  OrderIsTotal  RangesMeanIntervals StatsCacheIsSound MigrationsAreSound WithdrawnKeysEnd MatchIsAccountedFor
CHECK_DEADLOCK FALSE
