CONSTANTS
    Runs = {r1, r2}
    Readers = {i1}
    Inputs <- MCInputs
    WithSession <- MCWithSession
    Data = {"table1", "table2"}
    DataOf <- MCDataOf
    Formats <- MCAllFormats
    FilesOf <- MCAllFiles
    Silver <- SilverPath
    GoldPaths <- MCAllPaths
    KindOf <- MCAllKinds
    Requests <- MCBuilds
    Verdicts <- MCVerdicts
    VerdictOf <- MCVerdictOf
    Serialised = TRUE
    Absent = Absent
    NoDoc = NoDoc
    Torn = Torn
\* Every invocation has its turn and the system stops.
CHECK_DEADLOCK FALSE
SPECIFICATION InspectSpec
INVARIANTS
    CompletedPackageIsOwn
    RebuildIsReproducible
    CalmSummaryIsOfTheLastRun
    DiffTellsBuildsApart
