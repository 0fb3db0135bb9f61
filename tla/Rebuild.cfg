CONSTANTS
    Runs = {r1, r2}
    Inputs <- MCInputs
    WithSession <- MCWithSession
    Data = {"table1", "table2"}
    DataOf <- MCDataOf
    Formats <- MCFormats
    FilesOf <- MCFilesOf
    Silver <- SilverPath
    GoldPaths <- MCGoldPaths
    KindOf <- MCKindOf
    Requests <- MCRequests
    Verdicts <- MCVerdicts
    VerdictOf <- MCVerdictOf
    Serialised = TRUE
    Absent = Absent
    NoDoc = NoDoc
    Torn = Torn
\* Every invocation has its turn and the system stops.
CHECK_DEADLOCK FALSE
SPECIFICATION FairSpec
INVARIANTS
    TypeOK
    VerifiedPackageIsCoherent
    CompletedPackageIsOwn
    RebuildIsReproducible
    RecordsFollowTheRequest
PROPERTIES
    EveryRunEnds
    PublicationPromise
