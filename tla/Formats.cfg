CONSTANTS
    Tables <- MCTables
    FormatLists <- MCFormatLists
    Descriptors <- MCDescriptors
    Channel <- MCChannel
    Batch = 2
    SingleBits = 5
    MaxExponent = 16
    One = 64
    Digit = 4
    NaN = NaN
    None = None
\* A run ends with its last format, or where an exporter refuses.
CHECK_DEADLOCK FALSE
SPECIFICATION Spec
INVARIANTS
    EveryFormatHoldsTheTable
    Hdf5HoldsTheTable
    InspectionMatchesTheTable
    TimesSurvive
    DerivedStaysInItsCluster
