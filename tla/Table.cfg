CONSTANTS
    HardFail <- MCHardFail
    Release <- MCRelease
    Certified <- MCCertified
    RequireSigned = TRUE
    NaN = NaN
    NoConf = NoConf
    Requests <- MCRequests
    Anchors <- MCAnchors
    Rates = {1, 2, 3}
    None = None
\* One call of run() ends.
CHECK_DEADLOCK FALSE
SPECIFICATION SubframeSpec
INVARIANTS
    TypeOK
    NothingIsInvented
    PublishableTableIsHonest
    BurstsKeepToTheirFrame
