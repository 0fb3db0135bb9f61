CONSTANTS
    HardFail <- MCHardFail
    Release <- MCRelease
    Certified <- MCCertified
    RequireSigned = TRUE
    NaN = NaN
    NoConf = NoConf
    Requests <- MCRequests
\* One call of run() ends.
CHECK_DEADLOCK FALSE
SPECIFICATION Spec
INVARIANT
    ShapeMismatchIsGated
