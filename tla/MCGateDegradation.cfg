\* A state whose metrics hold a NaN has no worse state: it may stop there.
CONSTANTS
    HardFail <- MCHardFail
    Release <- MCRelease
    Certified <- MCCertified
    RequireSigned = TRUE
    NaN = NaN
    Universe <- MCUniverse
SPECIFICATION Spec
INVARIANTS
    VerdictWithinCeiling
    PublishedEvidenceIsSound
PROPERTY
    GateIsMonotone
CHECK_DEADLOCK FALSE
