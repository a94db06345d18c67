\* Every build, panels whose timings lie within the FIMD's field ranges.
\* s3cfb_init_hw runs once at boot, so the system stops after it.
CONSTANTS
    PANELS <- MC_PANELS
    BUILDS <- MC_BUILDS
    S3CFB_VIDCON1 <- MC_VIDCON1
SPECIFICATION Spec
CHECK_DEADLOCK FALSE
INVARIANTS TypeOK FimdScansReportedTiming OsdWindowsCoverScreen
