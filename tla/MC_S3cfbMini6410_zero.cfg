\* Panels with a porch or sync width of 0.
CONSTANTS
    PANELS <- MC_PANELS_ZERO
    BUILDS <- MC_BUILDS
    S3CFB_VIDCON1 <- MC_VIDCON1
SPECIFICATION Spec
CHECK_DEADLOCK FALSE
INVARIANTS FimdScansReportedTiming
