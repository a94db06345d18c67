\* Stream, control and lifecycle paths serialised, no I/O or host faults,
\* the codec's supply domain may drop while disabled.
CONSTANTS
    VD33_ERRATA = FALSE
    MCLKS <- MC_MCLKS
    RATES <- MC_RATES
    CONTROLS <- MC_CONTROLS
    CHIP_ID <- MC_CHIP_ID
    MaxProbes = 1
    MaxSuspends = 2
    CONCURRENT = FALSE
    IoFaults = FALSE
    HostFaults = FALSE
    PowerLoss = TRUE
    MachineMasters <- MC_ALL_MASTERS
    FmtFirst = FALSE
SPECIFICATION Spec
INVARIANTS TypeOK CacheCoherent ManualMuteHonoured ControlsPreserved SupplyRefBalanced
PROPERTIES HwParamsProgramsRatio
