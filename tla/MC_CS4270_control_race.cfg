\* A mixer control put may run while hw_params is between its read and
\* its write of a register.
CONSTANTS
    VD33_ERRATA = FALSE
    MCLKS <- MC_MCLKS
    RATES <- MC_RATES
    CONTROLS <- MC_CONTROLS
    CHIP_ID <- MC_CHIP_ID
    MaxProbes = 1
    MaxSuspends = 2
    CONCURRENT = TRUE
    IoFaults = FALSE
    HostFaults = FALSE
    PowerLoss = FALSE
    MachineMasters <- MC_ALL_MASTERS
    FmtFirst = FALSE
SPECIFICATION Spec
INVARIANT ControlsPreserved
