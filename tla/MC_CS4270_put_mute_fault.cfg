\* An I2C transfer may fail; no host faults, the supply domain stays up,
\* paths serialised.
CONSTANTS
    VD33_ERRATA = FALSE
    MCLKS <- MC_MCLKS
    RATES <- MC_RATES
    CONTROLS <- MC_CONTROLS
    CHIP_ID <- MC_CHIP_ID
    MaxProbes = 1
    MaxSuspends = 1
    CONCURRENT = FALSE
    IoFaults = TRUE
    HostFaults = FALSE
    PowerLoss = FALSE
    MachineMasters <- MC_ALL_MASTERS
    FmtFirst = FALSE
SPECIFICATION Spec
INVARIANT ManualMuteHonoured
