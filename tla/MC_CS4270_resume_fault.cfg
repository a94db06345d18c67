\* The supply domain may drop during suspend and an I2C write may fail
\* during the cache sync of resume.
CONSTANTS
    VD33_ERRATA = FALSE
    MCLKS <- MC_MCLKS
    RATES <- MC_RATES
    CONTROLS <- MC_CONTROLS
    CHIP_ID <- MC_CHIP_ID
    MaxProbes = 1
    MaxSuspends = 2
    CONCURRENT = FALSE
    IoFaults = TRUE
    HostFaults = FALSE
    PowerLoss = TRUE
    MachineMasters <- MC_ALL_MASTERS
    FmtFirst = FALSE
SPECIFICATION Spec
INVARIANT CacheCoherent
