\* The card may be unbound and bound again, and the driver module
\* unloaded and reloaded; paths serialised, no I/O faults, the supply
\* domain may drop while disabled.
CONSTANTS
    VD33_ERRATA = FALSE
    MCLKS <- MC_MCLKS
    RATES <- MC_RATES
    CONTROLS <- MC_CONTROLS
    CHIP_ID <- MC_CHIP_ID
    MaxProbes = 2
    MaxSuspends = 2
    CONCURRENT = FALSE
    IoFaults = FALSE
    HostFaults = FALSE
    PowerLoss = TRUE
    MachineMasters <- MC_ALL_MASTERS
    FmtFirst = FALSE
SPECIFICATION Spec
INVARIANTS CacheCoherent
