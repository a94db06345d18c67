\* A sample rate 12.288 MHz is not a multiple of.
CONSTANTS
    VD33_ERRATA = FALSE
    MCLKS <- MC_MCLKS
    RATES <- MC_RATES_INEXACT
    CONTROLS <- MC_CONTROLS
    CHIP_ID <- MC_CHIP_ID
    MaxProbes = 1
    MaxSuspends = 2
    CONCURRENT = FALSE
    IoFaults = FALSE
    HostFaults = FALSE
    PowerLoss = FALSE
    MachineMasters <- MC_ALL_MASTERS
    FmtFirst = FALSE
SPECIFICATION Spec
PROPERTY RatioExact
