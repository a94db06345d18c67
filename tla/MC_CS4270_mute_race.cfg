\* A Master Playback Switch put may run while digital_mute is between its
\* read and its write of the Mute register.
CONSTANTS
    VD33_ERRATA = FALSE
    MCLKS <- MC_MCLKS
    RATES <- MC_RATES
    CONTROLS <- MC_CONTROLS
    CHIP_ID <- MC_CHIP_ID
    MaxProbes = 1
    MaxSuspends = 2
    CONCURRENT = TRUE
    IoFaults = FALSE
    HostFaults = FALSE
    PowerLoss = FALSE
    MachineMasters <- MC_ALL_MASTERS
    FmtFirst = FALSE
SPECIFICATION Spec
INVARIANT ManualMuteHonoured
