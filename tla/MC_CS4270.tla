------------------------------- MODULE MC_CS4270 -------------------------------
(* Model values for the CS4270 driver model.                              *)
EXTENDS CS4270

\* Ratios 256 (single speed), 64 (quad speed), 384 (double speed, divide
\* by 3) and 96 (divide by 1.5), an unsupported 44.1 kHz rate, and 0 for a
\* variable MCLK not yet set.
MC_MCLKS == {0, 12288000, 18432000}
MC_RATES == {44100, 48000, 192000}
\* A rate for which 12.288 MHz / rate truncates to 256 without dividing.
MC_RATES_INEXACT == {47990, 48000}

\* One control on each register the stream path rewrites: Popguard Switch
\* (Mode Control bit 0), Digital Sidetone Switch (Serial Format bit 5) and
\* Auto-Mute Switch (Mute Control bit 5).
MC_CONTROLS ==
    {[reg |-> CS4270_MODE,   mask |-> \h01],
     [reg |-> CS4270_FORMAT, mask |-> \h20],
     [reg |-> CS4270_MUTE,   mask |-> \h20]}

\* For the refinement check, in the Vd = 3.3V errata build: ratio 256,
\* ratio 96 (compiled out by the errata option), 384 and 64, and calls
\* hw_params rejects (an unset MCLK; 44.1 kHz, which no ratio fits).  One
\* control, on the register hw_params rewrites.
MC_MCLKS_REF == {0, 12288000, 18432000}
MC_RATES_REF == {44100, 48000, 192000}
MC_CONTROLS_REF == {[reg |-> CS4270_MODE, mask |-> \h01]}

MC_CHIP_ID == \hC3

\* Every clocking role, and those a machine driver for this codec passes.
MC_ALL_MASTERS == DaiMasters
MC_SUPPORTED_MASTERS == {"CBS_CFS", "CBM_CFM"}
=============================================================================
