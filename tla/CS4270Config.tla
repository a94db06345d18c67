---------------------------- MODULE CS4270Config ----------------------------
(***************************************************************************)
(* What the CS4270 driver promises the ALSA layer (spec.md sections 3, 4   *)
(* and 7): a clock configuration set by set_sysclk and set_fmt, the        *)
(* hardware parameters applied in one step from the first table entry for  *)
(* MCLK / rate, a mute toggle that keeps the user's manual mute, and a     *)
(* failing call that changes nothing.  The register images are the bits   *)
(* the driver owns in the Mode Control, Serial Format and Mute registers.  *)
(* The driver model CS4270 implements this under the refinement mapping   *)
(* of MC_CS4270 (CS4270Config!Spec checked as a property).                 *)
(***************************************************************************)
EXTENDS CS4270Ratio

CONSTANTS MCLKS, RATES

VARIABLES
    clk,        \* ClockConfig.inputFrequency
    fmt,        \* DAI format: "NONE" until a successful set_fmt
    slave,      \* ClockConfig.slaveMode, 0 or 1
    modeBits,   \* speed and divider bits of Mode Control
    fmtBits,    \* DAC and ADC format bits of Serial Format
    manual,     \* the manual mute bits of the Master Playback Switch
    muteBits    \* the DAC mute bits of Mute Control

avars == <<clk, fmt, slave, modeBits, fmtBits, manual, muteBits>>

ModeFields == CS4270_MODE_SPEED_MASK | CS4270_MODE_DIV_MASK
FormatFields == CS4270_FORMAT_DAC_MASK | CS4270_FORMAT_ADC_MASK
DacMute == CS4270_MUTE_DAC_A | CS4270_MUTE_DAC_B

\* resolveRatio (section 4.1): the table entries whose ratio is mclk / rate.
Resolve(m, r) == {e \in {cs4270_mode_ratios[k] : k \in 1..NUM_MCLK_RATIOS} :
                     e.ratio = m \div r}

AInit ==
    /\ clk = 0 /\ fmt = "NONE" /\ slave = 0
    /\ modeBits = cs4270_default_reg_cache[CS4270_MODE] & ModeFields
    /\ fmtBits = cs4270_default_reg_cache[CS4270_FORMAT] & FormatFields
    /\ manual = 0
    /\ muteBits = cs4270_default_reg_cache[CS4270_MUTE] & DacMute

\* A new binding of the device starts from a fresh ClockConfig and owns a
\* fresh register image (spec.md section 9).
Bind == AInit'

SetSysclk(f) ==
    /\ clk' = f
    /\ UNCHANGED <<fmt, slave, modeBits, fmtBits, manual, muteBits>>

\* setFormat succeeds for I2S or left-justified with the codec clock slave
\* (1) or master (0); a failing setFormat is a stutter.
SetFormat(f, s) ==
    /\ f \in {"I2S", "LEFT_J"} /\ s \in {0, 1}
    /\ fmt' = f /\ slave' = s
    /\ UNCHANGED <<clk, modeBits, fmtBits, manual, muteBits>>

\* applyHardwareParams: needs a format and a resolved ratio; it programs
\* both registers at once.
ApplyHwParams(r) ==
    /\ fmt # "NONE"
    /\ \E e \in Resolve(clk, r) :
          modeBits' = e.mclk | (IF slave = 1 THEN CS4270_MODE_SLAVE ELSE e.speed_mode)
    /\ fmtBits' = FormatBits[fmt]
    /\ UNCHANGED <<clk, fmt, slave, manual, muteBits>>

\* setMute: muting sets both DAC bits, unmuting restores the manual mute.
SetMute(m) ==
    /\ muteBits' = IF m = 1 THEN DacMute ELSE manual
    /\ UNCHANGED <<clk, fmt, slave, modeBits, fmtBits, manual>>

\* The Master Playback Switch records the manual mute and applies it.
SetManualMute(b) ==
    /\ manual' = b /\ muteBits' = b
    /\ UNCHANGED <<clk, fmt, slave, modeBits, fmtBits>>

ANext ==
    \/ Bind
    \/ \E f \in MCLKS : SetSysclk(f)
    \/ \E f \in {"I2S", "LEFT_J"}, s \in {0, 1} : SetFormat(f, s)
    \/ \E r \in RATES : ApplyHwParams(r)
    \/ \E m \in {0, 1} : SetMute(m)
    \/ \E b \in 0..3 : SetManualMute(b)

ASpec == AInit /\ [][ANext]_avars

=============================================================================
