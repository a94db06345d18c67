----------------------------- MODULE CS4270Ratio -----------------------------
(***************************************************************************)
(* The MCLK/LRCK ratio table of the CS4270 codec driver and the linear     *)
(* search cs4270_hw_params() runs over it, together with the register bit  *)
(* masks the driver composes into the Mode Control and Serial Format       *)
(* registers.  Pure operators; the driver module CS4270 uses them.         *)
(***************************************************************************)
EXTENDS Naturals, Sequences, Bitwise

CONSTANT VD33_ERRATA    \* CONFIG_SND_SOC_CS4270_VD33_ERRATA is selected

ASSUME VD33_ERRATA \in BOOLEAN

\* Register addresses (the chip id, and those the driver or its controls
\* write) and the range the chip can read.
CS4270_CHIPID == \h01
CS4270_PWRCTL == \h02
CS4270_MODE   == \h03
CS4270_FORMAT == \h04
CS4270_TRANS  == \h05
CS4270_MUTE   == \h06
CS4270_FIRSTREG == \h01
CS4270_LASTREG  == \h08

\* Bit masks of the registers.
CS4270_PWRCTL_PDN_ALL  == \h23            \* PDN_ADC | PDN_DAC | PDN
CS4270_MODE_SPEED_MASK == \h30
CS4270_MODE_1X         == \h00
CS4270_MODE_2X         == \h10
CS4270_MODE_4X         == \h20
CS4270_MODE_SLAVE      == \h30
CS4270_MODE_DIV_MASK   == \h0E
CS4270_MODE_DIV1       == \h00
CS4270_MODE_DIV15      == \h02
CS4270_MODE_DIV2       == \h04
CS4270_MODE_DIV3       == \h06
CS4270_MODE_DIV4       == \h08
CS4270_FORMAT_DAC_MASK == \h18
CS4270_FORMAT_DAC_LJ   == \h00
CS4270_FORMAT_DAC_I2S  == \h08
CS4270_FORMAT_ADC_MASK == \h01
CS4270_FORMAT_ADC_LJ   == \h00
CS4270_FORMAT_ADC_I2S  == \h01
CS4270_TRANS_SOFT      == \h40
CS4270_TRANS_ZERO      == \h20
CS4270_MUTE_AUTO       == \h20
CS4270_MUTE_DAC_A      == \h01
CS4270_MUTE_DAC_B      == \h02

\* x & ~m for 8-bit register images (Bitwise!Not only flips up to the
\* highest set bit of its argument, so the complement is taken this way).
ClearBits(x, m) == x - (x & m)

\* Power-on values of the cached registers, cs4270_default_reg_cache[].
cs4270_default_reg_cache ==
    [r \in {CS4270_PWRCTL, CS4270_MODE, CS4270_FORMAT, CS4270_TRANS, CS4270_MUTE} |->
        CASE r = CS4270_MODE  -> \h30
          [] r = CS4270_TRANS -> \h60
          [] r = CS4270_MUTE  -> \h20
          [] OTHER            -> \h00]

\* cs4270_mode_ratios[]: Table 5 of the CS4270 manual, in driver order; the
\* divide-by-1.5 entry is compiled out under the Vd = 3.3V errata option.
Ratio(r, s, m) == [ratio |-> r, speed_mode |-> s, mclk |-> m]

cs4270_mode_ratios ==
    <<Ratio(64, CS4270_MODE_4X, CS4270_MODE_DIV1)>>
    \o (IF VD33_ERRATA THEN <<>> ELSE <<Ratio(96, CS4270_MODE_4X, CS4270_MODE_DIV15)>>)
    \o <<Ratio(128,  CS4270_MODE_2X, CS4270_MODE_DIV1),
         Ratio(192,  CS4270_MODE_4X, CS4270_MODE_DIV3),
         Ratio(256,  CS4270_MODE_1X, CS4270_MODE_DIV1),
         Ratio(384,  CS4270_MODE_2X, CS4270_MODE_DIV3),
         Ratio(512,  CS4270_MODE_1X, CS4270_MODE_DIV2),
         Ratio(768,  CS4270_MODE_1X, CS4270_MODE_DIV3),
         Ratio(1024, CS4270_MODE_1X, CS4270_MODE_DIV4)>>

NUM_MCLK_RATIOS == Len(cs4270_mode_ratios)

\* The for loop of cs4270_hw_params(): the first index i whose ratio equals
\* 'ratio', or NUM_MCLK_RATIOS + 1 when the loop runs off the end (the code's
\* i == NUM_MCLK_RATIOS, indices here being 1-based).
\* Mutant: the loop breaks at the first ratio not above 'ratio'.
RECURSIVE FindRatioAtMost(_, _)
FindRatioAtMost(ratio, i) ==
    IF i > NUM_MCLK_RATIOS \/ cs4270_mode_ratios[i].ratio <= ratio
    THEN i
    ELSE FindRatioAtMost(ratio, i + 1)

RECURSIVE FindRatio(_, _)
FindRatio(ratio, i) ==
    IF i > NUM_MCLK_RATIOS \/ cs4270_mode_ratios[i].ratio = ratio
    THEN i
    ELSE FindRatio(ratio, i + 1)

\* The MCLK/LRCK ratio as the code computes it: unsigned integer division.
MclkRatio(mclk, rate) == mclk \div rate

\* Mutants (see PROJECT.json): the slave bits never applied; the Popguard
\* bit cleared with the fields, as with a 0x0F divider mask.
ModeRegisterIgnoringSlave(reg, entry, slave_mode) ==
    (ClearBits(reg, CS4270_MODE_SPEED_MASK | CS4270_MODE_DIV_MASK) | entry.mclk) | entry.speed_mode
ModeRegisterWideMask(reg, entry, slave_mode) ==
    (ClearBits(reg, CS4270_MODE_SPEED_MASK | \h0F) | entry.mclk)
    | (IF slave_mode = 1 THEN CS4270_MODE_SLAVE ELSE entry.speed_mode)

\* Mode Control image written by cs4270_hw_params(): speed and divider
\* fields replaced, every other bit of the cached value kept.
ModeRegister(reg, entry, slave_mode) ==
    (ClearBits(reg, CS4270_MODE_SPEED_MASK | CS4270_MODE_DIV_MASK) | entry.mclk)
    | (IF slave_mode = 1 THEN CS4270_MODE_SLAVE ELSE entry.speed_mode)

\* Serial Format image written by cs4270_hw_params() for a supported mode.
FormatBits == [I2S    |-> CS4270_FORMAT_DAC_I2S | CS4270_FORMAT_ADC_I2S,
               LEFT_J |-> CS4270_FORMAT_DAC_LJ  | CS4270_FORMAT_ADC_LJ]

FormatRegister(reg, mode) ==
    ClearBits(reg, CS4270_FORMAT_DAC_MASK | CS4270_FORMAT_ADC_MASK) | FormatBits[mode]

=============================================================================
