-------------------------------- MODULE CS4270 --------------------------------
(***************************************************************************)
(* The CS4270 ASoC codec driver (sound/soc/codecs/cs4270.c): its private   *)
(* data, the ASoC register cache it reads and writes through, the codec's  *)
(* registers, and the supplies it enables.  Three paths call the driver:   *)
(*   - the stream path (set_sysclk, set_fmt, hw_params, digital_mute),     *)
(*     serialised among themselves by the PCM;                             *)
(*   - the control path (the mixer controls of cs4270_snd_controls[]),     *)
(*     each put a locked read-modify-write of one register;                *)
(*   - the lifecycle (i2c probe/remove, codec probe/remove, suspend,       *)
(*     resume), run while neither of the others is inside the driver.      *)
(* hw_params and digital_mute read a cached register and write it back    *)
(* later without a lock, so they are split into steps at those points;    *)
(* CONCURRENT says whether a control put may run between them.             *)
(***************************************************************************)
EXTENDS CS4270Ratio, Integers, FiniteSets

CONSTANTS
    MCLKS,        \* MCLK frequencies a machine driver passes to set_sysclk
    RATES,        \* sample rates ALSA passes in hw_params
    CONTROLS,     \* mixer controls as [reg, mask] (the Master Playback
                  \* Switch, which has its own put handler, excluded)
    CHIP_ID,      \* value the CHIPID register reads back
    MaxProbes,    \* bound on codec probes (rebinding of the ASoC card)
    MaxSuspends,  \* bound on system suspends
    CONCURRENT,   \* a control put may run inside hw_params / digital_mute
    IoFaults,     \* an I2C transfer may fail
    HostFaults,   \* kzalloc, registration, regulator calls may fail
    PowerLoss,    \* the codec's supply domain may drop while disabled
    MachineMasters, \* clocking roles the machine driver passes to set_fmt
    FmtFirst      \* the machine driver sets the DAI format before hw_params

ASSUME /\ MCLKS \subseteq Nat /\ RATES \subseteq Nat \ {0}
       /\ \A c \in CONTROLS : c.reg \in DOMAIN cs4270_default_reg_cache
       /\ MaxProbes \in Nat /\ MaxSuspends \in Nat
       /\ {CONCURRENT, IoFaults, HostFaults, PowerLoss, FmtFirst} \subseteq BOOLEAN
       /\ MachineMasters \subseteq {"CBS_CFS", "CBM_CFM", "CBM_CFS"}

VARIABLES
    phase,        \* "unloaded" | "unbound" | "registered" | "probed" | "suspended"
    probes,       \* codec probes so far
    suspends,     \* system suspends so far
    mclk, mode, slave_mode, manual_mute,   \* struct cs4270_private
    cache,        \* ASoC register cache, reg -> byte
    hw,           \* codec registers, reg -> byte
    chipPowered,  \* the codec's supply domain is up
    supplyUse,    \* net regulator_bulk_enable minus _disable calls
    op, reg, i, rate, muteArg,   \* stream path: pc and locals
    ret,          \* result of the last stream-path call
    cop, cval,    \* control path: pc and local
    daiMuted,     \* argument of the last completed digital_mute
    ctl           \* value each control was last set to, control -> bits

drv    == <<mclk, mode, slave_mode, manual_mute>>
regs   == <<cache, hw, chipPowered, supplyUse>>
stream == <<op, reg, i, rate, muteArg, ret>>
vars   == <<phase, probes, suspends, drv, regs, stream, cop, cval, daiMuted, ctl>>

Regs == DOMAIN cs4270_default_reg_cache

\* cs4270_reg_is_readable / cs4270_reg_is_volatile: ASoC reads register 0
\* (which the chip lacks) and CHIPID (its low nibble is the revision)
\* from the chip, never from the cache, and the cache sync skips them.
cs4270_reg_is_readable(r) == r >= CS4270_FIRSTREG /\ r <= CS4270_LASTREG
cs4270_reg_is_volatile(r) == ~cs4270_reg_is_readable(r) \/ r = CS4270_CHIPID
CachedRegs == {r \in Regs : ~cs4270_reg_is_volatile(r)}
Byte == 0..255
IoOk   == IF IoFaults   THEN BOOLEAN ELSE {TRUE}
HostOk == IF HostFaults THEN BOOLEAN ELSE {TRUE}
DaiFormats == {"I2S", "LEFT_J", "RIGHT_J"}      \* SND_SOC_DAIFMT_FORMAT_MASK
DaiMasters == {"CBS_CFS", "CBM_CFM", "CBM_CFS"} \* SND_SOC_DAIFMT_MASTER_MASK
ControlValues(c) == {v \in 0..c.mask : (v & c.mask) = v}

Idle == op = "idle" /\ cop = "idle"
StreamMayStart  == phase = "probed" /\ op = "idle" /\ (CONCURRENT \/ cop = "idle")
ControlMayStart == phase = "probed" /\ cop = "idle" /\ (CONCURRENT \/ op = "idle")

\* A stream-path call returns 'val': its locals are dead from here on.
StreamReturn(val) ==
    /\ op' = "idle" /\ ret' = val
    /\ reg' = 0 /\ i' = 1 /\ rate' = 0 /\ muteArg' = 0

\* snd_soc_write of a cached register: the I2C transfer either reaches a
\* powered codec and both the register and its cache take the value, or it
\* fails and neither changes.
WriteReg(r, v, ok) ==
    IF ok /\ chipPowered
    THEN /\ cache' = [cache EXCEPT ![r] = v]
         /\ hw' = [hw EXCEPT ![r] = v]
    ELSE UNCHANGED <<cache, hw>>

-----------------------------------------------------------------------------
(* Lifecycle                                                               *)

\* cs4270_init: i2c_add_driver registers cs4270_i2c_driver, whose id table
\* names the "cs4270" device the board declares; the I2C core then binds
\* it through cs4270_i2c_probe.
cs4270_init ==
    /\ phase = "unloaded"
    /\ phase' = "unbound"
    /\ UNCHANGED <<probes, suspends, drv, regs, stream, cop, cval, daiMuted, ctl>>

\* cs4270_exit: i2c_del_driver calls cs4270_i2c_remove on a bound device.
\* While the codec is probed the card holds a reference on the module
\* (soc_probe_codec), so unloading waits for cs4270_remove.
cs4270_exit ==
    /\ phase \in {"unbound", "registered"} /\ Idle
    /\ phase' = "unloaded"
    /\ UNCHANGED <<probes, suspends, drv, regs, stream, cop, cval, daiMuted, ctl>>

\* cs4270_i2c_probe: read CHIPID, check the top nibble is 1100, allocate
\* the zeroed private data and register the codec with ASoC, which builds
\* its register cache from cs4270_default_reg_cache; kfree on a failed
\* registration.
cs4270_i2c_probe ==
    /\ phase = "unbound"
    /\ \E readOk \in IoOk, allocOk \in HostOk, regOk \in HostOk :
        IF /\ readOk /\ chipPowered
           /\ (CHIP_ID & \hF0) = \hC0
           /\ allocOk /\ regOk
        THEN /\ phase' = "registered"
             /\ mclk' = 0 /\ mode' = "NONE" /\ slave_mode' = 0 /\ manual_mute' = 0
             /\ cache' = cs4270_default_reg_cache
        ELSE UNCHANGED <<phase, drv, cache>>
    /\ UNCHANGED <<probes, suspends, hw, chipPowered, supplyUse, stream, cop, cval, daiMuted, ctl>>

\* The steps of cs4270_probe in order; the register updates clear bits.
ProbeSteps == <<"cache_io", "mute_auto", "trans_soft_zero", "controls", "bulk_get", "bulk_enable">>
ProbeClears == [mute_auto       |-> [reg |-> CS4270_MUTE, mask |-> CS4270_MUTE_AUTO],
                trans_soft_zero |-> [reg |-> CS4270_TRANS, mask |-> CS4270_TRANS_SOFT | CS4270_TRANS_ZERO]]
IoSteps == DOMAIN ProbeClears
\* snd_soc_update_bits transfers only when a bit it clears is set.
ProbeWrites(s) == s \in IoSteps /\ (cache[ProbeClears[s].reg] & ProbeClears[s].mask) # 0
ProbeMayFail(s)  == IF s \in IoSteps THEN IoFaults /\ ProbeWrites(s) ELSE HostFaults
ProbeMustFail(s) == ProbeWrites(s) /\ ~chipPowered
\* The cache after the updates of the steps in 'done' (one per register).
ProbeCache(done) ==
    [r \in Regs |-> IF \E s \in done : ProbeClears[s].reg = r
                    THEN ClearBits(cache[r], ProbeClears[CHOOSE s \in done : ProbeClears[s].reg = r].mask)
                    ELSE cache[r]]

\* cs4270_probe, called by ASoC when the card binds the codec: disable
\* auto-mute, disable soft ramp and zero cross, add the controls, get and
\* enable the supplies.  'stop' is the step that fails (Len + 1: none);
\* every step before it succeeded.
cs4270_probe ==
    /\ phase = "registered" /\ Idle /\ probes < MaxProbes
    /\ \E stop \in 1..Len(ProbeSteps) + 1 :
        /\ stop <= Len(ProbeSteps) => ProbeMayFail(ProbeSteps[stop]) \/ ProbeMustFail(ProbeSteps[stop])
        /\ \A j \in 1..stop - 1 : ~ProbeMustFail(ProbeSteps[j])
        /\ LET c == ProbeCache({ProbeSteps[j] : j \in 1..stop - 1} \cap IoSteps)
           IN /\ cache' = c
              /\ hw' = [r \in Regs |-> IF c[r] # cache[r] THEN c[r] ELSE hw[r]]
              /\ ctl' = [k \in CONTROLS |-> c[k.reg] & k.mask]
        /\ IF stop = Len(ProbeSteps) + 1
           THEN phase' = "probed" /\ supplyUse' = supplyUse + 1 /\ chipPowered' = TRUE
           ELSE UNCHANGED <<phase, supplyUse, chipPowered>>
    /\ probes' = probes + 1
    /\ UNCHANGED <<suspends, drv, stream, cop, cval, daiMuted>>

\* Mutant: remove frees the supplies without disabling them.
cs4270_remove_NoDisable ==
    /\ phase = "probed" /\ Idle
    /\ phase' = "registered"
    /\ UNCHANGED <<probes, suspends, drv, regs, stream, cop, cval, daiMuted, ctl>>

\* cs4270_remove: disable and free the supplies.
cs4270_remove ==
    /\ phase = "probed" /\ Idle
    /\ phase' = "registered"
    /\ supplyUse' = supplyUse - 1
    /\ UNCHANGED <<probes, suspends, drv, cache, hw, chipPowered, stream, cop, cval, daiMuted, ctl>>

\* cs4270_i2c_remove: unregister the codec and free the private data.
cs4270_i2c_remove ==
    /\ phase = "registered" /\ Idle
    /\ phase' = "unbound"
    /\ UNCHANGED <<probes, suspends, drv, regs, stream, cop, cval, daiMuted, ctl>>

\* cs4270_soc_suspend: set the power-down bits, then disable the supplies;
\* a failed write returns early with the supplies still enabled.  ASoC
\* marks the codec suspended whatever the result.
cs4270_soc_suspend ==
    /\ phase = "probed" /\ Idle /\ suspends < MaxSuspends
    /\ suspends' = suspends + 1
    /\ \E ok \in IoOk :
        /\ WriteReg(CS4270_PWRCTL, cache[CS4270_PWRCTL] | CS4270_PWRCTL_PDN_ALL, ok)
        /\ supplyUse' = IF ok /\ chipPowered THEN supplyUse - 1 ELSE supplyUse
    /\ phase' = "suspended"
    /\ UNCHANGED <<probes, drv, chipPowered, stream, cop, cval, daiMuted, ctl>>

\* snd_soc_cache_sync: write every cached register back to the codec.
CacheSync(h, powered, syncOk) ==
    [r \in Regs |-> IF r \in CachedRegs /\ syncOk[r] /\ powered THEN cache[r] ELSE h[r]]

\* Mutant: resume clears the power-down bits without syncing the cache.
cs4270_soc_resume_NoSync ==
    /\ phase = "suspended"
    /\ \E enOk \in HostOk, pwrOk \in IoOk :
        LET powered == chipPowered \/ enOk
            pwrctl  == ClearBits(cache[CS4270_PWRCTL], CS4270_PWRCTL_PDN_ALL)
            done    == pwrOk /\ powered
        IN /\ chipPowered' = powered
           /\ supplyUse' = IF enOk THEN supplyUse + 1 ELSE supplyUse
           /\ hw' = IF done THEN [hw EXCEPT ![CS4270_PWRCTL] = pwrctl] ELSE hw
           /\ cache' = IF done THEN [cache EXCEPT ![CS4270_PWRCTL] = pwrctl] ELSE cache
    /\ phase' = "probed"
    /\ UNCHANGED <<probes, suspends, drv, stream, cop, cval, daiMuted, ctl>>

\* cs4270_soc_resume: enable the supplies (result ignored), sync the cache
\* (result ignored), then clear the power-down bits.
cs4270_soc_resume ==
    /\ phase = "suspended"
    /\ \E enOk \in HostOk, syncOk \in [CachedRegs -> IoOk], pwrOk \in IoOk :
        LET powered == chipPowered \/ enOk
            synced  == CacheSync(hw, powered, syncOk)
            pwrctl  == ClearBits(cache[CS4270_PWRCTL], CS4270_PWRCTL_PDN_ALL)
            done    == pwrOk /\ powered
        IN /\ chipPowered' = powered
           /\ supplyUse' = IF enOk THEN supplyUse + 1 ELSE supplyUse
           /\ hw' = IF done THEN [synced EXCEPT ![CS4270_PWRCTL] = pwrctl] ELSE synced
           /\ cache' = IF done THEN [cache EXCEPT ![CS4270_PWRCTL] = pwrctl] ELSE cache
    /\ phase' = "probed"
    /\ UNCHANGED <<probes, suspends, drv, stream, cop, cval, daiMuted, ctl>>

\* The supply domain drops while no consumer holds it enabled (a full
\* suspend, or a powered-off board): the codec resets to its defaults.
PowerDomainOff ==
    /\ PowerLoss /\ chipPowered /\ supplyUse <= 0
    /\ chipPowered' = FALSE
    /\ hw' = cs4270_default_reg_cache
    /\ UNCHANGED <<phase, probes, suspends, drv, cache, supplyUse, stream, cop, cval, daiMuted, ctl>>

-----------------------------------------------------------------------------
(* Stream path                                                             *)

\* cs4270_set_dai_sysclk: record the MCLK frequency.
cs4270_set_dai_sysclk(freq) ==
    /\ StreamMayStart
    /\ mclk' = freq /\ ret' = "ok"
    /\ UNCHANGED <<phase, probes, suspends, mode, slave_mode, manual_mute, regs,
                   op, reg, i, rate, muteArg, cop, cval, daiMuted, ctl>>

\* cs4270_set_dai_fmt: accept I2S or left-justified and store it, then
\* accept only codec-slave or codec-master clocking.
cs4270_set_dai_fmt(fmt, ms) ==
    /\ StreamMayStart
    /\ \/ /\ fmt \notin {"I2S", "LEFT_J"}
          /\ ret' = "EINVAL" /\ UNCHANGED <<mode, slave_mode>>
       \/ /\ fmt \in {"I2S", "LEFT_J"}
          /\ mode' = fmt
          /\ CASE ms = "CBS_CFS" -> slave_mode' = 1 /\ ret' = "ok"
               [] ms = "CBM_CFM" -> slave_mode' = 0 /\ ret' = "ok"
               [] OTHER          -> UNCHANGED slave_mode /\ ret' = "EINVAL"
    /\ UNCHANGED <<phase, probes, suspends, mclk, manual_mute, regs,
                   op, reg, i, rate, muteArg, cop, cval, daiMuted, ctl>>

\* cs4270_dai: playback and capture take any rate from rate_min to rate_max
\* (SNDRV_PCM_RATE_CONTINUOUS); ALSA refuses other rates before hw_params.
cs4270_dai_rates == 4000..216000

\* cs4270_hw_params is entered with the rate of the hw_params ...
cs4270_hw_params(r) ==
    /\ StreamMayStart /\ (FmtFirst => mode # "NONE") /\ r \in cs4270_dai_rates
    /\ op' = "hw_lookup" /\ rate' = r
    /\ UNCHANGED <<phase, probes, suspends, drv, regs, reg, i, muteArg, ret, cop, cval, daiMuted, ctl>>

\* ... finds the ratio mclk / rate in the table, failing with -EINVAL if it
\* is absent, and reads the cached Mode Control register ...
HwParamsLookup ==
    /\ op = "hw_lookup"
    /\ LET idx == FindRatio(MclkRatio(mclk, rate), 1) IN
        IF idx = NUM_MCLK_RATIOS + 1
        THEN StreamReturn("EINVAL")
        ELSE /\ op' = "hw_mode" /\ i' = idx /\ reg' = cache[CS4270_MODE]
             /\ UNCHANGED <<rate, muteArg, ret>>
    /\ UNCHANGED <<phase, probes, suspends, drv, regs, cop, cval, daiMuted, ctl>>

\* ... writes the speed and divider fields and reads the Serial Format
\* register; a failed write returns its error ...
HwParamsWriteMode ==
    /\ op = "hw_mode"
    /\ \E ok \in IoOk :
        /\ WriteReg(CS4270_MODE, ModeRegister(reg, cs4270_mode_ratios[i], slave_mode), ok)
        /\ IF ok /\ chipPowered
           THEN op' = "hw_format" /\ reg' = cache'[CS4270_FORMAT] /\ UNCHANGED <<i, rate, muteArg, ret>>
           ELSE StreamReturn("EIO")
    /\ UNCHANGED <<phase, probes, suspends, drv, chipPowered, supplyUse, cop, cval, daiMuted, ctl>>

\* ... and writes the DAI format bits; a mode other than I2S or
\* left-justified (no successful set_fmt) fails with -EINVAL, after Mode
\* Control has been written.
HwParamsWriteFormat ==
    /\ op = "hw_format"
    /\ \/ /\ mode \notin {"I2S", "LEFT_J"}
          /\ StreamReturn("EINVAL") /\ UNCHANGED <<cache, hw>>
       \/ /\ mode \in {"I2S", "LEFT_J"}
          /\ \E ok \in IoOk :
               /\ WriteReg(CS4270_FORMAT, FormatRegister(reg, mode), ok)
               /\ StreamReturn(IF ok /\ chipPowered THEN "ok" ELSE "EIO")
    /\ UNCHANGED <<phase, probes, suspends, drv, chipPowered, supplyUse, cop, cval, daiMuted, ctl>>

\* cs4270_dai_mute reads the Mute register and sets both DAC mute bits,
\* or clears them and re-applies the manual mute ...
\* Mutant: unmute clears both DAC bits and forgets the manual mute.
DaiMuteBitsNoManual(reg6, mute) ==
    IF mute = 1 THEN reg6 | (CS4270_MUTE_DAC_A | CS4270_MUTE_DAC_B)
    ELSE ClearBits(reg6, CS4270_MUTE_DAC_A | CS4270_MUTE_DAC_B)

DaiMuteBits(reg6, mute) ==
    IF mute = 1 THEN reg6 | (CS4270_MUTE_DAC_A | CS4270_MUTE_DAC_B)
    ELSE ClearBits(reg6, CS4270_MUTE_DAC_A | CS4270_MUTE_DAC_B) | manual_mute

cs4270_dai_mute(mute) ==
    /\ StreamMayStart
    /\ op' = "mute_write" /\ muteArg' = mute
    /\ reg' = DaiMuteBits(cache[CS4270_MUTE], mute)
    /\ UNCHANGED <<phase, probes, suspends, drv, regs, i, rate, ret, cop, cval, daiMuted, ctl>>

\* ... and writes the value back.
DaiMuteWrite ==
    /\ op = "mute_write"
    /\ \E ok \in IoOk :
        /\ WriteReg(CS4270_MUTE, reg, ok)
        /\ StreamReturn(IF ok /\ chipPowered THEN "ok" ELSE "EIO")
    /\ daiMuted' = (muteArg = 1)
    /\ UNCHANGED <<phase, probes, suspends, drv, chipPowered, supplyUse, cop, cval, ctl>>

-----------------------------------------------------------------------------
(* Control path                                                            *)

\* snd_soc_update_bits on a control's register: write only if the masked
\* bits change.  UpdateOk: the register now holds 'v' in those bits.
UpdateBits(r, mask, v, ok) ==
    LET new == ClearBits(cache[r], mask) | v IN
    IF new = cache[r] THEN UNCHANGED <<cache, hw>>
    ELSE WriteReg(r, new, ok)

UpdateOk(r, mask, v, ok) == (ClearBits(cache[r], mask) | v) = cache[r] \/ (ok /\ chipPowered)

\* A put on one of cs4270_snd_controls[] handled by snd_soc_put_volsw.
ControlPut(c, v) ==
    /\ ControlMayStart
    /\ \E ok \in IoOk :
        /\ UpdateBits(c.reg, c.mask, v, ok)
        /\ ctl' = IF UpdateOk(c.reg, c.mask, v, ok) THEN [ctl EXCEPT ![c] = v] ELSE ctl
    /\ UNCHANGED <<phase, probes, suspends, drv, chipPowered, supplyUse, stream, cop, cval, daiMuted>>

\* cs4270_soc_put_mute (Master Playback Switch) records the manual mute
\* bits, a switch value of 0 muting its channel ...
\* Mutant: the right channel's bit taken from the neighbouring define
\* CS4270_MUTE_POLARITY (0x04) instead of CS4270_MUTE_DAC_B.
cs4270_soc_put_mute_WrongBit(left, right) ==
    /\ ControlMayStart
    /\ manual_mute' = (IF left = 0 THEN CS4270_MUTE_DAC_A ELSE 0)
                      | (IF right = 0 THEN \h04 ELSE 0)
    /\ cop' = "put_mute_volsw" /\ cval' = manual_mute'
    /\ UNCHANGED <<phase, probes, suspends, mclk, mode, slave_mode, regs, stream, daiMuted, ctl>>

cs4270_soc_put_mute(left, right) ==
    /\ ControlMayStart
    /\ manual_mute' = (IF left = 0 THEN CS4270_MUTE_DAC_A ELSE 0)
                      | (IF right = 0 THEN CS4270_MUTE_DAC_B ELSE 0)
    /\ cop' = "put_mute_volsw" /\ cval' = manual_mute'
    /\ UNCHANGED <<phase, probes, suspends, mclk, mode, slave_mode, regs, stream, daiMuted, ctl>>

\* ... then passes the values on to snd_soc_put_volsw (inverted, bits 0, 1).
PutMuteVolsw ==
    /\ cop = "put_mute_volsw"
    /\ \E ok \in IoOk : UpdateBits(CS4270_MUTE, CS4270_MUTE_DAC_A | CS4270_MUTE_DAC_B, cval, ok)
    /\ cop' = "idle" /\ cval' = 0
    /\ UNCHANGED <<phase, probes, suspends, drv, chipPowered, supplyUse, stream, daiMuted, ctl>>

-----------------------------------------------------------------------------
Init ==
    /\ phase = "unloaded" /\ probes = 0 /\ suspends = 0
    /\ mclk = 0 /\ mode = "NONE" /\ slave_mode = 0 /\ manual_mute = 0
    /\ cache = cs4270_default_reg_cache /\ hw = cs4270_default_reg_cache
    /\ chipPowered = TRUE /\ supplyUse = 0
    /\ op = "idle" /\ reg = 0 /\ i = 1 /\ rate = 0 /\ muteArg = 0 /\ ret = "ok"
    /\ cop = "idle" /\ cval = 0
    /\ daiMuted = FALSE
    /\ ctl = [c \in CONTROLS |-> cs4270_default_reg_cache[c.reg] & c.mask]

\* soc_codec_device_cs4270 and cs4270_i2c_driver: the lifecycle callbacks
\* the I2C core and ASoC call, and the supply domain beneath them.
LifecycleNext ==
    \/ cs4270_init \/ cs4270_exit
    \/ cs4270_i2c_probe \/ cs4270_probe \/ cs4270_remove \/ cs4270_i2c_remove
    \/ cs4270_soc_suspend \/ cs4270_soc_resume \/ PowerDomainOff

\* cs4270_dai_ops: the stream path and the later steps of its handlers.
StreamNext ==
    \/ \E f \in MCLKS : cs4270_set_dai_sysclk(f)
    \/ \E f \in DaiFormats, m \in MachineMasters : cs4270_set_dai_fmt(f, m)
    \/ \E r \in RATES : cs4270_hw_params(r)
    \/ HwParamsLookup \/ HwParamsWriteMode \/ HwParamsWriteFormat
    \/ \E m \in {0, 1} : cs4270_dai_mute(m)
    \/ DaiMuteWrite

\* cs4270_snd_controls: the mixer controls' puts.
ControlNext ==
    \/ \E c \in CONTROLS : \E v \in ControlValues(c) : ControlPut(c, v)
    \/ \E l, r \in {0, 1} : cs4270_soc_put_mute(l, r)
    \/ PutMuteVolsw

Next == LifecycleNext \/ StreamNext \/ ControlNext

Spec == Init /\ [][Next]_vars

-----------------------------------------------------------------------------
(* Properties                                                              *)

TypeOK ==
    /\ phase \in {"unloaded", "unbound", "registered", "probed", "suspended"}
    /\ probes \in 0..MaxProbes /\ suspends \in 0..MaxSuspends
    /\ mclk \in MCLKS \cup {0} /\ mode \in {"NONE", "I2S", "LEFT_J"}
    /\ slave_mode \in {0, 1} /\ manual_mute \in 0..3
    /\ cache \in [Regs -> Byte] /\ hw \in [Regs -> Byte]
    /\ chipPowered \in BOOLEAN /\ supplyUse \in Int
    /\ op \in {"idle", "hw_lookup", "hw_mode", "hw_format", "mute_write"}
    /\ reg \in Byte /\ i \in 1..NUM_MCLK_RATIOS + 1 /\ rate \in RATES \cup {0}
    /\ muteArg \in {0, 1} /\ ret \in {"ok", "EINVAL", "EIO"}
    /\ cop \in {"idle", "put_mute_volsw"} /\ cval \in 0..3
    /\ daiMuted \in BOOLEAN
    /\ ctl \in [CONTROLS -> Byte]

\* Reference reading of Table 5: the entries whose ratio is the MCLK/LRCK
\* ratio the code computes.
TableEntries == {cs4270_mode_ratios[k] : k \in 1..NUM_MCLK_RATIOS}
EntriesFor(m, r) == {e \in TableEntries : e.ratio = MclkRatio(m, r)}

HwParamsOkStep == op = "hw_format" /\ op' = "idle" /\ ret' = "ok"
RatioRejected  == op = "hw_lookup" /\ op' = "idle"

\* Whenever cs4270_hw_params returns success, the codec's Mode Control
\* register holds the speed (or slave) and divider bits of the table entry
\* for mclk / rate and its Serial Format register the bits of the stored DAI
\* format; and hw_params rejects a rate for lack of a ratio only when the
\* table has no entry for it.
HwParamsProgramsRatio ==
    [][ /\ HwParamsOkStep =>
             \E e \in EntriesFor(mclk, rate) :
                /\ (hw'[CS4270_MODE] & CS4270_MODE_DIV_MASK) = e.mclk
                /\ (hw'[CS4270_MODE] & CS4270_MODE_SPEED_MASK) =
                       (IF slave_mode = 1 THEN CS4270_MODE_SLAVE ELSE e.speed_mode)
                /\ (hw'[CS4270_FORMAT] & (CS4270_FORMAT_DAC_MASK | CS4270_FORMAT_ADC_MASK))
                       = FormatBits[mode]
        /\ RatioRejected => EntriesFor(mclk, rate) = {} ]_vars

\* The ASoC register cache and the codec agree whenever the codec is bound
\* and not suspended: every write, the probe of a fresh cache, the
\* power-down in suspend and the cache sync in resume keep the cache a
\* faithful image of the chip, including after the chip lost power.
CacheCoherent == phase = "probed" => \A r \in Regs : hw[r] = cache[r]

\* While the stream is not muted by the DAI, the DAC mute bits are exactly
\* the Master Playback Switch's manual mute: cs4270_dai_mute(0) must not
\* undo a manual mute, and cs4270_soc_put_mute must take effect, or, when
\* its transfer fails, leave the recorded manual mute as it was.
ManualMuteHonoured ==
    (phase = "probed" /\ Idle /\ ~daiMuted)
        => (cache[CS4270_MUTE] & (CS4270_MUTE_DAC_A | CS4270_MUTE_DAC_B)) = manual_mute

\* A mixer control keeps the value it was last set to: hw_params and
\* digital_mute rewrite whole registers that also hold control bits, and
\* must not revert them.
ControlsPreserved ==
    (phase \in {"probed", "suspended"} /\ Idle)
        => \A c \in CONTROLS : (cache[c.reg] & c.mask) = ctl[c]

\* The supplies are enabled exactly once while the codec is probed and
\* not at all otherwise: probe/remove and suspend/resume pair their
\* regulator_bulk_enable and regulator_bulk_disable calls.
SupplyRefBalanced ==
    /\ phase = "probed" => supplyUse = 1
    /\ phase # "probed" => supplyUse = 0

\* The refinement mapping onto the promised configuration behaviour: the
\* driver-owned bits of the cached registers, with the Serial Format bits
\* hw_params is about to write and the Mute bits put_mute is about to
\* write counted as written (each follows its preceding step unchanged).
Config == INSTANCE CS4270Config WITH
    clk <- mclk, fmt <- mode, slave <- slave_mode, manual <- manual_mute,
    modeBits <- cache[CS4270_MODE] & (CS4270_MODE_SPEED_MASK | CS4270_MODE_DIV_MASK),
    fmtBits <- IF op = "hw_format" /\ mode \in DOMAIN FormatBits THEN FormatBits[mode]
               ELSE cache[CS4270_FORMAT] & (CS4270_FORMAT_DAC_MASK | CS4270_FORMAT_ADC_MASK),
    muteBits <- IF cop = "put_mute_volsw" THEN cval
                ELSE cache[CS4270_MUTE] & (CS4270_MUTE_DAC_A | CS4270_MUTE_DAC_B)

ProbeSucceeds ==
    [][(~IoFaults /\ ~HostFaults /\ phase = "registered" /\ probes' = probes + 1)
          => phase' = "probed"]_vars

\* spec.md section 8: hw_params succeeds only when MCLK is exactly the
\* programmed ratio times the sample rate.
RatioExact ==
    [][HwParamsOkStep => mclk = cs4270_mode_ratios[i].ratio * rate]_vars

=============================================================================
