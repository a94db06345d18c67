---------------------------- MODULE S3cfbMini6410 ----------------------------
(***************************************************************************)
(* LCD set-up of the S3C6410 framebuffer (drivers/video/samsung/           *)
(* s3c_mini6410.c): s3cfb_init_hw() fills the global s3cfb_fimd from the   *)
(* panel description, once, before the framebuffer is registered.  The     *)
(* FIMD timing registers hold every porch, sync width and resolution as    *)
(* value - 1 in a field of fixed width; s3cfb_fimd also keeps the plain    *)
(* values, which the framebuffer layer reports as the mode's timings.      *)
(* Two builds exist: CONFIG_FB_S3C_EXT_MINI6410 reads the panel chosen at  *)
(* boot (mini210_get_lcd()), the other build takes the S3CFB_* constants   *)
(* of s3c_mini6410.h; both are described here by a panel record.           *)
(***************************************************************************)
EXTENDS Integers, Bitwise

CONSTANTS
    PANELS,       \* panel descriptions mini210_get_lcd() may return
    BUILDS,       \* kernel configurations: "EXT_MINI6410", "BUILTIN", "BUILTIN_VGA"
    S3CFB_VIDCON1 \* value of the S3CFB_VIDCON1 macro, or "undef"

VARIABLES
    build,        \* the kernel configuration this image was built with
    lcd,          \* the panel description (struct s3cfb_lcd / S3CFB_* macros)
    s3cfb_fimd,   \* the driver's struct s3cfb_fimd_info
    initialized   \* s3cfb_init_hw() has run

vars == <<build, lcd, s3cfb_fimd, initialized>>

\* A register field of 'bits' bits at 'shift', as the regs-lcd.h macros
\* build it: ((x) & mask) << shift on the int value x.  x % 2^bits is the
\* two's-complement masking, so x = -1 yields an all-ones field.
FimdField(x, bits, shift) == (x % (2^bits)) * (2^shift)
FieldOf(reg, bits, shift) == (reg \div (2^shift)) % (2^bits)

S3C_VIDCON1_IVCLK_RISE_EDGE == 2^7
S3C_VIDCON1_IHSYNC_INVERT   == 2^6
S3C_VIDCON1_IVSYNC_INVERT   == 2^5
S3C_VIDCON1_IVDEN_INVERT    == 2^4
S3C_VIDCON1_IVDEN_NORMAL    == 0

S3C_VIDTCON0_VBPD(x)      == FimdField(x, 8, 16)
S3C_VIDTCON0_VFPD(x)      == FimdField(x, 8, 8)
S3C_VIDTCON0_VSPW(x)      == FimdField(x, 8, 0)
S3C_VIDTCON1_HBPD(x)      == FimdField(x, 8, 16)
S3C_VIDTCON1_HFPD(x)      == FimdField(x, 8, 8)
S3C_VIDTCON1_HSPW(x)      == FimdField(x, 8, 0)
S3C_VIDTCON2_LINEVAL(x)   == FimdField(x, 11, 11)
S3C_VIDTCON2_HOZVAL(x)    == FimdField(x, 11, 0)
S3C_VIDOSDxA_OSD_LTX_F(x) == FimdField(x, 11, 11)
S3C_VIDOSDxA_OSD_LTY_F(x) == FimdField(x, 11, 0)
S3C_VIDOSDxB_OSD_RBX_F(x) == FimdField(x, 11, 11)
S3C_VIDOSDxB_OSD_RBY_F(x) == FimdField(x, 11, 0)

\* Mutant: the clock-edge bit one position too high.
Vidcon1ExtBit8(l) ==
    (IF l.rise_vclk THEN 2^8 ELSE 0)
    | (IF l.inv_hsync THEN S3C_VIDCON1_IHSYNC_INVERT ELSE 0)
    | (IF l.inv_vsync THEN S3C_VIDCON1_IVSYNC_INVERT ELSE 0)
    | (IF l.inv_vden  THEN S3C_VIDCON1_IVDEN_INVERT ELSE 0)

\* Polarity bits of the EXT_MINI6410 build, from the panel's flags.
Vidcon1Ext(l) ==
    (IF l.rise_vclk THEN S3C_VIDCON1_IVCLK_RISE_EDGE ELSE 0)
    | (IF l.inv_hsync THEN S3C_VIDCON1_IHSYNC_INVERT ELSE 0)
    | (IF l.inv_vsync THEN S3C_VIDCON1_IVSYNC_INVERT ELSE 0)
    | (IF l.inv_vden  THEN S3C_VIDCON1_IVDEN_INVERT ELSE 0)

\* Polarity bits of the built-in builds: S3CFB_VIDCON1 if defined, else
\* inverted h/v sync; the VGA outputs use 0.
Vidcon1Builtin(b) ==
    IF b = "BUILTIN_VGA" THEN 0
    ELSE IF S3CFB_VIDCON1 # "undef" THEN S3CFB_VIDCON1
    ELSE S3C_VIDCON1_IHSYNC_INVERT | S3C_VIDCON1_IVSYNC_INVERT | S3C_VIDCON1_IVDEN_NORMAL

\* Mutant: the front porch shifted into the back porch's byte.
VidTcon0Overlap(l) ==
    S3C_VIDTCON0_VBPD(l.v_bp - 1) | S3C_VIDTCON0_VBPD(l.v_fp - 1) | S3C_VIDTCON0_VSPW(l.v_sw - 1)

\* Vertical timing register: back porch, front porch, sync width.
VidTcon0(l) ==
    S3C_VIDTCON0_VBPD(l.v_bp - 1) | S3C_VIDTCON0_VFPD(l.v_fp - 1) | S3C_VIDTCON0_VSPW(l.v_sw - 1)

\* Horizontal timing register.
VidTcon1(l) ==
    S3C_VIDTCON1_HBPD(l.h_bp - 1) | S3C_VIDTCON1_HFPD(l.h_fp - 1) | S3C_VIDTCON1_HSPW(l.h_sw - 1)

\* Size register: lines and pixels per line.
VidTcon2(l) ==
    S3C_VIDTCON2_LINEVAL(l.height - 1) | S3C_VIDTCON2_HOZVAL(l.width - 1)

\* OSD window corners: the top-left at (0, 0) ...
VidOsdA == S3C_VIDOSDxA_OSD_LTX_F(0) | S3C_VIDOSDxA_OSD_LTY_F(0)

\* Mutant: the bottom-right corner given as (height - 1, width - 1).
VidOsdBSwapped(w, h) == S3C_VIDOSDxB_OSD_RBX_F(h - 1) | S3C_VIDOSDxB_OSD_RBY_F(w - 1)

\* ... and the bottom-right at (w - 1, h - 1).
VidOsdB(w, h) == S3C_VIDOSDxB_OSD_RBX_F(w - 1) | S3C_VIDOSDxB_OSD_RBY_F(h - 1)

\* The fields of s3cfb_fimd the set-up writes, given the polarity bits,
\* the physical size and the pixel clock of the build.
FimdInfo(l, vidcon1, pw, ph, clk) ==
    [vidcon1 |-> vidcon1,
     vidtcon0 |-> VidTcon0(l), vidtcon1 |-> VidTcon1(l), vidtcon2 |-> VidTcon2(l),
     vidosd0a |-> VidOsdA, vidosd0b |-> VidOsdB(l.width, l.height),
     vidosd1a |-> VidOsdA, vidosd1b |-> VidOsdB(l.width, l.height),
     width |-> pw, height |-> ph, xres |-> l.width, yres |-> l.height,
     xres_virtual |-> l.width, yres_virtual |-> l.height,
     osd_width |-> pw, osd_height |-> ph, osd_xres |-> l.width, osd_yres |-> l.height,
     osd_xres_virtual |-> l.width, osd_yres_virtual |-> l.height,
     pixclock |-> clk,
     hsync_len |-> l.h_sw, vsync_len |-> l.v_sw,
     left_margin |-> l.h_bp, upper_margin |-> l.v_bp,
     right_margin |-> l.h_fp, lower_margin |-> l.v_fp]

\* s3cfb_set_fimd_info() of the EXT_MINI6410 build: physical size and
\* pixel clock from the panel.
s3cfb_set_fimd_info_ext(l) ==
    FimdInfo(l, Vidcon1Ext(l), l.p_width, l.p_height, l.freq)

\* s3cfb_set_fimd_info() of the built-in builds: S3CFB_HRES/VRES stand for
\* the physical size too, S3CFB_HRES_OSD/VRES_OSD and the virtual sizes
\* are S3CFB_HRES/VRES, the clock is S3CFB_CLKVAL.
s3cfb_set_fimd_info_builtin(b, l) ==
    FimdInfo(l, Vidcon1Builtin(b), l.width, l.height, l.clkval)

\* s3cfb_init_hw(): fill s3cfb_fimd, then set up the LCD pins (pure I/O).
s3cfb_init_hw ==
    /\ ~initialized
    /\ s3cfb_fimd' = IF build = "EXT_MINI6410" THEN s3cfb_set_fimd_info_ext(lcd)
                     ELSE s3cfb_set_fimd_info_builtin(build, lcd)
    /\ initialized' = TRUE
    /\ UNCHANGED <<build, lcd>>

\* Before s3cfb_init_hw() the static s3cfb_fimd holds its initializer,
\* seen here as an empty record.
Init ==
    /\ build \in BUILDS
    /\ lcd \in PANELS
    /\ s3cfb_fimd = [f \in {} |-> 0]
    /\ initialized = FALSE

Next == s3cfb_init_hw

Spec == Init /\ [][Next]_vars

-----------------------------------------------------------------------------
(* Properties                                                              *)

\* Register images and sizes are unsigned (the masking leaves no sign),
\* and VIDCON1 only carries the four polarity bits [7:4] the set-up chooses.
TypeOK ==
    /\ build \in BUILDS /\ lcd \in PANELS /\ initialized \in BOOLEAN
    /\ initialized =>
         /\ \A f \in DOMAIN s3cfb_fimd : s3cfb_fimd[f] \in Nat
         /\ s3cfb_fimd.vidcon1 \in {16 * k : k \in 0..15}

\* The timings the FIMD scans out, each register field plus one, are the
\* timings s3cfb_fimd reports to the framebuffer layer (hsync_len,
\* margins, xres, yres): the - 1 of every field, the field widths and
\* shifts of the regs-lcd.h macros, and the OR of three fields into one
\* register must lose nothing.
FimdScansReportedTiming ==
    initialized =>
      LET f == s3cfb_fimd IN
      /\ FieldOf(f.vidtcon0, 8, 16) + 1 = f.upper_margin
      /\ FieldOf(f.vidtcon0, 8, 8) + 1  = f.lower_margin
      /\ FieldOf(f.vidtcon0, 8, 0) + 1  = f.vsync_len
      /\ FieldOf(f.vidtcon1, 8, 16) + 1 = f.left_margin
      /\ FieldOf(f.vidtcon1, 8, 8) + 1  = f.right_margin
      /\ FieldOf(f.vidtcon1, 8, 0) + 1  = f.hsync_len
      /\ FieldOf(f.vidtcon2, 11, 11) + 1 = f.yres
      /\ FieldOf(f.vidtcon2, 11, 0) + 1  = f.xres

\* Both OSD windows span the whole screen the FIMD scans, (0, 0) to
\* (xres - 1, yres - 1), and the OSD and virtual resolutions agree with it.
OsdWindowsCoverScreen ==
    initialized =>
      LET f == s3cfb_fimd IN
      \A w \in {<<f.vidosd0a, f.vidosd0b>>, <<f.vidosd1a, f.vidosd1b>>} :
        /\ FieldOf(w[1], 11, 11) = 0 /\ FieldOf(w[1], 11, 0) = 0
        /\ FieldOf(w[2], 11, 11) + 1 = FieldOf(f.vidtcon2, 11, 0) + 1
        /\ FieldOf(w[2], 11, 0) + 1  = FieldOf(f.vidtcon2, 11, 11) + 1
        /\ FieldOf(w[2], 11, 11) + 1 = f.osd_xres
        /\ FieldOf(w[2], 11, 0) + 1  = f.osd_yres
        /\ f.xres_virtual = f.xres /\ f.yres_virtual = f.yres

=============================================================================
