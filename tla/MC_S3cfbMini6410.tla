---------------------------- MODULE MC_S3cfbMini6410 ----------------------------
(* Panel descriptions for the LCD set-up model.                           *)
EXTENDS S3cfbMini6410

\* Every porch and sync width at the edges of its 8-bit field (1 and 256),
\* sizes at the edges of the 11-bit fields (1 and 2048) and those of a
\* 480x272 panel, every polarity.
MC_Timings(vals) ==
    [width: {1, 480, 2048}, height: {1, 272, 2048},
     p_width: {95}, p_height: {54}, freq: {9000000}, clkval: {7},
     h_fp: vals, h_bp: vals, h_sw: vals, v_fp: vals, v_bp: vals, v_sw: vals,
     rise_vclk: BOOLEAN, inv_hsync: BOOLEAN, inv_vsync: BOOLEAN, inv_vden: BOOLEAN]
MC_PANELS == MC_Timings({1, 256})

\* Panels with a porch or sync width of 0, which the code accepts.
MC_PANELS_ZERO == MC_Timings({0, 2})

MC_BUILDS == {"EXT_MINI6410", "BUILTIN", "BUILTIN_VGA"}
MC_VIDCON1 == "undef"
=============================================================================
