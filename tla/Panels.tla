------------------------------- MODULE Panels -------------------------------
(***************************************************************************)
(* The panel tables of the two boot stages and the pure computations the   *)
(* display code does with them.                                            *)
(*                                                                         *)
(*  - U-Boot: the exynos4412_fb_data_t descriptors of exynos4412-fb.c, the *)
(*    strstr chain of exynos4412_fb_initial and of x4412_framebuffer_init  *)
(*    (x4412.c), and the register values fb_init computes from the chosen  *)
(*    descriptor.                                                          *)
(*  - Linux: the s3cfb_lcd descriptors of x4412_lcds.c, lcd_setup (the     *)
(*    handler of the "lcd=" boot parameter) and s3cfb_set_lcd_info.        *)
(*                                                                         *)
(* A command line is abstracted to the sequence of the values of its       *)
(* "lcd=" tokens, in order.  A value is a record: its text, folded to      *)
(* lower case, and whether it is spelled in lower case (lower).  strstr is *)
(* case sensitive, strcasecmp is not.  No value of the model is a proper   *)
(* prefix of another, so strstr(cmd, "lcd=" n) holds iff some token's     *)
(* value is exactly n.  Colour masks, output path, bpp mode, swap flags,   *)
(* buffers and callbacks are the same in every descriptor and left out.   *)
(***************************************************************************)
EXTENDS Integers, Sequences

LOCAL SeqExt == INSTANCE SequencesExt

Timing(hfp, hbp, hsw, vfp, vfpe, vbp, vbpe, vsw) ==
    [h_fp |-> hfp, h_bp |-> hbp, h_sw |-> hsw,
     v_fp |-> vfp, v_fpe |-> vfpe, v_bp |-> vbp, v_bpe |-> vbpe, v_sw |-> vsw]

Polarity(rise, hsync, vsync, vden) ==
    [rise_vclk |-> rise, inv_hsync |-> hsync, inv_vsync |-> vsync,
     inv_vden |-> vden]

(* The fields both stages' descriptors have: what the panel is driven with *)
Lcd(w, h, t, p) ==
    [width |-> w, height |-> h, bpp |-> 32, freq |-> 60, timing |-> t,
     polarity |-> p]

(* An exynos4412_fb_data_t: 32 bits and 4 bytes per pixel in every one *)
FbData(w, h, t, p) ==
    [width |-> w, height |-> h, bpp |-> 32, freq |-> 60, timing |-> t,
     polarity |-> p, bytes_per_pixel |-> 4]

-----------------------------------------------------------------------------
(* U-Boot, exynos4412-fb.c *)

UB_vs070cxn == FbData(1024, 600, Timing(160, 140, 20, 12, 1, 20, 1, 3),
                      Polarity(0, 1, 1, 0))
UB_ek070tn93 == FbData(800, 480, Timing(210, 38, 10, 22, 1, 18, 1, 7),
                       Polarity(0, 1, 1, 0))
UB_vga_1024_768 == FbData(1024, 768, Timing(24, 160, 136, 3, 1, 29, 1, 6),
                          Polarity(1, 0, 0, 0))
UB_vga_1440_900 == FbData(1440, 900, Timing(48, 80, 32, 3, 1, 17, 1, 6),
                          Polarity(1, 1, 0, 0))
UB_vga_1280_1024 == FbData(1280, 1024, Timing(48, 248, 112, 1, 1, 38, 1, 3),
                           Polarity(1, 1, 1, 0))

UBootPanels ==
    [n \in {"vs070cxn", "ek070tn93", "vga-1024x768", "vga-1440x900",
            "vga-1280x1024"} |->
        CASE n = "vs070cxn" -> UB_vs070cxn
          [] n = "ek070tn93" -> UB_ek070tn93
          [] n = "vga-1024x768" -> UB_vga_1024_768
          [] n = "vga-1440x900" -> UB_vga_1440_900
          [] n = "vga-1280x1024" -> UB_vga_1280_1024]

(* strstr(commandline, "lcd=" n): case sensitive *)
UBootHas(args, n) == \E i \in DOMAIN args : args[i].lower /\ args[i].text = n

(* The order of the strstr chain of exynos4412_fb_initial *)
UBootOrder == <<"vga-1024x768", "vga-1440x900", "vga-1280x1024", "ek070tn93">>

(* exynos4412_fb_initial: the first name of the chain the command line     *)
(* contains, vs070cxn when it contains none.                               *)
UBootSelect(args) ==
    LET i == SeqExt!SelectInSeq(UBootOrder, LAMBDA n : UBootHas(args, n))
    IN IF i = 0 THEN "vs070cxn" ELSE UBootOrder[i]

(* x4412_framebuffer_init: the MPLL setting (MDIV, PDIV, SDIV) it writes,  *)
(* or <<>> when it leaves the MPLL alone, and the FIMD source rate it      *)
(* fixes.  Its chain tests the three VGA names in the order of             *)
(* exynos4412_fb_initial.                                                  *)
BoardClock(args) ==
    IF UBootHas(args, "vga-1024x768")
    THEN [mpll |-> <<195, 6, 0>>, fimd |-> 780 * 1000 * 1000]
    ELSE IF UBootHas(args, "vga-1440x900")
    THEN [mpll |-> <<100, 3, 0>>, fimd |-> 800 * 1000 * 1000]
    ELSE IF UBootHas(args, "vga-1280x1024")
    THEN [mpll |-> <<100, 3, 0>>, fimd |-> 800 * 1000 * 1000]
    ELSE [mpll |-> <<>>, fimd |-> 800 * 1000 * 1000]

-----------------------------------------------------------------------------
(* The register values fb_init computes from the descriptor d *)

(* exynos4412_fb_set_clock: the pixel clock the panel timing asks for *)
PixelClock(d) ==
    d.freq * (d.timing.h_fp + d.timing.h_bp + d.timing.h_sw + d.width)
           * (d.timing.v_fp + d.timing.v_bp + d.timing.v_sw + d.height)

(* A divisor that drops the remainder *)
ClkDiv_truncates(fimd, d) == fimd \div PixelClock(d)

(* exynos4412_fb_set_clock: div = fimd / pixel_clock, rounded up *)
ClkDiv(fimd, d) ==
    LET pixel_clock == PixelClock(d)
    IN  IF fimd % pixel_clock > 0 THEN fimd \div pixel_clock + 1
                                  ELSE fimd \div pixel_clock

(* VIDCON0_CLKVAL_F(div - 1).  div is a u32_t; every FIMD rate the board *)
(* fixes is positive, so div >= 1 and div - 1 does not wrap.              *)
ClkvalF(fimd, d) == ClkDiv(fimd, d) - 1

(* exynos4412_fb_set_polarity: VIDCON1 *)
Vidcon1(d) ==
    d.polarity.rise_vclk * 2^7 + d.polarity.inv_hsync * 2^6
        + d.polarity.inv_vsync * 2^5 + d.polarity.inv_vden * 2^4

(* exynos4412_fb_set_timing: VIDTCON0 and VIDTCON1, every field value - 1 *)
TimingRegs(d) ==
    [vbpde |-> d.timing.v_bpe - 1, vbpd |-> d.timing.v_bp - 1,
     vfpd |-> d.timing.v_fp - 1, vspw |-> d.timing.v_sw - 1,
     vfpde |-> d.timing.v_fpe - 1, hbpd |-> d.timing.h_bp - 1,
     hfpd |-> d.timing.h_fp - 1, hspw |-> d.timing.h_sw - 1]

(* exynos4412_fb_set_lcd_size: VIDTCON2 *)
LcdSize(d) == [hozval |-> d.width - 1, lineval |-> d.height - 1]

(* exynos4412_fb_set_buffer_size(dat, 0): VIDW00ADD2 *)
PageWidth(d) == d.width * d.bytes_per_pixel

(* A window one pixel too wide and too high *)
WindowPosition_off_by_one(d) ==
    [left_x |-> 0, top_y |-> 0, right_x |-> d.width, bottom_y |-> d.height]

(* exynos4412_fb_set_window_position(dat, 0): VIDOSD0A and VIDOSD0B *)
WindowPosition(d) ==
    [left_x |-> 0, top_y |-> 0, right_x |-> d.width - 1,
     bottom_y |-> d.height - 1]

(* exynos4412_fb_set_window_size(dat, 0): VIDOSD0C *)
WindowSize(d) == d.width * d.height

-----------------------------------------------------------------------------
(* Linux, x4412_lcds.c *)

K_ek070tn93 == Lcd(800, 480, Timing(210, 38, 10, 22, 1, 18, 1, 7),
                   Polarity(0, 1, 1, 0))
K_vs070cxn == Lcd(1024, 600, Timing(160, 140, 20, 12, 1, 20, 1, 3),
                  Polarity(0, 1, 1, 0))
K_vga_1024_768 == Lcd(1024, 768, Timing(24, 160, 136, 3, 1, 29, 1, 6),
                      Polarity(1, 0, 0, 0))
K_vga_1440_900 == Lcd(1440, 900, Timing(48, 80, 32, 3, 1, 17, 1, 6),
                      Polarity(1, 1, 0, 0))
K_vga_1280_1024 == Lcd(1280, 1024, Timing(48, 248, 112, 1, 1, 38, 1, 3),
                       Polarity(1, 1, 1, 0))
K_vga_1920_1200 == Lcd(1920, 1200, Timing(48, 80, 32, 3, 1, 26, 1, 6),
                       Polarity(1, 1, 0, 0))

(* x4412_lcd_config[], in its order *)
x4412_lcd_config ==
    <<[name |-> "ek070tn93", lcd |-> K_ek070tn93],
      [name |-> "vs070cxn", lcd |-> K_vs070cxn],
      [name |-> "vga-1024x768", lcd |-> K_vga_1024_768],
      [name |-> "vga-1440x900", lcd |-> K_vga_1440_900],
      [name |-> "vga-1280x1024", lcd |-> K_vga_1280_1024],
      [name |-> "vga-1920x1200", lcd |-> K_vga_1920_1200]>>

(* The static initialiser of lcd_name *)
LcdNameDefault == [text |-> "ek070tn93", lower |-> TRUE]

(* lcd_setup(str): a non-empty value is copied into lcd_name *)
lcd_setup(lcd_name, str) == IF str.text # "" THEN str ELSE lcd_name

(* The kernel calls lcd_setup once for every "lcd=" token, in order *)
KernelLcdName(args) == SeqExt!FoldLeft(lcd_setup, LcdNameDefault, args)

(* s3cfb_set_lcd_info: the first entry whose name equals lcd_name up to    *)
(* case, entry 0 when none does.                                           *)
s3cfb_set_lcd_info(lcd_name) ==
    LET i == SeqExt!SelectInSeq(x4412_lcd_config,
                                LAMBDA e : e.name = lcd_name.text)
    IN  x4412_lcd_config[IF i = 0 THEN 1 ELSE i]

(* The descriptor of the x4412_lcd_config entry named n *)
KernelPanel(n) ==
    x4412_lcd_config[SeqExt!SelectInSeq(x4412_lcd_config,
                                        LAMBDA e : e.name = n)].lcd

=============================================================================
