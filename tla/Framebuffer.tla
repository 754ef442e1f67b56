----------------------------- MODULE Framebuffer -----------------------------
(***************************************************************************)
(* The U-Boot display driver of src/uboot/board/samsung/x4412/             *)
(* exynos4412-fb.c, with the display controller (FIMD) as a second actor.  *)
(*                                                                         *)
(* The boot thread runs exynos4412_fb_initial: fb_init programs the        *)
(* controller with the display off, enables window 0, turns the display    *)
(* on; display_logo flushes the front buffer and draws; the backlight is   *)
(* switched on.  Afterwards the boot orchestrator may call swap, flush,    *)
(* backlight and set_progress in any order.                                *)
(*                                                                         *)
(* Window 0 has shadow registers: the CPU writes the shadow copy, and the  *)
(* controller copies shadow to active at every frame start (VSync) unless  *)
(* the window's SHADOWCON protect bit is set.  Two register pairs are      *)
(* written under protect: the buffer start/end address (VIDW00ADD0B0,      *)
(* VIDW00ADD1B0) and the window geometry (VIDOSD0A, VIDOSD0B).  A pair is  *)
(* a tuple whose two components hold the value each register was written   *)
(* from: <<b, b>> is the start and the end of buffer b.                    *)
(*                                                                         *)
(* Pixel contents, timing values and colours are not modelled.             *)
(***************************************************************************)
EXTENDS Integers, Panels

CONSTANTS
    VRAM0, VRAM1,   \* &vram[0][0] and &vram[1][0]
    UNSET,          \* the reset value of a register (0)
    Percents,       \* the percentages set_progress is called with
    NULL,           \* getenv("bootargs") when bootargs is not set
    CmdLines        \* the bootargs values: NULL or sequences of lcd= values

ASSUME Percents \subseteq 0..100

VARIABLES
    pc,        \* where the boot thread is
    target,    \* register pair of the protected update in progress
    val,       \* value the protected update writes
    ret,       \* where the boot thread continues after the update
    protect,   \* SHADOWCON_PROTECT(0)
    shadow,    \* shadow copies of the register pairs
    active,    \* active copies, which the controller scans out with
    envid,     \* VIDCON0 ENVID: the display is on
    win0,      \* WINCON0 ENWIN_F: window 0 is enabled
    backlight, \* GPX3_5 high, GPD0_0 low: the backlight is lit
    front,     \* dat->vram_front
    back,      \* dat->vram_back
    pixels,    \* exynos4412_fb.surface.pixels
    history,   \* the static int history of exynos4412_set_progress
    lastCall,  \* the last call of the external API and its effect
    cmdline,   \* getenv("bootargs"), abstracted as in Panels
    mpll,      \* the MPLL setting x4412_set_mpll wrote, <<>> if none
    fimd,      \* the FIMD source rate exynos4412_fix_fimd fixed, in Hz
    dat,       \* the name of the descriptor exynos4412_fb_initial chose
    regs,      \* immediate FIMD registers: VIDCON0 CLKVAL_F, VIDTCON0-2,
               \* VIDW00ADD2 PAGEWIDTH, VIDOSD0C
    surface,   \* exynos4412_fb.surface: w, h, pitch
    lcd_name,  \* the kernel's lcd_name
    klcd       \* the name of the entry s3cfb_set_lcd_info chose

bootVars == <<cmdline, mpll, fimd, dat, regs, surface, lcd_name, klcd>>

vars == <<pc, target, val, ret, protect, shadow, active, envid, win0,
          backlight, front, back, pixels, history, lastCall, bootVars>>

Buffers == {VRAM0, VRAM1}
Pairs == {"addr", "osd"}
Labels == {"board", "abort", "initial", "protect", "write_start", "write_end", "unprotect",
           "window0_enable", "display_on", "display_logo", "logo_backlight",
           "running", "kernel_params", "kernel_lcd", "kernel"}
NoCall == [op |-> "none", percent |-> -1, drawn |-> FALSE]

(* The reset values of the immediate registers *)
RegsReset ==
    [vidout |-> "RGB", rgb_mode |-> "RGB_P", vidcon2_14 |-> 0,
     clkval |-> 0, vidcon1 |-> 0,
     vidtcon |-> [f \in DOMAIN TimingRegs(UB_vs070cxn) |-> 0],
     lcdsize |-> [hozval |-> 0, lineval |-> 0],
     pagewidth |-> 0, osdsize |-> 0]

(* The command line as the strstr calls read it: bootargs unset makes     *)
(* them read from address 0, which is taken to hold no "lcd=" token; the  *)
(* kernel is then booted with its built-in command line, which holds none *)
(* either.                                                                *)
Args == IF cmdline = NULL THEN <<>> ELSE cmdline

(* The descriptor exynos4412_fb_initial chose *)
Dat == UBootPanels[dat]

Init ==
    /\ pc = "board"
    /\ target = "addr" /\ val = UNSET /\ ret = "initial"
    /\ protect = FALSE
    /\ shadow = [r \in Pairs |-> <<UNSET, UNSET>>]
    /\ active = [r \in Pairs |-> <<UNSET, UNSET>>]
    /\ envid = FALSE /\ win0 = FALSE /\ backlight = FALSE
    /\ front = VRAM0 /\ back = VRAM1 /\ pixels = UNSET
    /\ history = -1
    /\ lastCall = NoCall
    /\ cmdline \in CmdLines
    /\ mpll = <<>> /\ fimd = 0 /\ dat = "vs070cxn"
    /\ regs = RegsReset
    /\ surface = [w |-> 0, h |-> 0, pitch |-> 0]
    /\ lcd_name = LcdNameDefault /\ klcd = "none"

(* A call of set_buffer_address or set_window_position: the thread enters  *)
(* the protect / write / write / unprotect sequence and returns to r.      *)
Call(t, v, r) ==
    /\ pc' = "protect" /\ target' = t /\ val' = v /\ ret' = r

(* A protected update that never sets the protect bit *)
Protect_dropped ==
    /\ pc = "protect"
    /\ protect' = protect
    /\ pc' = "write_start"
    /\ UNCHANGED <<target, val, ret, shadow, active, envid, win0, backlight,
                   front, back, pixels, history, lastCall, bootVars>>

(* shw |= SHADOWCON_PROTECT(id); writel(SHADOWCON, shw) *)
Protect ==
    /\ pc = "protect"
    /\ protect' = TRUE
    /\ pc' = "write_start"
    /\ UNCHANGED <<target, val, ret, shadow, active, envid, win0, backlight,
                   front, back, pixels, history, lastCall, bootVars>>

WriteReg(i, next) ==
    /\ shadow' = [shadow EXCEPT ![target][i] = val]
    /\ pc' = next
    /\ UNCHANGED <<target, val, ret, protect, active, envid, win0, backlight,
                   front, back, pixels, history, lastCall, bootVars>>

(* writel(VIDW00ADD0B0, start), or writel(VIDOSD0A, ...) *)
WriteStart == pc = "write_start" /\ WriteReg(1, "write_end")

(* writel(VIDW00ADD1B0, end), or writel(VIDOSD0B, ...) *)
WriteEnd == pc = "write_end" /\ WriteReg(2, "unprotect")

(* A protect bit that is never cleared: the clear masks with the bit       *)
(* instead of its complement.                                              *)
Unprotect_keeps_bit ==
    /\ pc = "unprotect"
    /\ protect' = protect
    /\ pc' = ret
    /\ UNCHANGED <<target, val, ret, shadow, active, envid, win0, backlight,
                   front, back, pixels, history, lastCall, bootVars>>

(* shw &= ~SHADOWCON_PROTECT(id); writel(SHADOWCON, shw); return *)
Unprotect ==
    /\ pc = "unprotect"
    /\ protect' = FALSE
    /\ pc' = ret
    /\ UNCHANGED <<target, val, ret, shadow, active, envid, win0, backlight,
                   front, back, pixels, history, lastCall, bootVars>>

(* x4412_set_mpll: MPLL_CON0 = enable | mdiv << 16 | pdiv << 8 | sdiv,   *)
(* then spin until the lock bit is set (the PLL locks).                   *)
x4412_set_mpll(m) == mpll' = m

(* x4412_framebuffer_init, the first call of board_late_init, with       *)
(* bootargs set: after exynos4412_clk_initial (not under src/), the VGA   *)
(* names reprogram the MPLL and every branch fixes the FIMD source rate;  *)
(* the call of exynos4412_fb_initial is the next step.                    *)
BoardInit ==
    /\ pc = "board"
    /\ cmdline # NULL
    /\ IF BoardClock(cmdline).mpll = <<>> THEN UNCHANGED mpll
       ELSE x4412_set_mpll(BoardClock(cmdline).mpll)
    /\ fimd' = BoardClock(cmdline).fimd
    /\ pc' = "initial"
    /\ UNCHANGED <<target, val, ret, protect, shadow, active, envid, win0,
                   backlight, front, back, pixels, history, lastCall,
                   cmdline, dat, regs, surface, lcd_name, klcd>>

(* x4412_framebuffer_init with bootargs unset: getenv returns NULL and     *)
(* strstr reads from address 0.  Whether that faults depends on the MMU   *)
(* mapping of the build, so both outcomes are possible: the data abort    *)
(* ends the boot; a read finds no "lcd=" and takes the last branch.       *)
BoardInitNoEnv ==
    /\ pc = "board"
    /\ cmdline = NULL
    /\ \/ pc' = "abort" /\ UNCHANGED <<mpll, fimd>>
       \/ pc' = "initial" /\ mpll' = mpll /\ fimd' = BoardClock(<<>>).fimd
    /\ UNCHANGED <<target, val, ret, protect, shadow, active, envid, win0,
                   backlight, front, back, pixels, history, lastCall,
                   cmdline, dat, regs, surface, lcd_name, klcd>>

(* lcd_init, the descriptors' init hook: the backlight pins GPD0_0 and    *)
(* GPX3_5 are made outputs at their disabled levels.                      *)
lcd_init == backlight' = FALSE

(* The output paths of exynos4412_fb_output_t and the VIDCON0 rgb_mode   *)
(* values of exynos4412_fb_rgb_mode_t; every descriptor has the RGB path *)
(* and BGR_P.                                                             *)
FbOutputs == {"RGB", "I80LDI0", "I80LDI1", "WB_RGB", "WB_I80LDI0", "WB_I80LDI1"}
FbOutput == "RGB"
FbRgbMode == "BGR_P"

(* exynos4412_fb_set_output: VIDCON0 VIDOUT from dat->output, then       *)
(* VIDCON2 |= 3 << 14; an output that is none of the six returns FALSE   *)
(* with both registers left, which fb_init ignores.                      *)
exynos4412_fb_set_output(r, output) ==
    IF output \in FbOutputs
    THEN [r EXCEPT !.vidout = output, !.vidcon2_14 = 3]
    ELSE r

(* exynos4412_fb_set_display_mode: VIDCON0[18:17] = dat->rgb_mode *)
exynos4412_fb_set_display_mode(r, mode) == [r EXCEPT !.rgb_mode = mode]

(* exynos4412_fb_display_off: VIDCON0 &= ~ENVID_F, then &= ~ENVID *)
display_off == envid' = FALSE

(* exynos4412_fb_initial: the screen surface over the descriptor d *)
ScreenSurface(d) ==
    [w |-> d.width, h |-> d.height, pitch |-> d.width * d.bytes_per_pixel]

(* exynos4412_fb_initial: the strstr chain chooses the descriptor (all    *)
(* have 32 bpp, so the bits_per_pixel check passes), the screen surface   *)
(* is set up on the front buffer, and fb_init runs up to the call of      *)
(* set_window_position: lcd_init drives the backlight pins to their       *)
(* disabled levels, all windows are turned off, set_output and           *)
(* set_display_mode write the output path and colour order, display_off   *)
(* clears ENVID, and set_polarity, set_timing, set_lcd_size, set_clock    *)
(* and set_buffer_size write their immediate registers.  clk_get_rate("fimd") (not under      *)
(* src/) returns the rate exynos4412_fix_fimd fixed.                      *)
Initial ==
    /\ pc = "initial"
    /\ LET n == UBootSelect(Args)
           d == UBootPanels[n]
       IN  /\ dat' = n
           /\ surface' = ScreenSurface(d)
           /\ regs' = [exynos4412_fb_set_display_mode(
                          exynos4412_fb_set_output(regs, FbOutput), FbRgbMode)
                        EXCEPT !.clkval = ClkvalF(fimd, d),
                                   !.vidcon1 = Vidcon1(d),
                                   !.vidtcon = TimingRegs(d),
                                   !.lcdsize = LcdSize(d),
                                   !.pagewidth = PageWidth(d)]
           /\ Call("osd", WindowPosition(d), "window0_enable")
    /\ pixels' = front
    /\ lcd_init /\ win0' = FALSE /\ display_off
    /\ UNCHANGED <<protect, shadow, active, front, back, history, lastCall,
                   cmdline, mpll, fimd, lcd_name, klcd>>

(* The rest of fb_init before display_on: set_window_size(dat, 0) writes  *)
(* VIDOSD0C, exynos4412_fb_window0_enable sets WINCON0 ENWIN_F and        *)
(* SHADOWCON C0_EN.                                                       *)
Window0Enable ==
    /\ pc = "window0_enable"
    /\ regs' = [regs EXCEPT !.osdsize = WindowSize(Dat)]
    /\ win0' = TRUE
    /\ pc' = "display_on"
    /\ UNCHANGED <<target, val, ret, protect, shadow, active, envid,
                   backlight, front, back, pixels, history, lastCall,
                   cmdline, mpll, fimd, dat, surface, lcd_name, klcd>>

(* exynos4412_fb_display_on: VIDCON0 |= ENVID | ENVID_F; end of fb_init *)
DisplayOn ==
    /\ pc = "display_on"
    /\ envid' = TRUE
    /\ pc' = "display_logo"
    /\ UNCHANGED <<target, val, ret, protect, shadow, active, win0,
                   backlight, front, back, pixels, history, lastCall, bootVars>>

(* fb_flush: set_buffer_address(dat, 0, dat->vram_front), returning to r *)
fb_flush(r) == Call("addr", front, r)

(* exynos4412_display_logo: exynos4412_screen_flush, then the fill and     *)
(* the logo blit into the screen surface.                                  *)
DisplayLogo ==
    /\ pc = "display_logo"
    /\ fb_flush("logo_backlight")
    /\ UNCHANGED <<protect, shadow, active, envid, win0, backlight, front,
                   back, pixels, history, lastCall, bootVars>>

(* lcd_backlight: a non-zero brightness drives GPD0_0 low and GPX3_5      *)
(* high, which lights the backlight; zero drives them back.               *)
lcd_backlight(brightness) == backlight' = (brightness # 0)

(* dat->backlight(255) at the end of exynos4412_fb_initial *)
LogoBacklight ==
    /\ pc = "logo_backlight"
    /\ lcd_backlight(255)
    /\ pc' = "running"
    /\ UNCHANGED <<target, val, ret, protect, shadow, active, envid, win0,
                   front, back, pixels, history, lastCall, bootVars>>

(* A swap without the temporary: both pointers end up at the back buffer *)
fb_swap_no_temp ==
    front' = back /\ back' = back /\ pixels' = back

(* fb_swap: exchange the buffer pointers and repoint the surface *)
fb_swap == front' = back /\ back' = front /\ pixels' = back

(* exynos4412_screen_swap *)
Swap ==
    /\ pc = "running"
    /\ fb_swap
    /\ lastCall' = [NoCall EXCEPT !.op = "swap"]
    /\ UNCHANGED <<pc, target, val, ret, protect, shadow, active, envid, win0,
                   backlight, history, bootVars>>

(* exynos4412_screen_flush *)
Flush ==
    /\ pc = "running"
    /\ fb_flush("running")
    /\ lastCall' = [NoCall EXCEPT !.op = "flush"]
    /\ UNCHANGED <<protect, shadow, active, envid, win0, backlight, front,
                   back, pixels, history, bootVars>>

(* fb_backlight: if(dat->backlight) dat->backlight(brightness); every     *)
(* descriptor has lcd_backlight.                                          *)
fb_backlight(brightness) == lcd_backlight(brightness)

(* exynos4412_screen_backlight *)
Backlight(brightness) ==
    /\ pc = "running"
    /\ fb_backlight(brightness)
    /\ lastCall' = [NoCall EXCEPT !.op = "backlight"]
    /\ UNCHANGED <<pc, target, val, ret, protect, shadow, active, envid, win0,
                   front, back, pixels, history, bootVars>>

(* exynos4412_set_progress: return if history == percent; return if        *)
(* surface_alloc fails; otherwise draw the bar into the screen surface.    *)
(* history is only ever read.                                              *)
SetProgress(percent) ==
    /\ pc = "running"
    /\ \E allocated \in BOOLEAN :
          lastCall' = [op |-> "set_progress", percent |-> percent,
                       drawn |-> history # percent /\ allocated]
    /\ UNCHANGED <<pc, target, val, ret, protect, shadow, active, envid, win0,
                   backlight, front, back, pixels, history, bootVars>>

(* bootm: U-Boot hands the bootargs to the kernel and stops; the display *)
(* keeps scanning out what U-Boot programmed.                             *)
Bootm ==
    /\ pc = "running"
    /\ pc' = "kernel_params"
    /\ UNCHANGED <<target, val, ret, protect, shadow, active, envid, win0,
                   backlight, front, back, pixels, history, lastCall,
                   bootVars>>

(* The kernel's parameter parsing calls lcd_setup for every "lcd=" token *)
LcdSetup ==
    /\ pc = "kernel_params"
    /\ lcd_name' = KernelLcdName(Args)
    /\ pc' = "kernel_lcd"
    /\ UNCHANGED <<target, val, ret, protect, shadow, active, envid, win0,
                   backlight, front, back, pixels, history, lastCall,
                   cmdline, mpll, fimd, dat, regs, surface, klcd>>

(* The s3cfb probe calls s3cfb_set_lcd_info, which chooses the panel it   *)
(* will program the controller for.                                       *)
LcdInfo ==
    /\ pc = "kernel_lcd"
    /\ klcd' = s3cfb_set_lcd_info(lcd_name).name
    /\ pc' = "kernel"
    /\ UNCHANGED <<target, val, ret, protect, shadow, active, envid, win0,
                   backlight, front, back, pixels, history, lastCall,
                   cmdline, mpll, fimd, dat, regs, surface, lcd_name>>

(* The controller at a frame start: every register pair of an unprotected  *)
(* window is copied from shadow to active.                                 *)
VSync ==
    /\ envid
    /\ ~protect
    /\ active # shadow
    /\ active' = shadow
    /\ UNCHANGED <<pc, target, val, ret, protect, shadow, envid, win0,
                   backlight, front, back, pixels, history, lastCall, bootVars>>

(* The steps of the boot thread that run to completion once begun *)
ThreadStep ==
    \/ BoardInit \/ BoardInitNoEnv
    \/ Initial \/ Protect \/ WriteStart \/ WriteEnd \/ Unprotect
    \/ Window0Enable \/ DisplayOn \/ DisplayLogo \/ LogoBacklight
    \/ LcdSetup \/ LcdInfo

(* The calls of the external API, and the boot command *)
ApiCall ==
    \/ Swap \/ Flush \/ Bootm
    \/ \E b \in {0, 255} : Backlight(b)
    \/ \E p \in Percents : SetProgress(p)

Next == ThreadStep \/ ApiCall \/ VSync

(* The boot thread is never preempted and never blocks, nor is the        *)
(* kernel's boot thread once bootm has run; the controller starts a frame *)
(* periodically while the display is on.  The API calls and bootm are     *)
(* made by the boot orchestrator, which may stop calling at any time.     *)
Spec == Init /\ [][Next]_vars /\ WF_vars(ThreadStep) /\ WF_vars(VSync)

-----------------------------------------------------------------------------

Windows == {WindowPosition(UBootPanels[n]) : n \in DOMAIN UBootPanels}
RegVals == Buffers \cup Windows \cup {UNSET}

TypeOK ==
    /\ pc \in Labels /\ ret \in Labels /\ target \in Pairs
    /\ val \in Buffers \cup Windows \cup {UNSET}
    /\ protect \in BOOLEAN /\ envid \in BOOLEAN /\ win0 \in BOOLEAN
    /\ backlight \in BOOLEAN
    /\ shadow \in [Pairs -> RegVals \X RegVals]
    /\ active \in [Pairs -> RegVals \X RegVals]
    /\ {front, back} = Buffers
    /\ pixels \in Buffers \cup {UNSET}
    /\ history \in Int
    /\ lastCall.op \in {"none", "swap", "flush", "backlight", "set_progress"}
    /\ cmdline \in CmdLines
    /\ fimd \in Nat /\ dat \in DOMAIN UBootPanels
    /\ regs.vidout \in FbOutputs
    /\ regs.rgb_mode \in {"RGB_P", "BGR_P", "RGB_S", "BGR_S"}
    /\ regs.clkval \in Nat
    /\ surface \in [w : Nat, h : Nat, pitch : Nat]
    /\ klcd \in {"none"} \cup {x4412_lcd_config[i].name : i \in 1..Len(x4412_lcd_config)}

(* The protect / write / write / unprotect idiom of set_buffer_address and *)
(* set_window_position: whatever frame start falls between two register   *)
(* writes, the controller never scans out with a start address and an end *)
(* address (or a top-left and a bottom-right corner) of different writes.  *)
ConsistentScanout ==
    \A r \in Pairs : active[r][1] = active[r][2]

(* A flush takes effect: while the boot thread is idle after the call,     *)
(* the controller eventually scans out exactly what was written to the     *)
(* shadow registers (the protect bit is cleared again by the unprotect of  *)
(* set_buffer_address).                                                    *)
FlushTakesEffect ==
    \A b \in Buffers :
        (pc = "running" /\ envid /\ shadow["addr"] = <<b, b>>)
            ~> (active["addr"] = <<b, b>> \/ pc # "running")

(* The spec's state 3: window 0 is enabled and the display forced on only  *)
(* once the buffer address registers are programmed, so the controller     *)
(* never scans out from the reset address 0.  fb_init turns the display on *)
(* before display_logo's flush programs the address.                       *)
ScanoutProgrammed ==
    (envid /\ win0) => active["addr"][1] \in Buffers

(* The spec's progress-bar idempotence: set_progress with the percent it   *)
(* was last called with does not redraw.  The code compares with history,  *)
(* which is initialised to -1 and never assigned.                          *)
ProgressRedrawSuppressed ==
    [][(lastCall'.op = "set_progress" /\ lastCall.op = "set_progress"
        /\ lastCall'.percent = lastCall.percent) => ~lastCall'.drawn]_vars

(* exynos4412_fb_set_clock rounds the divisor up: once the display is on, *)
(* the pixel clock the controller derives from the FIMD rate that         *)
(* x4412_framebuffer_init fixed, fimd / (CLKVAL_F + 1), is never above    *)
(* the one the chosen descriptor's timing asks for, and CLKVAL_F fits its *)
(* 8-bit field (VIDCON0[13:6]).                                           *)
PixelClockNotAboveTiming ==
    envid => /\ regs.clkval < 2^8
             /\ fimd <= (regs.clkval + 1) * PixelClock(Dat)

(* The window the controller scans out is the screen U-Boot draws on:    *)
(* once window 0 is on and its geometry active, its bottom-right corner   *)
(* (set_window_position) is the last pixel of the timing generator's      *)
(* frame (set_lcd_size), its line length (set_buffer_size) is the pitch   *)
(* of the screen surface, and its size in words (set_window_size) is the  *)
(* buffer the lines make up.                                              *)
WindowMatchesScreen ==
    (win0 /\ active["osd"][2] \in Windows) =>
        LET w == active["osd"][2]
        IN  /\ w.right_x = regs.lcdsize.hozval
            /\ w.bottom_y = regs.lcdsize.lineval
            /\ regs.pagewidth = surface.pitch
            /\ regs.osdsize * 4 = regs.pagewidth * (w.bottom_y + 1)

(* The fields of a descriptor the panel is driven with *)
DrivenWith(d) == [f \in DOMAIN Lcd(0, 0, 0, 0) |-> d[f]]

(* The kernel drives the panel U-Boot initialised: the entry              *)
(* s3cfb_set_lcd_info chooses from lcd_name has the resolution, refresh   *)
(* rate, timing and polarity of the descriptor exynos4412_fb_initial      *)
(* chose from the same bootargs.                                          *)
PanelsAgree ==
    pc = "kernel" =>
        DrivenWith(KernelPanel(klcd)) = DrivenWith(Dat)

=============================================================================
