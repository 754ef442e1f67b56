# TLA+ models of the x4412 (Exynos 4412) board code

This directory holds TLA+ models of the board support code under `src/`,
the TLC configurations that check them, and `PROJECT.json`. `PROJECT.json` maps
every model definition to the source lines it translates. It also lists the
runs, the mutants, the findings and the hazards.

## The system

The repository has two halves.

**U-Boot board code** (`src/uboot/board/samsung/x4412/`):

- `malloc.c` is a freestanding arena allocator over a static 16 MB array.
  - `heap[]` and the break `__current_brk` are managed by `__brk`, `sbrk` and `brk`.
  - Every block starts with an `arena_header` (type, size, next, prev). A free block adds `next_free` and `prev_free`.
  - All blocks are on a circular, address-sorted main chain headed by `__malloc_head`. Free blocks are also on a free chain with the same head.
  - `xmalloc` rounds the request up to 16 bytes plus a header and takes the first fit on the free chain. It splits the block when the rest can hold a free header. Otherwise it gets a chunk of 64 KB multiples from `sbrk`, links it in sorted order, coalesces it and allocates from it.
  - `xfree` coalesces with both neighbours. If the result is at least 64 KB and ends at the break, it is returned with `brk`.
  - `xrealloc` and `xcalloc` call the board's `malloc` and `free`, which are not under `src/`.
- `exynos4412-fb.c` is the boot-time display driver.
  - `exynos4412_fb_initial(commandline)` picks a panel descriptor by substring of the command line, sets up the screen surface and runs `fb_init`.
  - `fb_init` sets up GPIOs, runs `lcd_init`, turns all windows and the display off, programs timing, clock, buffer size, window position and window size, enables window 0 and turns the display on.
  - Then `exynos4412_fb_initial` draws the logo (`display_logo` flushes first) and lights the backlight.
  - Afterwards the boot code may call `swap` (a pointer exchange), `flush` (program the buffer address), `backlight`, `set_progress` and `set_messge`.
  - The buffer address and the window position are written under the window's SHADOWCON protect bit. The display controller (FIMD) copies shadow registers to active ones at each frame start unless the bit is set.
- `x4412.c` sets the MPLL and FIMD clock from `bootargs` and calls `exynos4412_fb_initial`. The rest of the file is register setup.

**Linux kernel drivers** (`src/kernel/`):

- `kxud9.c` is an I2C accelerometer driver.
  - It has an atomic `enabled` flag changed by compare-exchange.
  - Polling is a self-rearming delayed work.
  - It keeps an atomic open count for the misc device.
  - It has sysfs and ioctl entry points that change the range and data rate.
  - Probe registers the device before powering it off.
- `x4412-beep.c` is the beeper driver. Module load registers a static platform device and the driver, whose probe drives GPD0(1) low and creates the sysfs attribute `state`. A write of `state` sets the pin and then `__x4412_beep_status`, in two steps and without a lock; a read reports the status. Unload frees the GPIO, then removes the attribute group.
- `x4412_lcds.c`: the kernel's panel table and `lcd=` parameter.
- `x4412_wm8960.c` is the ASoC machine driver of the WM8960 codec. Module load registers the `soc-audio` card with two DAI links, playback and capture. Both links use the one I2S controller `samsung-i2s.0`. Their common `hw_params` (`x4412_hw_params`) maps the sample format and rate to bit and root clocks per frame and an EPLL prescaler. It then sets `fout_epll` and configures the codec and CPU DAIs.
- `ov2655.c` is the V4L2 subdevice driver of the OV2655 camera sensor.
  - Module load probes the I2C client and allocates `struct ov2655_state`; unload removes it and frees it.
  - The capture host (FIMC) calls core `init` when the camera is selected, then `s_mbus_fmt`, `s_parm` and `s_stream`.
  - `s_fmt` looks the requested size up in the preview or capture table and falls back to VGA or 8 MP when it is absent. It also sets file-scope flags (`gIs_*_capture`, `cam_sw_*`) that `s_stream` reads when the camera is switched on in capture mode.
  - `ov2655_2m.c` is a second, S5K4BA-derived driver for the same chip, with the same structure.
- `dev-dm9000.c`, `mach-x4412.c`: static platform data, and the board hooks the drivers call, such as the KXUD9 `power_off` hook that drives GPX2(2) low.

**How the parts interact.** U-Boot selects a panel and clock from `bootargs`, then starts the framebuffer. The logo and progress drawing allocate transient surfaces through the board allocator. The kernel reads `lcd=` from the same command line and selects its own panel; U-Boot and the kernel default to different panels when there is no `lcd=`. The kernel drivers run concurrently: process context (open, release, ioctl, sysfs), workqueues and probe.

## Inventory: state, operations, hazards

| Component | State | Operations | What is hard to test |
|---|---|---|---|
| Arena allocator | the headers in `heap[]`, `__malloc_head`, `__current_brk` | `xmalloc`, `xfree` (`sbrk`, `brk`, `__malloc_from_block`, `__free_block`) | link surgery over several calls, the break at the end of the heap, alignment holes after a shrink, the stale block pointer after coalescing |
| Framebuffer | descriptor (`vram_front`, `vram_back`), surface pixels, shadow and active FIMD registers, SHADOWCON protect, ENVID, window enable, backlight GPIOs, `history` | `initial` (with `fb_init`, `display_logo`), `swap`, `flush`, `backlight`, `set_progress` | a frame start between two register writes, a protect bit left set, the order of enable and address programming, the progress cache |
| KXUD9 | `enabled`, open count, work pending and running, `resume[]` (rate and self-test bit), `hw_initialized`, the chip registers, `sensitivity`, the system PM state, the input event device's users | enable, disable, work, open, release, input open and close, ioctl (including `GET_MG`), sysfs, suspend, resume, probe, remove | compare-exchange racing power on and off, open and release racing, the probe window, unlocked read-modify-write of `resume[]`, resume enabling unconditionally |
| OV2655 | `struct ov2655_state` (format mode, preview and capture frame size pointers, fps), the `gIs_*_capture` and `cam_sw_*` statics, the size last reported to the host | module load and unload (probe, remove), `init`, `s_fmt`, `s_parm`, `s_stream`, `enum_framesizes` | a frame size pointer still NULL when capture streaming starts, a frame rate computed from a zero numerator, statics that outlive the device |
| WM8960 machine driver | card registered, `fout_epll` rate, the I2S bit clock divider, each link's clock setup | module load and unload, `x4412_hw_params` for either link | two links sharing one clock, a failure after the EPLL is already changed |
| Beep | module and driver binding, GPIO level, `__x4412_beep_status`, each writer's progress | load, unload (remove, attribute group removal), write, read | two unlocked writers, a write racing the unload |
| Panel selection (U-Boot, kernel) | `bootargs`, MPLL setting, FIMD rate, the chosen descriptors, `lcd_name`, the immediate FIMD registers | `x4412_framebuffer_init`, the strstr chain of `exynos4412_fb_initial`, `fb_init`'s register values, `lcd_setup`, `s3cfb_set_lcd_info` | the two stages disagreeing, a divisor rounded the wrong way, geometry registers that disagree, `getenv` returning NULL, `strcpy` into 32 bytes |

Every hazard is listed in `PROJECT.json` at its source line, with the properties that cover it.

## Modules

### `Arena` (malloc.c), instantiated by `MC_Arena`

Memory is a function `hdr` from unit addresses to header records. One unit is 16 bytes, which is `sizeof(struct arena_header)`. The head is the address `HEAD = -1`.

- The field assignments of `remove_from_*`, `__malloc_from_block` and `__free_block` are operators that map one `hdr` to the next.
- `xmalloc(n)` is one action with four disjuncts:
  - `n = 0`,
  - a first fit,
  - `sbrk` failing,
  - a new chunk being linked, coalesced and allocated from.
- `xfree(p)` is one action, including the conditional `brk`.
- `sbrk` and `brk` are operators over the break `current_brk`. Their bound check is `BrkFails`, the condition of `__brk`.
- `live` holds the pointers the caller owns. `lastCall` records the last call and its result, for the action property.

Constants:

| Constant | Stands for | Value in `MC_Arena` |
|---|---|---|
| `HEAP_UNITS` | `SZ_16M` | 20 |
| `CHUNK_UNITS` | `MALLOC_CHUNK_MASK + 1` = 64 KB | 4 |
| `ALIGN_UNITS` | the 32-byte `align_up` | 2 |

The requests 1, 20 and 70 bytes round to 2, 3 and 6 units. So a request can fit a free block whole, split one, fit no chunk, or need two chunks. Alignment holes appear, the break shrinks back, three blocks can be live at once, and the heap can be exhausted.

The code never reads a header that is no longer on a chain. The view `AllocatorView` therefore keeps only the headers reachable from `__malloc_head`. States that differ only in dead bytes are merged, which makes the run finish in seconds.

### `AllocatorSpec`: what `xmalloc` and `xfree` promise, and the refinement

`AllocatorSpec` is the abstract allocator. It has no chains, no split and no break. Its state is:

- `owned`: the blocks the caller holds, each an interval `[at, at + len)` of heap units, whose first unit is the header;
- `last`: the last call and the pointer it returned.

It has four actions:

- `Malloc(n)`: a successful `xmalloc(n)`. It returns the payload pointer of a fresh block that lies inside `heap[]`, overlaps no held block, and has at least `n` bytes after its header.
- `Fail(n)`: `xmalloc(n)` returns NULL and hands out nothing.
- `Free(b)`: removes one held block and leaves every other block exactly as it was.
- `FreeNull`: `xfree(NULL)` changes nothing. `Arena`'s `xfree` returns at once for a NULL pointer (`malloc.c:354`).

`Arena` maps onto it with `Abs == INSTANCE AllocatorSpec WITH owned <- OwnedBlocks, last <- lastCall`. `OwnedBlocks` reads, for each pointer in `live`, the header in front of it and the size that header records. `arena_pass` checks `AllocatorRefinement == Abs!Spec` as a `PROPERTY`.

- Every internal step maps to the abstract step of its call: the split, the coalescing, the chunk linking and the return of the top to the break. No internal step is a separate action.
- The refinement catches bugs the list invariants do not state directly:
  - a rounding that forgets the header (the mutant `RoundSize_one_header`);
  - a pointer computed from a stale header (`extend_heap_stale_fp`);
  - a whole block left on the free chain, which a later call hands out again (`take_whole_no_unlink`).

### `Framebuffer` (exynos4412-fb.c), instantiated by `MC_Framebuffer`

There are two actors.

1. **The boot thread.** Its `pc` starts at `board` (`BoardInit`, or `BoardInitNoEnv` when `bootargs` is unset), then walks `initial`, then the protected update of the window position, then `window0_enable`, `display_on`, `display_logo` (the flush) and `logo_backlight`, and reaches `running`. In `running`, the API calls `Swap`, `Flush`, `Backlight(b)` and `SetProgress(p)` are enabled, and `Bootm` hands over to the kernel, whose parameter parsing (`LcdSetup`) and s3cfb probe (`LcdInfo`) choose the kernel's panel from the same `bootargs`.
   - `BoardInit` is `x4412_framebuffer_init`: the command line picks the MPLL setting and the FIMD rate. `BoardInitNoEnv` is the same function with `getenv` returning NULL. `strstr` then reads address 0, which either faults (`pc = "abort"`) or finds no `lcd=`.
   - `BoardInit` calls `x4412_set_mpll` for the VGA names.
   - `Initial` is `exynos4412_fb_initial` up to `set_window_position`. It chooses the descriptor `dat`, sets up `surface`, runs `lcd_init` (backlight off) and `display_off`, and writes the immediate registers `regs`: the output path and colour order (`exynos4412_fb_set_output`, `exynos4412_fb_set_display_mode`), `CLKVAL_F`, `VIDCON1`, `VIDTCON0`-`2` and `PAGEWIDTH`. `Window0Enable` also writes `VIDOSD0C` (`set_window_size`).
   - The API calls are the operators of the code: `fb_swap` (the pointer exchange), `fb_flush` (`set_buffer_address` of the front buffer), `fb_backlight` and `lcd_backlight`.
   - `set_buffer_address` and `set_window_position` are a shared subroutine: `Protect`, `WriteStart`, `WriteEnd`, `Unprotect`. `target`, `val` and `ret` say which register pair is written, with what value, and where the thread continues afterwards.
2. **The controller.** `VSync` copies every shadow pair to the active copy at a frame start, when the display is on and the protect bit is clear. This is the hardware behaviour that the protect idiom exists for, and it is taken from the spec (`spec_modelled` in the map).

Data abstraction:

- A register pair holds the identity of the value each register was written from. `<<b, b>>` is the start and end of buffer `b`, and `<<w, w>>` the corners of window record `w` computed from the descriptor. The reset value is `UNSET`.
- A command line is the sequence of its `lcd=` values; a value is its lower-case text and whether it was spelled in lower case (see `Panels`).
- Drawing, colours and text are left out. `SetProgress` records whether it redrew, including the `surface_alloc` failure path.

`MC_Framebuffer` uses the percents `{0, 50}`, so `set_progress` is called both with a repeated percent and with a new one. It takes 11 `bootargs` values:

- unset;
- without an `lcd=` token;
- each of the six panel names in lower case;
- `VGA-1024X768`;
- `lcd=` twice, in both orders.

These reach every branch of both strstr chains, the kernel's default, its case folding and its last-token-wins parsing.

### `Panels` (exynos4412-fb.c, x4412.c, x4412_lcds.c)

A module of constants and operators with no variables.

- **Descriptors.** The five U-Boot descriptors (`UB_*`) and the six kernel descriptors (`K_*`) keep resolution, refresh rate, timing and polarity. Colour masks, output path, bpp mode, swap flags and callbacks are the same in every descriptor and are left out.
- **Selection.** `UBootSelect` is the strstr chain. `BoardClock` is the chain of `x4412_framebuffer_init`. `KernelLcdName` folds `lcd_setup` over the `lcd=` tokens. `s3cfb_set_lcd_info` looks the name up without regard to case.
- **Register values.** `PixelClock`, `ClkDiv` and `ClkvalF` are `set_clock`. `Vidcon1`, `TimingRegs`, `LcdSize`, `PageWidth`, `WindowPosition` and `WindowSize` are the other register writers of `fb_init`.
- **The string abstraction.** No modelled value is a proper prefix of another, so `strstr(cmd, "lcd=" n)` is equality with some token's value.
- **Integer arithmetic.** All values fit TLC's 32-bit integers: the largest pixel clock is 107,964,480 Hz.

### `KXUD9` (kxud9.c), instantiated by `MC_KXUD9`

There are six kinds of actor.

1. **User processes** (the set `Procs`). Which calls a run allows is the constant `Ops`. Each process calls:
   - the sysfs `enable` attribute (`CallEnable`, `CallDisable`);
   - `open` and `release` of the misc device (`CallOpen`, `CallRelease`);
   - on an open file, the ioctls `KXUD9_IOCTL_ENABLE_OUTPUT`, `KXUD9_IOCTL_DISABLE_OUTPUT`, `KXUD9_IOCTL_UPDATE_ODR`, `KXUD9_IOCTL_RESET` and `KXUD9_IOCTL_GET_MG` (`IoctlEnable`, `IoctlDisable`, `IoctlUpdateOdr`, `CallReset`, `IoctlGetMg`);
   - the sysfs `delay` attribute (`CallDelay`), which, like the rate ioctl, runs `kxud9_update_odr`;
   - the sysfs `selftest` attribute (`SelftestStore`, then `SelftestWrite`);
   - `open` and `close` of the input event device (`InputOpen`, `InputClose`).

   `upc[p]` is the label a process has reached inside `kxud9_enable` (compare-exchange, power on, schedule), `kxud9_disable` (compare-exchange, the grab and the wait of `cancel_delayed_work_sync`, power off), `kxud9_open`, `kxud9_release` (decrement, then read back), `kxud9_update_odr` (store in `resume[]`, then write to the chip if enabled) and `kxud9_selftest_store` (update `resume[]` and take a copy, then write the copy). `uret[p]` says where `kxud9_enable` and `kxud9_disable` return to. `fd[p]` counts the files a process holds open. `ucfg[p]` is the rate its update computed, and `ust[p]` the self-test bit it copied.
2. **The PM core** (the actor `"pm"`). `kxud9_suspend` is `kxud9_disable` and `kxud9_resume` is `kxud9_enable`; the actor walks the same labels. The freezer keeps user processes out of the driver from suspend until resume has returned (`Awake`), so suspend starts only when every actor is idle.
3. **The workqueue.** `WorkStart` is the timer expiring, with the pending bit `pending` cleared. `WorkRun` is `kxud9_input_work_func`: it takes `ud9->lock` (so it waits while probe holds it), reads, and re-arms itself.
4. **Probe.** `probePc` walks `kxud9_probe`:
   - `sysfs_create_group`, the platform data copy and the `resume[]` initialisation;
   - power on and `enabled = 1`;
   - range and rate (`kxud9_update_g_range` sets `sensitivity` from the platform data's `g_range`);
   - input device;
   - `misc_register`;
   - power off and `enabled = 0`.

   `ProbeFail` is the error path. It is taken only when no actor is inside a call, because `sysfs_remove_group` waits for running attribute calls.
5. **The input core** (not under `src/`, modelled from its documented behaviour). `evUsers` is the set of processes that hold the event device open. `input_open_device` and `input_close_device` hold the device's mutex (`InputBusy`) across the driver call. The first open calls `kxud9_input_open`, which is `kxud9_enable`, and the last close calls `kxud9_input_close`, which is `kxud9_disable`. The process walks the enable or disable labels with `uret[p] = "ev_unlock"`, then unlocks (`EvUnlock`). A failed enable takes the user back (`EvFail`, reached through `EnableFailed`).
6. **Remove** (the actor `"rm"`), with the module pinned while a misc file is open. `Remove` is `kxud9_input_cleanup`: `input_unregister_device` closes the event device for its remaining users, so the remover itself runs `kxud9_disable` when `evUsers` is not empty. `RemoveRest` is the rest of `kxud9_remove` (misc deregistration, power off, the sysfs group, `kfree`), taken when every other call has returned. Once remove has started, opens of either device fail (`MiscUp`, `InputUp`).

State:

- `enabled` and `count` are the two atomics.
- `hw_initialized` is the driver's flag. The supply is switched together with it: `kxud9_device_power_off` calls the board's `kxud9_power_off` (mach-x4412.c), which returns the chip to its power-on defaults.
- `chip` is what the chip really holds: CTRL_REGB's `ENABLE` and `ST` bits and CTRL_REGC's rate.
- `resume` is the rate in `resume[RES_CTRL_REGC]`, and `st` is the `ST` bit of `resume[RES_CTRL_REGB]`.
- `sensitivity` is `ud9->sensitivity`, 0 from `kzalloc` until probe sets the range. `divzero` records that `kxud9_get_mg` divided by it while it was 0 (the ARM kernel's `__div0` returns 0 rather than oopsing).
- `freed` says `ud9` has been freed.
- `pm` is the system state. `pmSaved` is a history variable: the value of `enabled` when `kxud9_suspend` was called.

`I2COutcome` is the result of a transfer. A transfer always fails with the supply off, and may fail under `I2CFails`. Rates are the model values `r1` and `r2`. The poll-interval table, the g range bits written to CTRL_REGC, the ioctls that only read (`GET_COUNT`, `GET_ENABLE`) and the axis data are left out. `GRange` is the platform data's `g_range` (`g2` on this board).

Bounds:

- one user, or two users for the races;
- at most two open files per user;
- two rates.

Every race found needs only these. The single-user pass runs explore every order of calls, suspend and resume, work and probe steps. `kxud9_pass` reaches 1,010 distinct states and `kxud9_files` 262.

### `OV2655` (ov2655.c), instantiated by `MC_OV2655`

`phase` is where the driver is: `unloaded`, `nomem` (probe's `kzalloc` failed, the module stays loaded), `bound` (probe succeeded) or `ready` (core `init` has run). `st` is the `struct ov2655_state`, `NULL` unless a device is bound. `capflags` and `sw` are the file-scope statics, which module load resets and nothing else does. `oops` records a NULL frame size pointer dereferenced by `s_stream`.

- `ov2655_mod_init` is `i2c_add_driver` with probe, including the allocation failure.
- `ov2655_mod_exit` is `i2c_del_driver` with remove.
- `ov2655_init`, `ov2655_s_fmt(f)`, `ov2655_s_parm(a)` and `ov2655_s_stream(e)` are the subdevice operations, each with every branch of its code: the portrait swap and the table fallback of `s_fmt`, the zero numerator of `s_parm` (ARM's `__div0` returns 0), the clamp to 30 fps, and the camera-on path of `s_stream`, which reads `st->capture->index`.
- `EnumFramesizes` is the `enum_framesizes` video operation: `fsize` is the size `ov2655_enum_framesizes` reports for the sensor address `SensorAddr`, from the capture flags. The chains of the sensors at 0x24/0x20 and 0x1f are sequences of (flag, size) pairs, and `FirstFlagSize` takes the first flag that is set; a chain with no flag set leaves the caller's struct `Untouched`. `init` and `s_fmt` call it on a local, so it changes nothing there.
- The frame size tables keep index, width and height. The register value column is left out.

`ov2655.h` is not in the repository. The module header states what is assumed of it: the enumerators number the table entries from 0, and `V4L2_PIX_FMT_MODE_PREVIEW` is 0.

`MC_OV2655` calls `s_fmt` with nine formats: three preview sizes, one absent from the table; three still-capture sizes (field 2) that set the still-capture flags; a capture size absent from the table; a portrait size; and a plain capture size. `s_parm` gets 1/15, 1/60, 0/30 and 2/61. `s_stream` gets every value the code tests. `SensorAddr` is the board's 0x30 (`mach-x4412.c:232`), for which `enum_framesizes` reports 640x480 whatever the flags. 1,988 distinct states.

### `X4412Audio` (x4412_wm8960.c), instantiated by `MC_X4412Audio`

- `card` is whether `x4412_audio_init` registered the card.
- `epll` is the rate of `fout_epll`, with 0 standing for its boot rate.
- `bclk_div` is the I2S bit clock divider last set.
- `cfg[l]` is what link `l`'s last successful `hw_params` set up, or `NULL`. ALSA returns a stream whose `hw_params` failed to OPEN.

`Bfs`, `Rfs` and `Psr` are the three switches of `x4412_hw_params`. An `ASSUME` checks that every format and rate the first two accept has a prescaler in the third and a bit clock that divides the root clock. `x4412_hw_params(l, f, r)` has three outcomes:

- a rejected format or rate;
- success;
- under `DaiFails`, a failure of one of the codec or CPU DAI calls after `set_epll_rate`.

The codec and CPU DAI operations (`wm8960.c`, `i2s.c`) are not in the repository.

`MC_X4412Audio` uses both links, four formats (one rejected) and every accepted rate plus one rejected rate.

### `Beep` (x4412-beep.c), instantiated by `MC_Beep`

- `loaded` is whether the module is loaded. `drv` is `none`, `bound`, or `removing` (remove has freed the GPIO but the attribute group still exists).
- `pin` is the level of GPD0(1), and `status` is `__x4412_beep_status`.
- `wpc[w]` is `status` while writer `w` is between its two steps, and `wval[w]` the status it will store.

Actions:

- `x4412_beep_init` registers the device and the driver, and probe (`BeepProbe`) drives the pin low and clears the status. After an unload the static device is still registered, so the second registration fails; this is only logged.
- `x4412_beep_exit` is `platform_driver_unregister` up to the point where `__x4412_beep_remove` has freed the GPIO.
- `RemoveGroup` is `sysfs_remove_group`, which waits for the writes in progress.
- `WritePin(w, on)` and `WriteStatus(w)` are the two steps of `x4412_beep_write`.
- `x4412_beep_read` reports the status.

`MC_Beep` has two writers and the values 0, 1 and 2 (2 is a non-zero value other than 1).

## Runs

| Run | Config | Expect | What it shows |
|---|---|---|---|
| `arena_pass` | `MC_Arena.cfg` | pass | Every sequence of `xmalloc`/`xfree` keeps these properties (181,645 distinct states, see below). |
| `arena_roundtrip` | `MC_Arena_roundtrip.cfg` | violation | `IdleArenaCoalesced`: a free-all does not coalesce back to one block. |
| `fb_pass` | `MC_Framebuffer.cfg` | pass | `ConsistentScanout`, `PixelClockNotAboveTiming`, `WindowMatchesScreen` and `FlushTakesEffect` for every `bootargs` value and every placement of frame starts (13,916 distinct states). |
| `fb_panels_agree` | `MC_Framebuffer_panels.cfg` | violation | `PanelsAgree`: the kernel picks another panel than U-Boot for the same `bootargs`. |
| `kxud9_pass` | `MC_KXUD9.cfg` | pass | One user with every sysfs attribute and every state-changing ioctl but reset, and system suspend and resume, over reliable I2C: `TypeOK`, `ChipMatchesResume`, `ReadsPoweredDevice`, `EnabledDevicePolls`. |
| `kxud9_files` | `MC_KXUD9_openclose.cfg` | pass | One file user of the misc and input devices with failing I2C, reset, `GET_MG` and remove: `EnabledMatchesDevice`, `NoWorkAfterFree`. |
| `kxud9_enable_race` | `MC_KXUD9_enable_race.cfg` | violation | `EnabledMatchesDevice`: a disable inside an enable leaves the work polling a powered-off chip. |
| `kxud9_release_race` | `MC_KXUD9_release_race.cfg` | violation | `OpenImpliesEnabled`: a release racing an open disables an open sensor. |
| `kxud9_remove` | `MC_KXUD9_remove.cfg` | violation | `NoWorkAfterFree`: remove frees `ud9` with the work queued. |
| `audio_shared_epll` | `MC_X4412Audio_duplex.cfg` | violation | `StreamClockHeld`: `hw_params` of one link reprograms the EPLL and bit clock under the other link's stream. |
| `ov2655_pass` | `MC_OV2655.cfg` | pass | `TypeOK` and `NoNullDereference` over every order of load, unload and subdevice calls (1,988 distinct states). |
| `beep_write_race` | `MC_Beep_race.cfg` | violation | `ReadMatchesPin`: two writers interleave their pin and status steps, and a read reports a state the pin does not have. |

Properties checked by `arena_pass`:

- `MainChainSorted`: the main chain is circular and doubly linked, sorted by address and non-overlapping, and lies below the break.
- `FreeChainExact`: the free chain is doubly linked, has no repeats and holds exactly the FREE blocks of the main chain.
- `Coalesced`: no two adjacent blocks are both free.
- `FreeBlocksHoldLinks`: every free block is large enough for its free links.
- `LiveBlocksOwned`: the USED blocks are exactly the blocks behind the pointers the caller holds.
- `AllocatorRefinement`: `Arena` implements `AllocatorSpec` under the mapping above. Every returned block is fresh, lies inside `heap[]`, does not overlap a held block and holds the request, and `xfree` changes no other held block.

Properties checked by `fb_pass`:

- `ConsistentScanout`: an active register pair never mixes two writes.
- `FlushTakesEffect`: a written address is eventually latched while the thread is idle.
- `PixelClockNotAboveTiming`: once the display is on, `fimd / (CLKVAL_F + 1)` is not above the chosen panel's pixel clock, and `CLKVAL_F` fits its 8-bit field. This ties the rate `x4412_framebuffer_init` fixed to the descriptor `exynos4412_fb_initial` chose and to the divisor `set_clock` wrote.
- `WindowMatchesScreen`: once window 0 is on with active geometry, its corner equals the timing generator's last pixel, its page width equals the surface pitch, and its word count equals the buffer.

`ProgressRedrawSuppressed` (a repeated percent is not redrawn) stays in `Framebuffer` but no run checks it; see the hazard at `exynos4412-fb.c:2548`.

Properties checked by the KXUD9 pass runs:

- `EnabledMatchesDevice`: when no call is in progress, `enabled` is 1 exactly when the chip is initialised and the work is queued or running.
- `ChipMatchesResume`: when no call is in progress and the chip is initialised, it is enabled with the rate and self-test bit `resume[]` holds. Every store to `resume[]` and every register write (probe, enable, the rate update, the self test, reset) can break it.
- `NoWorkAfterFree`: after a failed probe or remove, no work is queued or running.
- `ReadsPoweredDevice` (action property): the work never reads a chip that is not initialised.
- `EnabledDevicePolls` (liveness): an enabled sensor is polled until it is disabled or removed.

Properties checked by `ov2655_pass`:

- `TypeOK`, which includes that `st` is allocated exactly while a device is bound.
- `NoNullDereference`: `s_stream` never switches the camera on in capture mode with `st->capture` NULL. This relies on `s_fmt` falling back to a table entry for every size it is given, and on `init` and probe both leaving `format_mode` at preview.

`OpenImpliesEnabled` (a misc file or an input user means an enabled sensor) is used only by `kxud9_release_race`. It also fails without any race: with one user and the operations `open`, `release`, `input_open` and `input_close`, the last misc release disables the sensor while the input event device is open (22 states; see the hazard at `kxud9.c:689`).

`ResumeRestoresEnabled` (when `kxud9_resume` returns, `enabled` is what it was when `kxud9_suspend` was called) stays in `KXUD9` but no run checks it; see the hazard at `kxud9.c:939`.

`StreamClockHeld` (a stream set up by `hw_params` is clocked as it asked) is used only by `audio_shared_epll`.

`ReadMatchesPin` (while the driver is bound and no write is in progress, a read of `state` reports the pin) is used only by `beep_write_race`. `SilentWhenUnloaded` (an unloaded driver leaves the beeper silent) stays in `Beep` but no run checks it; see the hazard at `x4412-beep.c:47`.

`ScanoutProgrammed` (the display is on only with an address programmed) stays in `Framebuffer`, with `MC_Framebuffer_scanout.cfg`, but no run of the project checks it; see the hazard at `exynos4412-fb.c:663`.

Each property of a passing run has a mutant in `PROJECT.json`. A mutant replaces one translated definition with a plausible bug, such as a swap without its temporary, a dropped protect bit, a missing unlink, a missing back link, a missing merge, a split threshold one header short, a stale block pointer or a `__brk` without its upper bound. Each mutant is killed by its property.

## Fairness

`Arena`, `OV2655` and `X4412Audio` have no liveness property and no fairness.

`Beep` assumes weak fairness of `WriteStatus`: a sysfs store runs to its end. No run checks a liveness property of `Beep`; the fairness states that the writes `RemoveGroup` waits for do finish.

`Framebuffer` assumes weak fairness of the following:

- **The boot thread's own steps.** The thread is single-threaded U-Boot code that never blocks, so a step it has started completes.
- **`VSync`.** The controller starts a frame periodically while the display is on, so a continuously enabled latch happens.

The kernel's `LcdSetup` and `LcdInfo` belong to the fair thread steps: once `bootm` has run, the kernel boots. The API calls and `Bootm` have no fairness, because the boot orchestrator may stop calling at any time. The Framebuffer runs set `CHECK_DEADLOCK FALSE`: the model really ends at the kernel's panel choice and at a data abort on a NULL `bootargs`.

`KXUD9` assumes weak fairness of the following:

- **Every step a process takes inside a driver call.** Nothing a call waits for is held forever. `cancel_delayed_work_sync` waits only for a work instance that itself finishes.
- **The work.** A queued delayed work's timer expires.
- **Probe.** It runs to its end.
- **The input core's unlock and error return** (`EvUnlock`, `EvFail`), which are steps inside a call.
- **The PM core's steps inside `kxud9_suspend` and `kxud9_resume`.** Starting a suspend or a resume has no fairness: the system need not sleep or wake.

User calls and the start of `kxud9_remove` have no fairness. `RemoveRest` is weakly fair: once remove has started, it frees `ud9` when the calls in progress have returned. The KXUD9 runs set `CHECK_DEADLOCK FALSE`, because a failed probe or a remove really ends the driver.

## Findings

1. **The arena does not coalesce after a round trip** (`malloc.c:366`). `brk(ah)` can leave an unaligned break. The next `sbrk` aligns up, and the alignment hole is on no list. So the blocks on either side never merge, and the lower chunk never returns to the break.
2. **The two audio links share one clock** (`x4412_wm8960.c:123`). `x4412_hw_params` sets `fout_epll` and the I2S bit clock divider for its own format and rate. It does not look at the other link, although both links drive `samsung-i2s.0`. With playback set up for S24 at 8 kHz (EPLL 49.152 MHz), a capture `hw_params` for S16 at 8 kHz sets the EPLL to 32.768 MHz under the running playback. The EPLL changes before any call that can fail, so even a refused capture `hw_params` changes the clock.
3. **Two beeper writes race** (`x4412-beep.c:70`). `x4412_beep_write` drives the GPIO and then stores the status, without a lock. Writer 1 drives the pin low, writer 2 drives it high and stores 1, then writer 1 stores 0. A read of `state` then reports 0 while the beeper sounds.
4. **U-Boot and the kernel drive the panel differently** (`x4412_lcds.c:195`). Without an `lcd=` token, U-Boot takes vs070cxn (1024x600, the fallback the spec names), but the kernel's `lcd_name` defaults to ek070tn93 (800x480). `fb_panels_agree` reaches three more cases:
   - `lcd=vga-1920x1200`, which only the kernel knows;
   - an upper-case name, which `strcasecmp` accepts and `strstr` does not;
   - `lcd=vga-1024x768 lcd=ek070tn93`, where U-Boot's chain prefers the VGA name and the kernel keeps the last token.
5. **Enable and disable race** (`kxud9.c:421`). A disable between an enable's power on and its `schedule_delayed_work` cancels nothing. The work is then queued after the power off and re-arms forever with `enabled = 0`. Two openers releasing at once reach the same state. The mirror order fails too: with two sysfs writers, a disable whose compare-exchange runs first, then a whole enable (its power on finds the chip initialised and its `schedule_delayed_work` finds the timer pending, so both do nothing), then the rest of the disable, leaves `enabled = 1` with no work and the chip off, and a later enable is a no-op. `EnabledDevicePolls` fails in 21 states under the constants of `kxud9_enable_race`.
6. **Release races open** (`kxud9.c:689`). The decrement and the read-back are two steps, and open enables before it counts. So a release can disable the sensor under a file that was just opened. The count is the misc device's alone, so the last release also disables the sensor under an open input event device, and the last input close disables it under open misc files.
7. **Remove frees `ud9` under the work** (`kxud9.c:931`). Nothing cancels a work that a sysfs enable queued.

The hazards in `PROJECT.json` record more traces that the properties catch under other constants:

- with `UserDuringProbe = TRUE`, an open or a sysfs enable inside probe's window;
- with `I2CFails = TRUE`, a failed rate write that leaves `resume[]` ahead of the chip;
- the reset ioctl (`kxud9.c:775`) returns the chip to standby with default registers while `hw_initialized` and `enabled` stay set, so `kxud9_hw_init` never runs again until a power cycle. `ChipMatchesResume` fails in three steps under the reset operations of `MC_KXUD9`;
- `__brk` rejects `end == heap + SZ_16M` (`malloc.c:29`), so the last chunk of `heap[]` is never handed out; `FailsOnlyWhenArenaExhausted` catches it;
- with two users storing the self test at once (`kxud9.c:558`), the writes can land in the opposite order of the stores, and `ChipMatchesResume` fails; with `I2CFails`, a failed self-test write (`kxud9.c:563`) is ignored and does the same;
- `kxud9_resume` enables a sensor that was disabled before suspend (`kxud9.c:939`): `ResumeRestoresEnabled` fails after probe, suspend and resume;
- `fb_init` turns the display on with window 0 enabled before any buffer address is written (`exynos4412-fb.c:663`), which diverges from the spec's state 3; `ScanoutProgrammed` fails after eight steps under `MC_Framebuffer_scanout.cfg`, with the backlight still off;
- unloading the beeper while it sounds, or with a write racing the unload, leaves it sounding (`x4412-beep.c:47`); `SilentWhenUnloaded` fails in five steps;
- `set_progress(50)` twice draws twice (`history` is never assigned), which `ProgressRedrawSuppressed` catches under `MC_Framebuffer`.

## Plan

Modules are listed in the order they are built. The most important behaviour comes first.

1. `Arena`: done. Possible extension: an `ArenaSizing` module with 32-bit arithmetic, for the `size + 31` wrap in `xmalloc` and the `nmemb * size` product in `xcalloc`.
2. `Framebuffer`: done as above, with the panel and clock selection of both stages composed in through `Panels`. Next extension: numeric buffer addresses for the 24-bit end mask of `set_buffer_address`.
3. `KXUD9`: done as above, with the ioctls (`GET_MG` included), the self test, the sensitivity, suspend and resume, the input core and the two steps of remove. The g range bits are left out, for the reason under "Not modelled".
4. `Panels`: done (composed into `Framebuffer`).
5. `Beep`: done as above.
6. `X4412Audio`: done as above.

The abstract allocator `AllocatorSpec` is done, with `Arena` checked to refine it. The 32-bit wrap of `size + 31` is still out of reach: TLC's integers are signed 32-bit, so `2^32` cannot be formed.

## Not modelled

The following are left out because they hold no state to check:

- The OV2655 register tables and the I2C writes of `init`: `init` returns 0 whatever they do. `g_ctrl`, `g_ext_ctrls`, `queryctrl` and `g_parm` change no state.
- `ov2655_2m.c`, a second driver that registers under the same name. Its `s_stream` returns at its first statement, and `s_parm` and `g_parm` only log. Its `s_fmt` and `init` set `format_mode` and `check_previewdata`, which nothing reads. No property could tell its behaviours apart.
- The DM9000 and machine platform data, apart from the KXUD9 `power_off` hook.
- Pixel drawing, the logo decoder and its data, text output and the GPIO register values.
- The `bits_per_pixel` early return of `exynos4412_fb_initial`: every descriptor has 32 bpp, so no state takes it.
- The length of an `lcd=` value (the `strcpy` into the 32-byte `lcd_name`). The overrun corrupts whatever follows `lcd_name` in the kernel image, which is outside this code.
- `xrealloc` and `xcalloc` (they use the board allocator, which is not under `src/`).
- The KXUD9 g range bits: `kxud9_update_g_range` runs only in probe, with the platform data's value, and only the sensitivity it sets is modelled. Its read-modify-write of `resume[RES_CTRL_REGC]` can be undone by a sysfs delay store during probe (`kxud9.c:327`, `355`, `228`). On this board the lost update rewrites the same bits: `ctrl_regc_init` is `0xC3` (`mach-x4412.c:933`), which already holds `KXUD9_G_2G`, the board's `g_range`. So the bits would add state and no behaviour. The ioctls that only read (`GET_COUNT`, `GET_ENABLE`) and the axis data leave every modelled variable as it is.
- The WM8960 DAPM widgets and routes that the links' `init` callbacks add. They are data handed to the ASoC core.
