------------------------------- MODULE OV2655 -------------------------------
(***************************************************************************)
(* The OV2655 camera sensor subdevice driver, ov2655.c: module load and    *)
(* unload with probe and remove, and the subdevice operations that change  *)
(* state: core init, s_mbus_fmt (ov2655_s_fmt with ov2655_set_frmsize),    *)
(* s_parm and s_stream (with ov2655_s_stream_capture).                     *)
(*                                                                         *)
(* The per-device struct ov2655_state lives in st (NULL when no device is  *)
(* bound); the file-scope statics gIs_*_capture and cam_sw_* live in       *)
(* capflags and sw.  The capture host (FIMC) calls the subdevice           *)
(* operations one at a time and calls core init when a capture input is   *)
(* selected, before any video operation; phase "ready" stands for that.   *)
(*                                                                         *)
(* ov2655.h is not in the repository.  The frame size enumerators are     *)
(* taken to number the table entries from 0 in order (the layout the       *)
(* tables follow and s_stream_capture's tests of index 0, 3 and 7 rely     *)
(* on), and V4L2_PIX_FMT_MODE_PREVIEW to be 0, the value kzalloc leaves.   *)
(* Left out because no operation reads them: sensor_mode, flash_mode,      *)
(* beauty_mode, focus, gCameraId and the jpeg and exif fields.  isp.bad_fw *)
(* is 0 from kzalloc and init and nothing sets it, so its early returns    *)
(* are never taken.  ov2655_set_mode always returns 0, so CHECK_ERR never  *)
(* returns early.  The I2C register table of init is not modelled: init    *)
(* returns 0 whatever its writes do.                                       *)
(***************************************************************************)
EXTENDS Integers, Sequences

LOCAL SeqExt == INSTANCE SequencesExt

CONSTANTS
    NULL,         \* a NULL pointer
    FmtRequests,  \* the v4l2_mbus_framefmt values s_fmt is called with
    ParmRequests, \* the timeperframe fractions s_parm is called with
    SensorAddr    \* the I2C address of the sensor, gclient->addr

VARIABLES
    phase,     \* "unloaded", "nomem" (probe failed), "bound" or "ready"
    st,        \* the struct ov2655_state, or NULL
    capflags,  \* gIs_30W, gIs_720P, gIs_200W, gIs_500W_capture
    sw,        \* cam_sw_flag, cam_sw_720p, cam_sw_vga
    oops,      \* a NULL frame size pointer was dereferenced
    fsize      \* the frame size enum_framesizes last reported to the host

vars == <<phase, st, capflags, sw, oops, fsize>>

-----------------------------------------------------------------------------
(* The frame size tables, without the register value column *)

FrmSize(i, w, h) == [index |-> i, width |-> w, height |-> h]

preview_frmsizes ==
    <<FrmSize(0, 176, 144), FrmSize(1, 528, 432), FrmSize(2, 320, 240),
      FrmSize(3, 640, 480), FrmSize(4, 720, 480), FrmSize(5, 800, 480),
      FrmSize(6, 1280, 720), FrmSize(7, 1920, 1080), FrmSize(8, 3264, 2448)>>

capture_frmsizes ==
    <<FrmSize(0, 640, 480), FrmSize(1, 800, 480), FrmSize(2, 1600, 960),
      FrmSize(3, 1600, 1200), FrmSize(4, 2048, 1232), FrmSize(5, 2048, 1536),
      FrmSize(6, 2560, 1536), FrmSize(7, 2592, 1944), FrmSize(8, 3072, 1856),
      FrmSize(9, 3072, 2304), FrmSize(10, 2560, 1536),
      FrmSize(11, 3264, 2448)>>

OV2655_PREVIEW_VGA == 3
OV2655_CAPTURE_8MP == 11

(* ov2655_get_frmsize: the entry with the given index, or NULL *)
ov2655_get_frmsize(frmsizes, index) ==
    LET i == SeqExt!SelectInSeq(frmsizes, LAMBDA e : e.index = index)
    IN  IF i = 0 THEN NULL ELSE frmsizes[i]

(* The loop of s_fmt: the first entry of the size width x height, or NULL *)
FindFrmsize(frmsizes, width, height) ==
    LET i == SeqExt!SelectInSeq(frmsizes,
                 LAMBDA e : e.width = width /\ e.height = height)
    IN  IF i = 0 THEN NULL ELSE frmsizes[i]

(* The statics at module load *)
CapFlagsInit == [w30 |-> 1, w720p |-> 0, w200 |-> 0, w500 |-> 0]
SwInit == [flag |-> 0, s720p |-> 0, vga |-> 0]

(* ov2655_probe: the state kzalloc returns *)
StateZero ==
    [format_mode |-> "preview", preview |-> NULL, capture |-> NULL,
     fps |-> 0, zoom |-> 0]

-----------------------------------------------------------------------------
(* Module load: i2c_add_driver binds the board's device, ov2655_probe      *)
(* allocates the state, or fails with -ENOMEM.                            *)
ov2655_mod_init ==
    /\ phase = "unloaded"
    /\ capflags' = CapFlagsInit
    /\ sw' = SwInit
    /\ \/ phase' = "bound" /\ st' = StateZero
       \/ phase' = "nomem" /\ st' = NULL
    /\ UNCHANGED <<oops, fsize>>

(* An unload whose remove unregisters the subdevice but keeps the state *)
ov2655_mod_exit_no_kfree ==
    /\ phase \in {"nomem", "bound", "ready"}
    /\ phase' = "unloaded"
    /\ UNCHANGED <<st, capflags, sw, oops, fsize>>

(* Module unload: i2c_del_driver, which calls ov2655_remove on a bound     *)
(* device: unregister the subdevice and kfree the state.                   *)
ov2655_mod_exit ==
    /\ phase \in {"nomem", "bound", "ready"}
    /\ phase' = "unloaded"
    /\ st' = NULL
    /\ UNCHANGED <<capflags, sw, oops, fsize>>

(* ov2655_init, called by the capture host when an input is selected.    *)
(* It sets gclient, and its call of ov2655_enum_framesizes fills a local *)
(* that is then dropped.                                                 *)
ov2655_init ==
    /\ phase \in {"bound", "ready"}
    /\ phase' = "ready"
    /\ st' = [st EXCEPT !.preview = NULL, !.capture = NULL,
                        !.format_mode = "preview", !.fps = 0]
    /\ capflags' = [capflags EXCEPT !.w30 = 1]
    /\ UNCHANGED <<sw, oops, fsize>>

(* ov2655_set_zoom: qc is zeroed and never queried, so every value but 0  *)
(* is out of [minimum, maximum] and replaced by the default 0.            *)
ov2655_set_zoom(val) == IF val < 0 \/ val > 0 THEN 0 ELSE val

(* ov2655_set_frmsize: outside capture mode a non-zero zoom is set again *)
ov2655_set_frmsize(s) ==
    IF s.format_mode # "capture" /\ s.zoom # 0
    THEN [s EXCEPT !.zoom = ov2655_set_zoom(s.zoom)]
    ELSE s

(* A lookup that gives up when the size is not in the table *)
ChooseFrmsize_no_fallback(frmsizes, width, height, default) ==
    FindFrmsize(frmsizes, width, height)

(* s_fmt: the entry of the requested size, else the entry of the default *)
(* index.                                                                 *)
ChooseFrmsize(frmsizes, width, height, default) ==
    LET found == FindFrmsize(frmsizes, width, height)
    IN  IF found # NULL THEN found ELSE ov2655_get_frmsize(frmsizes, default)

(* s_fmt's bookkeeping of the 720p and VGA switches, on ffmt->width *)
SwUpdate(s, width) ==
    LET s1 == IF width = 1280 /\ s.flag = 0
              THEN [s EXCEPT !.flag = 1, !.s720p = 1] ELSE s
    IN  IF width = 640 /\ s1.flag = 1
        THEN [s1 EXCEPT !.vga = 1, !.flag = 0] ELSE s1

(* s_fmt with field 2: the still sizes select their flag, 720P cleared *)
StillFlags(flags, ffmt) ==
    CASE ffmt.field = 2 /\ ffmt.width = 640 /\ ffmt.height = 480
            -> [w30 |-> 1, w720p |-> 0, w200 |-> 0, w500 |-> 0]
      [] ffmt.field = 2 /\ ffmt.width = 1600 /\ ffmt.height = 1200
            -> [w30 |-> 0, w720p |-> 0, w200 |-> 1, w500 |-> 0]
      [] ffmt.field = 2 /\ ffmt.width = 2592 /\ ffmt.height = 1944
            -> [w30 |-> 0, w720p |-> 0, w200 |-> 0, w500 |-> 1]
      [] OTHER -> flags

(* ov2655_s_fmt (s_mbus_fmt), with ov2655_set_frmsize *)
ov2655_s_fmt(ffmt) ==
    LET portrait == ffmt.width < ffmt.height
        width    == IF portrait THEN ffmt.height ELSE ffmt.width
        height   == IF portrait THEN ffmt.width ELSE ffmt.height
        capture  == ffmt.colorspace = "jpeg"
        slot     == IF capture THEN "capture" ELSE "preview"
        chosen   == IF capture
                    THEN ChooseFrmsize(capture_frmsizes, width, height,
                                       OV2655_CAPTURE_8MP)
                    ELSE ChooseFrmsize(preview_frmsizes, width, height,
                                       OV2655_PREVIEW_VGA)
    IN  /\ phase = "ready"
        /\ sw' = SwUpdate(sw, ffmt.width)
        /\ capflags' = StillFlags(capflags, ffmt)
        /\ st' = ov2655_set_frmsize([st EXCEPT !.format_mode = slot,
                                               ![slot] = chosen])
        /\ UNCHANGED <<phase, oops, fsize>>

(* s_parm: a rate of 0 or above 30 is replaced by 30 *)
FpsClamp(fps) == IF fps <= 0 \/ fps > 30 THEN 30 ELSE fps

(* ov2655_s_parm.  A zero numerator divides by zero; the ARM kernel's     *)
(* __aeabi_uidiv reports it through __div0 and returns 0.                 *)
ov2655_s_parm(a) ==
    LET fps == IF a.numerator = 0 THEN 0 ELSE a.denominator \div a.numerator
    IN  /\ phase = "ready"
        /\ fps # st.fps => st' = [st EXCEPT !.fps = FpsClamp(fps)]
        /\ fps = st.fps => st' = st
        /\ UNCHANGED <<phase, capflags, sw, oops, fsize>>

(* ov2655_s_stream_capture: on selects the flag of capture index 0, 3 or *)
(* 7 and leaves the others; off goes back to 30W.  It reads                *)
(* state->capture->index first, on and off alike.                          *)
ov2655_s_stream_capture(enable) ==
    IF st.capture = NULL THEN capflags
    ELSE CASE ~enable -> [capflags EXCEPT !.w30 = 1, !.w200 = 0, !.w500 = 0]
           [] st.capture.index = 0
                -> [capflags EXCEPT !.w30 = 1, !.w200 = 0, !.w500 = 0]
           [] st.capture.index = 3
                -> [capflags EXCEPT !.w30 = 0, !.w200 = 1, !.w500 = 0]
           [] st.capture.index = 7
                -> [capflags EXCEPT !.w30 = 0, !.w200 = 0, !.w500 = 1]
           [] OTHER -> capflags

(* ov2655_s_stream: only camera on and off in capture mode do anything;   *)
(* preview, the movie modes and an invalid option return 0.               *)
ov2655_s_stream(enable) ==
    /\ phase = "ready"
    /\ \/ /\ enable \in {"cam_on", "cam_off"}
          /\ st.format_mode = "capture"
          /\ capflags' = ov2655_s_stream_capture(enable = "cam_on")
          /\ oops' = (st.capture = NULL)
       \/ /\ enable \in {"cam_on", "cam_off"}
          /\ st.format_mode # "capture"
          /\ UNCHANGED <<capflags, oops>>
       \/ /\ enable \in {"movie_on", "movie_off", "invalid"}
          /\ UNCHANGED <<capflags, oops>>
    /\ UNCHANGED <<phase, st, sw, fsize>>

StreamOptions == {"cam_on", "cam_off", "movie_on", "movie_off", "invalid"}

(* A frame size as enum_framesizes writes it; Untouched where it writes  *)
(* none and fsize->discrete keeps what the caller passed.                 *)
Size(w, h) == [width |-> w, height |-> h]
Untouched == Size(-1, -1)

(* The if-else chains of the sensors at 0x24 or 0x20 and at 0x1f: the    *)
(* size of the first capture flag in the chain that is set.               *)
Chain2420 == <<<<"w30", Size(800, 600)>>, <<"w720p", Size(1280, 720)>>,
               <<"w200", Size(1600, 1200)>>>>
Chain1f == <<<<"w30", Size(640, 480)>>, <<"w720p", Size(1280, 720)>>,
             <<"w200", Size(1600, 1200)>>, <<"w500", Size(2592, 1944)>>>>

FirstFlagSize(chain, flags) ==
    LET set == {i \in DOMAIN chain : flags[chain[i][1]] = 1}
    IN  IF set = {} THEN Untouched
        ELSE chain[CHOOSE i \in set : \A j \in set : i <= j][2]

(* ov2655_enum_framesizes: the size for the sensor address; the sensor at *)
(* 0x3c tells only 200W capture apart, any other address reports VGA.    *)
ov2655_enum_framesizes(addr, flags) ==
    CASE addr \in {36, 32} -> FirstFlagSize(Chain2420, flags)
      [] addr = 60 -> IF flags.w200 = 0 THEN Size(640, 480)
                                        ELSE Size(2592, 1944)
      [] addr = 31 -> FirstFlagSize(Chain1f, flags)
      [] OTHER -> Size(640, 480)

(* The enum_framesizes video operation.  gclient is set by init, which   *)
(* the host calls first (phase "ready").                                  *)
EnumFramesizes ==
    /\ phase = "ready"
    /\ fsize' = ov2655_enum_framesizes(SensorAddr, capflags)
    /\ UNCHANGED <<phase, st, capflags, sw, oops>>

-----------------------------------------------------------------------------
Init ==
    /\ phase = "unloaded"
    /\ st = NULL
    /\ capflags = CapFlagsInit
    /\ sw = SwInit
    /\ oops = FALSE
    /\ fsize = Untouched

(* A NULL dereference oopses the calling thread; nothing runs after it *)
Next ==
    \/ ~oops /\ ov2655_mod_init
    \/ ~oops /\ ov2655_mod_exit
    \/ ~oops /\ ov2655_init
    \/ ~oops /\ \E f \in FmtRequests : ov2655_s_fmt(f)
    \/ ~oops /\ \E a \in ParmRequests : ov2655_s_parm(a)
    \/ ~oops /\ \E e \in StreamOptions : ov2655_s_stream(e)
    \/ ~oops /\ EnumFramesizes

Spec == Init /\ [][Next]_vars

-----------------------------------------------------------------------------
FrmSizes == {preview_frmsizes[i] : i \in DOMAIN preview_frmsizes}
                \cup {capture_frmsizes[i] : i \in DOMAIN capture_frmsizes}

(* The state is allocated exactly while a device is bound *)
TypeOK ==
    /\ phase \in {"unloaded", "nomem", "bound", "ready"}
    /\ (st # NULL) = (phase \in {"bound", "ready"})
    /\ st # NULL =>
          /\ st.format_mode \in {"preview", "capture"}
          /\ st.preview \in FrmSizes \cup {NULL}
          /\ st.capture \in FrmSizes \cup {NULL}
          /\ st.fps \in Nat
          /\ st.zoom \in Int
    /\ capflags \in [{"w30", "w720p", "w200", "w500"} -> {0, 1}]
    /\ sw \in [{"flag", "s720p", "vga"} -> {0, 1}]
    /\ oops \in BOOLEAN
    /\ fsize \in {Untouched, Size(640, 480), Size(800, 600), Size(1280, 720),
                  Size(1600, 1200), Size(2592, 1944)}

(* ov2655_s_stream_capture reads state->capture->index whenever a camera  *)
(* stream is switched in capture mode.  It relies on s_fmt always leaving *)
(* a capture entry (falling back to 8MP for a size not in the table) and  *)
(* on init clearing format_mode together with capture.  No call sequence  *)
(* dereferences a NULL frame size.                                        *)
NoNullDereference == ~oops

====
