------------------------------ MODULE MC_OV2655 ------------------------------
(* The OV2655 driver with s_fmt requests that reach every branch of s_fmt  *)
(* and s_stream_capture, and s_parm fractions that reach every branch of   *)
(* the rate check.                                                         *)
EXTENDS OV2655

Fmt(w, h, c, f) == [width |-> w, height |-> h, colorspace |-> c, field |-> f]

(* Preview: a table size, a size not in the table, 1280 wide (sets the    *)
(* 720p switch), 640 wide (clears it).  Capture (JPEG): the still sizes of *)
(* field 2 (640x480, 1600x1200, 2592x1944), a table size other than index *)
(* 0, 3 and 7 (800x480), a portrait size (1200x1600) and a size not in the *)
(* table.                                                                  *)
MC_FmtRequests ==
    { Fmt(640, 480, "other", 1), Fmt(1024, 768, "other", 1),
      Fmt(1280, 720, "other", 1),
      Fmt(640, 480, "jpeg", 2), Fmt(1600, 1200, "jpeg", 2),
      Fmt(2592, 1944, "jpeg", 2), Fmt(800, 480, "jpeg", 1),
      Fmt(1200, 1600, "jpeg", 1), Fmt(1024, 768, "jpeg", 1) }

Parm(n, d) == [numerator |-> n, denominator |-> d]

(* 15 fps, 60 fps (clamped), a zero numerator, and 61/2 = 30 fps *)
MC_ParmRequests == { Parm(1, 15), Parm(1, 60), Parm(0, 30), Parm(2, 61) }

(* The board's sensor: I2C_BOARD_INFO("ov2655", 0x30), mach-x4412.c *)
MC_SensorAddr == 48
=============================================================================
