------------------------------ MODULE MC_KXUD9 ------------------------------
(* The KXUD9 driver with one or two user processes and two output data     *)
(* rates as model values.  The processes are interchangeable, so the runs  *)
(* with two of them and only invariants use symmetry.                      *)
EXTENDS KXUD9, TLC

MC_FileOps == {"open", "release"}
MC_SysfsOps == {"enable", "disable"}
MC_NoResetOps == {"enable", "disable", "open", "release", "delay",
                  "ioctl_enable", "ioctl_disable", "ioctl_odr", "selftest",
                  "suspend"}
MC_FileResetOps == {"open", "release", "delay", "reset", "get_mg",
                    "input_open", "input_close"}
MC_ResetOps == {"open", "release", "reset"}
MC_Symmetry == Permutations(Procs)

(* kxud9_data.g_range of the board file (mach-x4412.c): KXUD9_G_2G *)
MC_GRange == "g2"
=============================================================================
