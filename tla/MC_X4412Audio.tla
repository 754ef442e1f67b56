--------------------------- MODULE MC_X4412Audio ---------------------------
EXTENDS X4412Audio

(* A 16-bit format of each sign, a 24-bit one, and one the format switch *)
(* rejects                                                               *)
MC_Formats == {"S16_LE", "U16_LE", "S24", "S8"}

(* Every rate the rate switch accepts, and 176400, which it rejects *)
MC_Rates == {8000, 11025, 12000, 16000, 22050, 24000, 32000, 44100, 48000,
             64000, 88200, 96000, 176400}

MC_Duplex == {"playback", "capture"}
=============================================================================
