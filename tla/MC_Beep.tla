------------------------------- MODULE MC_Beep -------------------------------
EXTENDS Beep

(* Two processes writing "state"; 2 is a non-zero value other than 1 *)
MC_Writers == {"w1", "w2"}
MC_Values == {0, 1, 2}
=============================================================================
