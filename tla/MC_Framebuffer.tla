--------------------------- MODULE MC_Framebuffer ---------------------------
(* The display driver with the two video buffers and the reset register   *)
(* value as model values, two progress values so that set_progress is     *)
(* called both with a repeated and a new percent, and bootargs that reach *)
(* every branch of the panel and clock selection of both boot stages:     *)
(* unset, without an lcd= token, every panel name in lower case, a VGA    *)
(* name in upper case, and two lcd= tokens.                               *)
EXTENDS Framebuffer

MC_Percents == {0, 50}

(* An lcd= value spelled in lower case, and one spelled in upper case *)
Lower(t) == [text |-> t, lower |-> TRUE]
Upper(t) == [text |-> t, lower |-> FALSE]

MC_CmdLines ==
    {NULL, <<>>,
     <<Lower("vga-1024x768")>>, <<Lower("vga-1440x900")>>,
     <<Lower("vga-1280x1024")>>, <<Lower("ek070tn93")>>,
     <<Lower("vs070cxn")>>, <<Lower("vga-1920x1200")>>,
     <<Upper("vga-1024x768")>>,
     <<Lower("ek070tn93"), Lower("vga-1024x768")>>,
     <<Lower("vga-1024x768"), Lower("ek070tn93")>>}
=============================================================================
