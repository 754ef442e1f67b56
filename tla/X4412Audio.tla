----------------------------- MODULE X4412Audio -----------------------------
(***************************************************************************)
(* The ASoC machine driver x4412_wm8960.c: module load and unload, which   *)
(* register and unregister the "soc-audio" card, and x4412_hw_params, the  *)
(* hw_params operation of both DAI links of the card (PRI_PLAYBACK and     *)
(* PRI_CAPTURE).  Both links use the one I2S controller samsung-i2s.0, so  *)
(* they share its root clock, the EPLL (fout_epll), and its bit clock      *)
(* divider.                                                                *)
(*                                                                         *)
(* cfg[l] is what link l's last successful hw_params set up (NULL when its *)
(* stream is not set up: ALSA returns a stream to OPEN when hw_params      *)
(* fails).  epll is the rate of fout_epll (0 stands for the rate it has at *)
(* boot) and bclk_div the SAMSUNG_I2S_DIV_BCLK divider last set.           *)
(*                                                                         *)
(* The codec and CPU DAI operations are in wm8960.c and i2s.c, which are   *)
(* not in the repository.  Under DaiFails one of the five calls after      *)
(* set_epll_rate may fail (i2s.c refuses a clock change while the other   *)
(* direction is active); none of them changes the modelled state except    *)
(* the last, set_clkdiv, so every failure has the same effect.             *)
(* clk_get("fout_epll") does not fail on this SoC, and clk_set_rate is     *)
(* taken to reach the rate asked for.  DAPM widgets and routes, added by   *)
(* the links' init callbacks, are data and are left out.                   *)
(***************************************************************************)
EXTENDS Integers

CONSTANTS
    NULL,       \* a stream that is not set up
    Links,      \* the DAI links user space opens: "playback", "capture"
    Formats,    \* the sample formats hw_params is called with
    Rates,      \* the sample rates hw_params is called with
    DaiFails    \* whether a codec or CPU DAI call may fail

VARIABLES
    card,       \* "unloaded" or "registered"
    epll,       \* the rate of fout_epll, 0 for its boot rate
    bclk_div,   \* the bit clock divider of the I2S controller, 0 if unset
    cfg         \* cfg[l]: rate, rfs, psr and bfs of link l, or NULL

vars == <<card, epll, bclk_div, cfg>>

-----------------------------------------------------------------------------
(* The three switches of x4412_hw_params; 0 where a switch returns -EINVAL *)

(* Bit clocks per frame for the sample format *)
Bfs(format) ==
    CASE format \in {"U24", "S24"} -> 48
      [] format \in {"U16_LE", "S16_LE"} -> 32
      [] OTHER -> 0

RatesCommon == {16000, 22050, 24000, 32000, 44100, 48000, 88200, 96000}
RatesLow == {8000, 11025, 12000}

(* Root clocks per frame for the sample rate *)
Rfs(rate, bfs) ==
    CASE rate \in RatesCommon -> IF bfs = 48 THEN 384 ELSE 256
      [] rate = 64000 -> 384
      [] rate \in RatesLow -> IF bfs = 48 THEN 768 ELSE 512
      [] OTHER -> 0

(* The EPLL prescaler for the root clock rclk = rate * rfs *)
Psr(rclk) ==
    CASE rclk \in {4096000, 5644800, 6144000, 8467200, 9216000} -> 8
      [] rclk \in {8192000, 11289600, 12288000, 16934400, 18432000} -> 4
      [] rclk \in {22579200, 24576000, 33868800, 36864000} -> 2
      [] rclk \in {67737600, 73728000} -> 1
      [] OTHER -> 0

(* set_epll_rate: fout_epll ends at the rate asked for; a rate equal to *)
(* the current one skips clk_set_rate, with the same result.             *)
set_epll_rate(rate) == epll' = rate

(* The three switches against the I2S clocking rules: every format and    *)
(* rate the first two switches accept has an EPLL prescaler in the third  *)
(* (never "Not yet supported!"), and the bit clock divides the root clock *)
(* (rfs is a multiple of bfs).  TLC checks it when it loads the module.   *)
ASSUME
    \A f \in {"U24", "S24", "U16_LE", "S16_LE"},
       r \in RatesCommon \cup {64000} \cup RatesLow :
        LET rfs == Rfs(r, Bfs(f))
        IN  Psr(r * rfs) # 0 /\ rfs % Bfs(f) = 0

-----------------------------------------------------------------------------

(* x4412_audio_init: platform_device_alloc and platform_device_add of   *)
(* "soc-audio" with x4412_card; either failing fails the module load.   *)
x4412_audio_init ==
    /\ card = "unloaded"
    /\ \E ok \in BOOLEAN : card' = IF ok THEN "registered" ELSE "unloaded"
    /\ cfg' = [l \in Links |-> NULL]
    /\ UNCHANGED <<epll, bclk_div>>

(* x4412_audio_exit: platform_device_unregister removes the card and     *)
(* disconnects its streams.                                              *)
x4412_audio_exit ==
    /\ card = "registered"
    /\ card' = "unloaded"
    /\ cfg' = [l \in Links |-> NULL]
    /\ UNCHANGED <<epll, bclk_div>>

(* x4412_hw_params for a substream of link l *)
x4412_hw_params(l, format, rate) ==
    LET bfs == Bfs(format)
        rfs == Rfs(rate, bfs)
        psr == Psr(rate * rfs)
    IN  /\ card = "registered"
        /\ \/ /\ bfs = 0 \/ rfs = 0 \/ psr = 0
              /\ cfg' = [cfg EXCEPT ![l] = NULL]
              /\ UNCHANGED <<epll, bclk_div>>
           \/ /\ bfs # 0 /\ rfs # 0 /\ psr # 0
              /\ set_epll_rate(rate * rfs * psr)
              /\ bclk_div' = bfs
              /\ cfg' = [cfg EXCEPT ![l] = [rate |-> rate, rfs |-> rfs,
                                            psr |-> psr, bfs |-> bfs]]
           \/ /\ DaiFails
              /\ bfs # 0 /\ rfs # 0 /\ psr # 0
              /\ set_epll_rate(rate * rfs * psr)
              /\ cfg' = [cfg EXCEPT ![l] = NULL]
              /\ UNCHANGED bclk_div
        /\ UNCHANGED card

Init ==
    /\ card = "unloaded"
    /\ epll = 0
    /\ bclk_div = 0
    /\ cfg = [l \in Links |-> NULL]

Next ==
    \/ x4412_audio_init
    \/ x4412_audio_exit
    \/ \E l \in Links, f \in Formats, r \in Rates : x4412_hw_params(l, f, r)

Spec == Init /\ [][Next]_vars

-----------------------------------------------------------------------------
(* Properties *)

Setup == [rate : Rates, rfs : {256, 384, 512, 768}, psr : {1, 2, 4, 8},
          bfs : {32, 48}]

TypeOK ==
    /\ card \in {"unloaded", "registered"}
    /\ epll \in Nat
    /\ bclk_div \in {0, 32, 48}
    /\ cfg \in [Links -> Setup \cup {NULL}]
    /\ card = "unloaded" => \A l \in Links : cfg[l] = NULL

(* A stream that hw_params set up is clocked as it asked: fout_epll runs *)
(* at rate * rfs * psr, and the I2S bit clock divider is its bfs.         *)
(* hw_params calls set_epll_rate before any call that can fail and        *)
(* without looking at the other link, so this is about the two links and  *)
(* the failure paths.                                                     *)
StreamClockHeld ==
    \A l \in Links :
        cfg[l] # NULL =>
            /\ epll = cfg[l].rate * cfg[l].rfs * cfg[l].psr
            /\ bclk_div = cfg[l].bfs

=============================================================================
