--------------------------- MODULE MC_RlccBridge ----------------------------
(* Small instances of RlccBridge, with the units of MC_RlccApplier (10 ms *)
(* tick, MSS of 10 bytes).  The policy's actions are one decrease that    *)
(* would cross the floor after a reset and one increase (and, in the run  *)
(* without faults, a decrease larger than the window after a reset, which *)
(* line 182 refuses to apply); three epochs per controller let two        *)
(* wake-ups be lost before a third is delivered.  cwnd_int wraps at 2^20  *)
(* here: no sum of the additive law reaches it, only a decrease applied   *)
(* to a window reset under it, and the rate by such a window still fits   *)
(* TLC's integers.  With an srtt of 60 ticks the rate by a window of      *)
(* MIN_WINDOW (40 * 100 / 60) is below XQC_DEFAULT_PACING_RATE            *)
(* (2 * 10 * 100 / 25 = 80).                                              *)
EXTENDS RlccBridge

CONSTANTS c1, c2

MC_MSS == 10
MC_UsecPerSec == 100
MC_InitialRtt == 25
MC_SampleInterval == 10
MC_Max == 2147483647
MC_Uint32Mod == 1048576
MC_SrttSamples == {5, 20}
MC_LongSrttSamples == {5, 60}
MC_Actions == {-3, 2}
MC_WideActions == {-5, -3, 2}
MC_One == {c1}
MC_Two == {c1, c2}
=============================================================================
