--------------------------- MODULE MC_RlccApplier ---------------------------
(* Small instances of RlccApplier.  The clock tick is 10 ms (UsecPerSec = *)
(* 100) and MSS is 10 bytes, so that cwnd * UsecPerSec stays inside TLC's *)
(* integers even after a reset followed by a plan-3 increase at up_n = 7  *)
(* (+585937 segments).  CwndMax and PacingMax are far above any value     *)
(* reached, as the real 1.8 * 10^13 is.  One RTT sample is below          *)
(* SAMPLE_INTERVAL and one above, so both plan-3 streak lengths occur.    *)
(* TLC cannot hold 2^32: the passing runs wrap cwnd_int at 2^30, above    *)
(* every window they reach; the wrap run uses a 16-bit word, so that two  *)
(* plan-2 steps of 40000 segments cross it as two steps of 2^31 - 1 cross *)
(* 2^32 in the code.                                                      *)
EXTENDS RlccApplier

MC_MSS == 10
MC_UsecPerSec == 100
MC_InitialRtt == 25
MC_SampleInterval == 10
MC_Max == 2147483647
MC_Uint32Mod == 1073741824
MC_SmallUint32Mod == 65536
MC_SrttSamples == {5, 20}
MC_RttSamples == {4, 12}
MC_AddActions == {-6, -3, 0, 1, 5}
MC_SignalActions == {-1, 0, 1}
MC_WrapActions == {40000}
=============================================================================
