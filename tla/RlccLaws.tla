------------------------------ MODULE RlccLaws ------------------------------
(***************************************************************************)
(* The pure arithmetic of the RLCC congestion controller                   *)
(* (src/congestion_control/rlcc.c): the translation from congestion        *)
(* window to pacing rate, the EMA helper, and the three integer action    *)
(* laws of get_result_from_reply ("plan 2", "plan 3", "plan 4").  Every    *)
(* operator is a translation of the C arithmetic: integer division is      *)
(* \div, the uint8 streak counters wrap at 256.                            *)
(*                                                                         *)
(* Units: UsecPerSec is the number of clock ticks per second (MSEC2SEC in  *)
(* the code, 10^6 for the microsecond clock); InitialRtt, SampleInterval   *)
(* and every RTT are in the same ticks, so a model may use a coarser tick  *)
(* without changing any rate.                                              *)
(***************************************************************************)
EXTENDS Integers

CONSTANTS
  MSS,            \* XQC_RLCC_MSS (= XQC_MSS), bytes per segment
  UsecPerSec,     \* MSEC2SEC: clock ticks per second
  InitialRtt,     \* XQC_kInitialRtt * 1000, in ticks
  SampleInterval, \* SAMPLE_INTERVAL (100 ms), in ticks
  CwndMax,        \* xqc_cwnd_max = (2^64 - 1) / MSEC2SEC
  PacingMax,      \* xqc_pacing_rate_max, same value
  Uint32Mod       \* 2^32: uint32_t arithmetic is taken modulo Uint32Mod

ASSUME LawsAssumption ==
  /\ MSS \in Nat \ {0}
  /\ UsecPerSec \in Nat \ {0}
  /\ InitialRtt \in Nat \ {0}
  /\ SampleInterval \in Nat \ {0}
  /\ CwndMax \in Nat
  /\ PacingMax \in Nat
  /\ 4 * MSS <= CwndMax
  /\ (2 * MSS * UsecPerSec) \div InitialRtt <= PacingMax
  /\ Uint32Mod \in Nat \ {0}
  /\ 32 < Uint32Mod    \* XQC_RLCC_INIT_WIN_INT fits a uint32_t

(* #defines of rlcc.c *)
XQC_RLCC_MIN_WINDOW_INT == 4
XQC_RLCC_INIT_WIN_INT == 32
XQC_RLCC_MIN_WINDOW == XQC_RLCC_MIN_WINDOW_INT * MSS
XQC_RLCC_INIT_WIN == XQC_RLCC_INIT_WIN_INT * MSS
XQC_DEFAULT_PACING_RATE == (2 * MSS * UsecPerSec) \div InitialRtt

(* The preset tables of the "satcc old" law (plan 3), indexed from 0 in C. *)
up_actions_list == <<30, 150, 750, 3750, 18750, 93750, 468750, 2343750>>
down_actions_list == <<1, 3, 5, 9, 15, 21, 33, 51>>

(* The value a uint32_t field keeps of a nonnegative result. *)
U32(x) == x % Uint32Mod

(* xqc_clamp of the transport's common header. *)
Clamp(x, lo, hi) == IF x < lo THEN lo ELSE IF x > hi THEN hi ELSE x

(* The srtt both translators divide by: the initial RTT on a cold start. *)
SrttOrDefault(srtt) == IF srtt = 0 THEN InitialRtt ELSE srtt

(* xqc_rlcc_calc_pacing_rate_by_cwnd stores pacing_rate twice: first the  *)
(* rate by the window (line 50), then that value clamped (line 51).       *)
PacingRateRaw(cwnd, srtt) == (cwnd * UsecPerSec) \div SrttOrDefault(srtt)

ClampPacingRate(rate) == Clamp(rate, XQC_DEFAULT_PACING_RATE, PacingMax)

(* The pacing_rate it leaves. *)
PacingRateByCwnd(cwnd, srtt) == ClampPacingRate(PacingRateRaw(cwnd, srtt))

(* Mutation: the old value weighted by rate instead of rate - 1. *)
EMANoDecay(new, old, rate) == new \div rate + (rate * old) \div rate

(* EMA(new, old, rate) in uint32 arithmetic. *)
EMA(new, old, rate) == new \div rate + ((rate - 1) * old) \div rate

(* Mutation: the floor check forgotten. *)
FloorWinMissing(cwndInt) == cwndInt

(* Mutation: the floor restores the initial window instead of the       *)
(* minimum one.                                                           *)
FloorWinInitWin(cwndInt) == IF cwndInt < XQC_RLCC_MIN_WINDOW_INT
                            THEN XQC_RLCC_INIT_WIN_INT ELSE cwndInt

(* The floor every integer law ends with. *)
FloorWin(cwndInt) == IF cwndInt < XQC_RLCC_MIN_WINDOW_INT
                     THEN XQC_RLCC_MIN_WINDOW_INT ELSE cwndInt

(* Mutation: an increase larger than the window is ignored like a decrease. *)
AddStepNoIncreaseBypass(cwndInt, v) ==
  LET tmp == IF v > 0 THEN v ELSE -v
  IN  FloorWin(IF cwndInt >= tmp THEN U32(cwndInt + v) ELSE cwndInt)

(* Plan 2 ("add rate"): a step v is applied unless it is a decrease larger *)
(* than the window itself; the uint32 sum wraps, then it is floored.       *)
AddStep(cwndInt, v) ==
  LET tmp == IF v > 0 THEN v ELSE -v
  IN  FloorWin(IF cwndInt >= tmp \/ v > 0 THEN U32(cwndInt + v) ELSE cwndInt)

(* Plan 3: a "down" or "stay" signal weakens the increase level (lines    *)
(* 236-238 and 243-245).                                                  *)
UpNDecay(n) == IF n > 0 THEN n - 1 ELSE n

(* Mutation: the cap of up_n off by one. *)
UpNRaiseOffByOne(n, upT, ifup) == IF upT > ifup /\ n < 8 THEN n + 1 ELSE n

(* Plan 3: after more than ifup consecutive increases the level rises, up *)
(* to the last table entry (lines 215-220).                               *)
UpNRaise(n, upT, ifup) == IF upT > ifup /\ n < 7 THEN n + 1 ELSE n

(* Mutation: the "if (a == 0) a = 1" of the up branch is lost. *)
UpStepNoMin(n, cwndInt) == up_actions_list[n + 1] \div cwndInt

(* Plan 3, up branch: the table entry of level n spread over the window, *)
(* at least one segment (lines 201-202).                                 *)
UpStep(n, cwndInt) ==
  LET a == up_actions_list[n + 1] \div cwndInt IN IF a = 0 THEN 1 ELSE a

(* Plan 3 ("satcc old"): one ternary signal v on the record s with fields *)
(* cwnd_int, up_times, down_times, up_n; minRtt picks the streak length.  *)
LegacyStep(s, v, minRtt) ==
  LET a     == UpStep(s.up_n, s.cwnd_int)
      upT   == (s.up_times + 1) % 256
      ifup  == IF minRtt < SampleInterval THEN 3 ELSE 1
      dec   == down_actions_list[s.down_times + 1]
      upDec == UpNDecay(s.up_n)
      r == IF v = 1
           THEN [cwnd_int   |-> U32(s.cwnd_int + a),
                 up_times   |-> upT,
                 down_times |-> 0,
                 up_n       |-> UpNRaise(s.up_n, upT, ifup)]
           ELSE IF v = -1
           THEN [cwnd_int   |-> IF s.down_times < 8
                                THEN IF s.cwnd_int > dec
                                     THEN s.cwnd_int - dec ELSE s.cwnd_int
                                ELSE s.cwnd_int - s.cwnd_int \div 2,
                 up_times   |-> 0,
                 down_times |-> (s.down_times + 1) % 256,
                 up_n       |-> upDec]
           ELSE [s EXCEPT !.up_n = upDec]
  IN  [r EXCEPT !.cwnd_int = FloorWin(@)]

(* Plan 4 ("satcc new"): the four EMAs of the record e after signal v.    *)
EmaUpdate(e, v) ==
  IF v = 0
  THEN [up_stay   |-> EMA(50000, e.up_stay, 4),
        up_change |-> EMA(50000, e.up_change, 4),
        down_stay |-> EMA(50000, e.down_stay, 4),
        down_change |-> EMA(50000, e.down_change, 4)]
  ELSE IF v = 1
  THEN [e EXCEPT !.up_change = EMA(100000, @, 16),
                 !.up_stay = EMA(2000, @, 16),
                 !.down_change = EMA(50000, @, 4)]
  ELSE IF v = -1
  THEN [e EXCEPT !.down_stay = EMA(2000, @, 16),
                 !.down_change = EMA(100000, @, 16),
                 !.up_change = EMA(50000, @, 4)]
  ELSE e

(* Mutation: the decrease step of plan 4 loses its minus sign. *)
EmaStepUnsigned(e2, v) ==
  CASE v = 1  -> e2.up_change \div e2.up_stay + 1
    [] v = -1 -> (e2.down_change \div e2.down_stay) - 1
    [] OTHER  -> v

(* The window step plan 4 derives from the updated EMAs e2: any value     *)
(* other than +1/-1 is passed through as a plain additive step.           *)
EmaStep(e2, v) ==
  CASE v = 1  -> e2.up_change \div e2.up_stay + 1
    [] v = -1 -> -(e2.down_change \div e2.down_stay) - 1
    [] OTHER  -> v
=============================================================================
