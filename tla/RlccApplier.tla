----------------------------- MODULE RlccApplier ----------------------------
(***************************************************************************)
(* The Action Applier of rlcc.c on its own: the controller fields that     *)
(* get_result_from_reply mutates, driven by a stream of decoded actions,   *)
(* together with xqc_rlcc_reset_cwnd and the two fields the ack path       *)
(* writes and the laws read (srtt, min_rtt).  Here every operation runs    *)
(* atomically; module RlccBridge puts the same operations on two threads. *)
(*                                                                         *)
(* plan is the law compiled in (the local "int plan = 2" of              *)
(* get_result_from_reply): Init sets it to one of Plans and no step        *)
(* changes it, so one run covers several builds.  The multiplicative law  *)
(* (plan 1) works on floats and is not in this module.                     *)
(***************************************************************************)
EXTENDS RlccLaws

CONSTANTS
  Plans,       \* laws that may be compiled in: a subset of {2, 3, 4}
  Actions,     \* the integers the policy may publish
  SrttSamples, \* values the ack path may leave in rlcc->srtt
  RttSamples,  \* RTT samples seen by probe_minrtt
  MaxApplied   \* bound: number of actions applied

XQC_RLCC_INF == 2147483647   \* 0x7fffffff

ASSUME ApplierAssumption ==
  /\ Plans \subseteq {2, 3, 4} /\ Plans # {}
  /\ Actions \subseteq Int
  /\ SrttSamples \subseteq Nat
  /\ RttSamples \subseteq Nat
  /\ MaxApplied \in Nat

VARIABLES
  plan,                                 \* the action law compiled in
  cwnd, pacing_rate, cwnd_int,          \* window and rate
  up_times, down_times, up_n,           \* plan 3 streak state
  ema,                                  \* plan 4: the four EMAs
  srtt, min_rtt,                        \* written by the ack path
  applied, last                         \* history: actions applied, last one

vars == <<plan, cwnd, pacing_rate, cwnd_int, up_times, down_times, up_n, ema,
          srtt, min_rtt, applied, last>>

(* The window-unit laws end with cwnd = cwnd_int * MSS and a pacing rate  *)
(* derived from it (lines 189-190, 255-257, 291-292).                    *)
SetWindow(ci) ==
  /\ cwnd_int' = ci
  /\ cwnd' = ci * MSS
  /\ pacing_rate' = PacingRateByCwnd(ci * MSS, srtt)

(* xqc_rlcc_init, the fields of the applier. *)
Init ==
  /\ plan \in Plans
  /\ cwnd = XQC_RLCC_INIT_WIN
  /\ cwnd_int = XQC_RLCC_INIT_WIN_INT
  /\ pacing_rate = PacingRateByCwnd(XQC_RLCC_INIT_WIN, 0)
  /\ up_times = 0 /\ down_times = 0 /\ up_n = 0
  /\ ema = [up_change |-> 1000, up_stay |-> 1000,
            down_change |-> 1000, down_stay |-> 1000]
  /\ srtt = 0
  /\ min_rtt = XQC_RLCC_INF
  /\ applied = 0
  /\ last = 0

(* get_result_from_reply with the payload decoded to the integer v. *)
GetResultFromReply(v) ==
  /\ applied < MaxApplied
  /\ applied' = applied + 1
  /\ last' = v
  /\ CASE plan = 2 ->
            /\ SetWindow(AddStep(cwnd_int, v))
            /\ UNCHANGED <<up_times, down_times, up_n, ema>>
       [] plan = 3 ->
            LET r == LegacyStep([cwnd_int |-> cwnd_int, up_times |-> up_times,
                                 down_times |-> down_times, up_n |-> up_n],
                                v, min_rtt)
            IN  /\ SetWindow(r.cwnd_int)
                /\ up_times' = r.up_times
                /\ down_times' = r.down_times
                /\ up_n' = r.up_n
                /\ UNCHANGED ema
       [] plan = 4 ->
            /\ ema' = EmaUpdate(ema, v)
            /\ SetWindow(AddStep(cwnd_int, EmaStep(ema', v)))
            /\ UNCHANGED <<up_times, down_times, up_n>>
  /\ UNCHANGED <<plan, srtt, min_rtt>>

(* xqc_rlcc_reset_cwnd. *)
ResetCwnd ==
  /\ cwnd' = XQC_RLCC_MIN_WINDOW
  /\ cwnd_int' = XQC_RLCC_MIN_WINDOW_INT
  /\ pacing_rate' = PacingRateByCwnd(XQC_RLCC_MIN_WINDOW, srtt)
  /\ UNCHANGED <<plan, up_times, down_times, up_n, ema, srtt, min_rtt, applied,
                 last>>

(* The ack path's writes the laws read: probe_minrtt and the smoothed srtt *)
(* of xqc_rlcc_on_ack, the smoothing abstracted to a choice of value.      *)
OnAckSample ==
  /\ \E r \in RttSamples :
       min_rtt' = IF min_rtt = 0 \/ r < min_rtt THEN r ELSE min_rtt
  /\ srtt' \in SrttSamples
  /\ UNCHANGED <<plan, cwnd, pacing_rate, cwnd_int, up_times, down_times,
                 up_n, ema, applied, last>>

Next ==
  \/ \E v \in Actions : GetResultFromReply(v)
  \/ ResetCwnd
  \/ OnAckSample

Spec == Init /\ [][Next]_vars

-----------------------------------------------------------------------------
TypeOK ==
  /\ plan \in Plans
  /\ cwnd_int \in Nat /\ cwnd \in Nat /\ pacing_rate \in Nat
  /\ up_times \in 0..255 /\ down_times \in 0..255 /\ up_n \in 0..255
  /\ ema \in [{"up_change", "up_stay", "down_change", "down_stay"} -> Nat]
  /\ srtt \in Nat /\ min_rtt \in Nat
  /\ applied \in 0..MaxApplied /\ last \in Int

(* Spec section 8: whatever sequence of actions, resets and samples, the  *)
(* window the transport reads through get_cwnd is at least MIN_WINDOW     *)
(* whole segments and equals cwnd_int segments, and the pacing rate stays *)
(* within its bounds.                                                     *)
WindowBounds ==
  /\ cwnd_int >= XQC_RLCC_MIN_WINDOW_INT
  /\ cwnd = cwnd_int * MSS
  /\ pacing_rate \in XQC_DEFAULT_PACING_RATE..PacingMax

(* Spec section 6, the action table: an applied action with a positive   *)
(* value ("up", or a positive step) makes the window grow, under every    *)
(* law, from any state the earlier actions, resets and samples left.  The *)
(* uint32 cwnd_int wrapping around would turn an increase into a          *)
(* collapse.                                                              *)
IncreaseGrows ==
  [][applied' = applied + 1 /\ last' > 0 => cwnd_int' > cwnd_int]_vars

(* Spec section 6, the other half: an applied action with a negative     *)
(* value ("down", or a negative step) never makes the window grow; a     *)
(* decrease larger than the window must be ignored (line 182), not added *)
(* to the unsigned cwnd_int.                                             *)
DecreaseNeverGrows ==
  [][applied' = applied + 1 /\ last' < 0 => cwnd_int' <= cwnd_int]_vars

(* Plan 3 indexes up_actions_list[up_n] with an uint8 that only the up    *)
(* branch raises: after any sequence of signals the index stays inside    *)
(* the 8-entry table (lines 201 and 217-219).                             *)
UpIndexInBounds == up_n \in 0..7

(* Plan 4, spec section 8: a "stay" action (0) moves every EMA towards    *)
(* the decay target 50000 and never past it, from above or from below.   *)
Toward(old, new, target) ==
  \/ old <= new /\ new <= target
  \/ target <= new /\ new <= old
EmaStayConverges ==
  [][applied' = applied + 1 /\ last' = 0 =>
       \A f \in DOMAIN ema : Toward(ema[f], ema'[f], 50000)]_vars

=============================================================================
