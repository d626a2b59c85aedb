----------------------------- MODULE RlccSampler ----------------------------
(***************************************************************************)
(* The epoch scheduler of xqc_rlcc_on_ack (rlcc.c): when a state snapshot  *)
(* is due, and over which interval the snapshot's throughput and loss are  *)
(* measured.  Each ack reads the monotonic clock, runs probe_minrtt, then  *)
(* the epoch policy selected by the local "int plan" of on_ack (a        *)
(* variable here, set by Init to one of EpochPlans and never changed, so *)
(* one run covers several builds):                                        *)
(*  - plan 1: an epoch ends every min_rtt (fixed-interval policy);         *)
(*  - plan 2: wait min_rtt, then sample for min(min_rtt, SAMPLE_INTERVAL)  *)
(*    (the compiled-in "dual-window" policy);                              *)
(*  - plan 3: wait min_rtt, then sample for min_rtt.                       *)
(*                                                                         *)
(* Data is kept to the timestamps: the smoothed observables (rtt, srtt,    *)
(* inflight, lost, delivery_rate) only feed the published text and are    *)
(* not here; before_total_sent and before_lost are refreshed together      *)
(* with sent_timestamp, so sent_timestamp stands for the whole baseline.   *)
(* The throughput's divisor, current_time - sent_timestamp, is kept as     *)
(* throughput_dt.                                                          *)
(***************************************************************************)
EXTENDS Naturals

CONSTANTS
  EpochPlans,      \* the values of the local "plan" of xqc_rlcc_on_ack
  SAMPLE_INTERVAL, \* 100 ms, in clock ticks
  RttSamples,      \* sampler->rtt values an ack may carry
  MaxTime          \* bound: the last clock value

(* A round trip takes at least one clock tick. *)
ASSUME SamplerAssumption ==
  /\ EpochPlans \subseteq {1, 2, 3} /\ EpochPlans # {}
  /\ SAMPLE_INTERVAL \in Nat \ {0}
  /\ RttSamples \subseteq Nat \ {0}
  /\ MaxTime \in Nat

XQC_RLCC_INF == 2147483647   \* 0x7fffffff

VARIABLES
  plan,           \* the epoch policy compiled in: 1, 2 or 3
  now,            \* the last value xqc_monotonic_timestamp returned
  timestamp,      \* rlcc->timestamp: time of the last epoch end
  sample_start,   \* rlcc->sample_start
  sample_stop,    \* rlcc->sample_stop
  sent_timestamp, \* rlcc->sent_timestamp: start of the measured interval
  min_rtt,        \* rlcc->min_rtt
  throughput_dt,  \* current_time - sent_timestamp at the last epoch end
  epochs          \* history: number of snapshots published

vars == <<plan, now, timestamp, sample_start, sample_stop, sent_timestamp,
          min_rtt, throughput_dt, epochs>>

MinOf(a, b) == IF a < b THEN a ELSE b

(* xqc_rlcc_init: memset to 0, then the two clock reads and min_rtt = rtt *)
(* = XQC_RLCC_INF.  Init is at time 0 and both reads return it.          *)
Init ==
  /\ plan \in EpochPlans
  /\ now = 0
  /\ timestamp = 0
  /\ sample_start = 0
  /\ sample_stop = 0
  /\ sent_timestamp = 0
  /\ min_rtt = XQC_RLCC_INF
  /\ throughput_dt = 0
  /\ epochs = 0

(* probe_minrtt: a zero min_rtt counts as "no sample yet". *)
ProbeMinRtt(r) == IF min_rtt = 0 \/ r < min_rtt THEN r ELSE min_rtt

(* Plan 1: the epoch is due once min_rtt has passed since the last one.  *)
FixedEpochDue(t, m) == timestamp + m <= t

(* Mutation: the epoch end forgets "rlcc->timestamp = current_time".     *)
FixedEpochNoStamp(t) ==
  /\ throughput_dt' = t - sent_timestamp
  /\ sent_timestamp' = t
  /\ UNCHANGED <<timestamp, sample_start, sample_stop>>

(* Plan 1 epoch end: the throughput over the time since sent_timestamp,   *)
(* then both timestamps restart at now.                                   *)
FixedEpoch(t) ==
  /\ throughput_dt' = t - sent_timestamp
  /\ timestamp' = t
  /\ sent_timestamp' = t
  /\ UNCHANGED <<sample_start, sample_stop>>

(* Plans 2 and 3: an ack before sample_start seeds the baseline. *)
BeforeSample(t) == sample_start > t

(* Mutation: no wait of min_rtt before the sampling window. *)
NextStartNoWait(t, m) == t

(* The next sampling window starts min_rtt after the epoch end. *)
NextStart(t, m) == t + m

(* The end of the next sampling window. *)
NextStop(start, m) ==
  IF plan = 2 THEN start + MinOf(m, SAMPLE_INTERVAL) ELSE start + m

(* Plans 2 and 3: the before-sample block, then the epoch end if          *)
(* sample_stop has passed.  The sampling block between them only smooths  *)
(* the published observables.                                             *)
WindowEpoch(t, m) ==
  LET sent == IF BeforeSample(t) THEN t ELSE sent_timestamp
  IN  /\ sent_timestamp' = sent
      /\ IF sample_stop <= t
         THEN /\ timestamp' = t
              /\ sample_start' = NextStart(t, m)
              /\ sample_stop' = NextStop(NextStart(t, m), m)
              /\ throughput_dt' = t - sent
              /\ epochs' = epochs + 1
         ELSE UNCHANGED <<timestamp, sample_start, sample_stop,
                          throughput_dt, epochs>>

(* xqc_rlcc_on_ack at clock value t with RTT sample r.  The packet it     *)
(* acknowledges was sent after init, so r <= t.                           *)
OnAck(t, r) ==
  /\ r <= t
  /\ now' = t
  /\ min_rtt' = ProbeMinRtt(r)
  /\ UNCHANGED plan
  /\ IF plan = 1
     THEN IF FixedEpochDue(t, ProbeMinRtt(r))
          THEN FixedEpoch(t) /\ epochs' = epochs + 1
          ELSE UNCHANGED <<timestamp, sample_start, sample_stop,
                           sent_timestamp, throughput_dt, epochs>>
     ELSE WindowEpoch(t, ProbeMinRtt(r))

Next == \E t \in now..MaxTime, r \in RttSamples : OnAck(t, r)

Spec == Init /\ [][Next]_vars

-----------------------------------------------------------------------------
TypeOK ==
  /\ plan \in EpochPlans
  /\ now \in 0..MaxTime
  /\ {timestamp, sample_start, sample_stop, sent_timestamp, throughput_dt,
      epochs} \subseteq Nat
  /\ min_rtt \in RttSamples \cup {XQC_RLCC_INF}

(* The throughput of every published snapshot divides by a positive time: *)
(* current_time - sent_timestamp (lines 489, 579, 666) is never 0, even   *)
(* when several acks are processed in the same clock tick.  A zero would  *)
(* be a floating-point division by zero converted to uint32.              *)
ThroughputDefined == epochs > 0 => throughput_dt > 0

(* The length an epoch must have under each policy, for a given min_rtt. *)
EpochLength(m) ==
  IF plan = 1 THEN m
  ELSE IF plan = 2 THEN m + MinOf(m, SAMPLE_INTERVAL)
  ELSE 2 * m

(* Spec section 8, one snapshot per epoch: after the first epoch (which    *)
(* ends at the first ack, sample_stop being 0 from the memset), two epoch *)
(* ends are at least one epoch length apart for the current min_rtt,      *)
(* however the acks are spread and however min_rtt moves in between.      *)
PublishSpacing ==
  [][epochs' = epochs + 1 /\ epochs > 0 =>
       now' - timestamp >= EpochLength(min_rtt')]_vars

(* Spec section 4.2: the throughput and loss of a snapshot are measured   *)
(* over that epoch, so the baseline (sent_timestamp, before_total_sent,   *)
(* before_lost) is never older than the previous epoch end.               *)
BaselineFresh ==
  [][epochs' = epochs + 1 /\ epochs > 0 =>
       now' - throughput_dt' >= timestamp]_vars
=============================================================================
