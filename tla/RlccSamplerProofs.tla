-------------------------- MODULE RlccSamplerProofs --------------------------
(***************************************************************************)
(* Proofs, for every value of the constants, that the epoch scheduler of   *)
(* xqc_rlcc_on_ack never divides the throughput by a zero interval and    *)
(* spaces its snapshots at least one epoch length apart.                  *)
(*                                                                         *)
(* Neither property is inductive.  The strengthening SInv says:           *)
(*  - the plan is one of the three policies;                             *)
(*  - under plan 1, sent_timestamp and timestamp are reset together;      *)
(*  - under plans 2 and 3, before the first epoch end the window fields   *)
(*    are still 0 from the memset; after it, the baseline is older than   *)
(*    sample_start, sample_start <= sample_stop, and sample_stop is one   *)
(*    epoch length (for the current min_rtt) after the last epoch end.    *)
(* The last fact needs min_rtt to be non-increasing, which needs it never *)
(* to be 0: a round trip takes at least one tick.                         *)
(***************************************************************************)
EXTENDS RlccSampler, TLAPS

SInv ==
  /\ plan \in {1, 2, 3}
  /\ now \in Nat /\ timestamp \in Nat /\ sample_start \in Nat
  /\ sample_stop \in Nat /\ sent_timestamp \in Nat /\ throughput_dt \in Nat
  /\ epochs \in Nat /\ min_rtt \in Nat \ {0}
  /\ epochs > 0 => throughput_dt > 0
  /\ plan = 1 => sent_timestamp = timestamp
  /\ plan # 1 /\ epochs = 0 =>
       sample_start = 0 /\ sample_stop = 0 /\ sent_timestamp = 0
  /\ plan # 1 /\ epochs > 0 =>
       /\ sent_timestamp < sample_start
       /\ sample_start <= sample_stop
       /\ sample_stop >= timestamp + EpochLength(min_rtt)

(* The epoch length grows with min_rtt under every policy. *)
LEMMA EpochLengthMonotone ==
  ASSUME NEW a \in Nat, NEW b \in Nat, a <= b, plan \in {1, 2, 3}
  PROVE  EpochLength(a) <= EpochLength(b)
BY SamplerAssumption DEF EpochLength, MinOf

(* No step changes the policy, so the epoch length after a step is the    *)
(* one of the same policy for the new min_rtt.                            *)
LEMMA EpochLengthPrime ==
  ASSUME plan' = plan
  PROVE  EpochLength(min_rtt)' = EpochLength(min_rtt')
BY DEF EpochLength, MinOf

(* probe_minrtt never raises a nonzero min_rtt and never returns 0. *)
LEMMA ProbeBounds ==
  ASSUME NEW r \in RttSamples, min_rtt \in Nat \ {0}
  PROVE  /\ ProbeMinRtt(r) \in Nat \ {0}
         /\ ProbeMinRtt(r) <= min_rtt
         /\ ProbeMinRtt(r) <= r
BY SamplerAssumption DEF ProbeMinRtt

LEMMA SInvInit == Init => SInv
BY SamplerAssumption DEF Init, SInv, XQC_RLCC_INF

(* Plan 1: an ack either ends the epoch with both timestamps at now, or   *)
(* changes nothing but the clock and min_rtt.                             *)
LEMMA StepPlan1 ==
  ASSUME SInv, plan = 1, NEW t \in now..MaxTime, NEW r \in RttSamples,
         OnAck(t, r)
  PROVE  SInv'
<1> DEFINE m == ProbeMinRtt(r)
<1>1. m \in Nat \ {0} /\ m <= r /\ r <= t /\ t \in Nat
  BY ProbeBounds DEF SInv, OnAck
<1>2. CASE FixedEpochDue(t, m)
  <2>1. /\ throughput_dt' = t - sent_timestamp /\ timestamp' = t
        /\ sent_timestamp' = t /\ epochs' = epochs + 1 /\ min_rtt' = m
        /\ UNCHANGED <<sample_start, sample_stop, plan>> /\ now' = t
    BY <1>2 DEF OnAck, FixedEpoch
  <2>2. t - sent_timestamp > 0
    BY <1>1, <1>2 DEF FixedEpochDue, SInv
  <2>. QED  BY <1>1, <2>1, <2>2 DEF SInv
<1>3. CASE ~FixedEpochDue(t, m)
  <2>1. /\ UNCHANGED <<timestamp, sample_start, sample_stop, sent_timestamp,
                       throughput_dt, epochs, plan>>
        /\ min_rtt' = m /\ now' = t
    BY <1>3 DEF OnAck
  <2>. QED  BY <1>1, <2>1 DEF SInv
<1>. QED  BY <1>2, <1>3

(* Plans 2 and 3, an ack that ends an epoch.  The baseline it divides by  *)
(* is older than sample_start, which is not after the ack.                *)
LEMMA StepWindowEnd ==
  ASSUME SInv, plan # 1, NEW t \in now..MaxTime, NEW r \in RttSamples,
         OnAck(t, r), sample_stop <= t
  PROVE  SInv'
<1> DEFINE m == ProbeMinRtt(r)
           sent == IF BeforeSample(t) THEN t ELSE sent_timestamp
<1>1. m \in Nat \ {0} /\ t \in Nat /\ t >= 1
  BY ProbeBounds, SamplerAssumption DEF SInv, OnAck
<1>2. /\ sent_timestamp' = sent /\ timestamp' = t
      /\ sample_start' = t + m
      /\ sample_stop' = NextStop(t + m, m)
      /\ throughput_dt' = t - sent /\ epochs' = epochs + 1
      /\ min_rtt' = m /\ now' = t /\ plan' = plan
  BY DEF OnAck, WindowEpoch, NextStart
<1>3. sent = sent_timestamp /\ sent_timestamp < t
  <2>1. CASE epochs = 0
    <3>1. sample_start = 0 /\ sent_timestamp = 0
      BY <2>1 DEF SInv
    <3>. QED  BY <3>1, <1>1 DEF BeforeSample
  <2>2. CASE epochs > 0
    <3>1. sample_stop <= t /\ sample_start <= sample_stop
          /\ sent_timestamp < sample_start
      BY <2>2 DEF SInv
    <3>. QED  BY <3>1, <1>1 DEF BeforeSample, SInv
  <2>. QED  BY <2>1, <2>2 DEF SInv
<1>4. /\ NextStop(t + m, m) = t + EpochLength(m)
      /\ t + m <= NextStop(t + m, m)
      /\ EpochLength(m) \in Nat
  BY <1>1, SamplerAssumption DEF NextStop, EpochLength, MinOf, SInv
<1>5. sent_timestamp \in Nat
  BY DEF SInv
<1>6. /\ sent_timestamp' < sample_start'
      /\ sample_start' <= sample_stop'
      /\ sample_stop' >= timestamp' + EpochLength(min_rtt')
  <2>1. sent_timestamp' < sample_start'
    BY <1>1, <1>2, <1>3, <1>5
  <2>2. sample_start' <= sample_stop'
    BY <1>2, <1>4
  <2>3. EpochLength(min_rtt') = EpochLength(m)
    BY <1>2
  <2>4. sample_stop' >= timestamp' + EpochLength(min_rtt')
    BY <1>2, <1>4, <2>3
  <2>. QED  BY <2>1, <2>2, <2>4
<1>7. /\ throughput_dt' \in Nat /\ throughput_dt' > 0
      /\ epochs' \in Nat /\ epochs' > 0
  BY <1>2, <1>3, <1>5 DEF SInv
<1>8. /\ sample_start' \in Nat /\ sample_stop' \in Nat
      /\ timestamp' \in Nat /\ sent_timestamp' \in Nat
      /\ now' \in Nat /\ min_rtt' \in Nat \ {0}
  BY <1>1, <1>2, <1>3, <1>4, <1>5
<1>. QED  BY <1>2, <1>6, <1>7, <1>8, EpochLengthPrime DEF SInv

(* Plans 2 and 3, an ack inside an epoch: only the baseline may move, to  *)
(* the ack's time, which is before sample_start.                          *)
LEMMA StepWindowInside ==
  ASSUME SInv, plan # 1, NEW t \in now..MaxTime, NEW r \in RttSamples,
         OnAck(t, r), ~(sample_stop <= t)
  PROVE  SInv'
<1> DEFINE m == ProbeMinRtt(r)
<1>1. m \in Nat \ {0} /\ m <= min_rtt /\ t \in Nat
  BY ProbeBounds, SamplerAssumption DEF SInv
<1>2. /\ sent_timestamp' = IF BeforeSample(t) THEN t ELSE sent_timestamp
      /\ UNCHANGED <<timestamp, sample_start, sample_stop, throughput_dt,
                     epochs>>
      /\ min_rtt' = m /\ now' = t /\ plan' = plan
  BY DEF OnAck, WindowEpoch
<1>3. epochs > 0
  BY <1>1 DEF SInv
<1>4. EpochLength(m) <= EpochLength(min_rtt)
  BY <1>1, EpochLengthMonotone DEF SInv
<1>5. sent_timestamp' < sample_start' /\ sent_timestamp' \in Nat
  BY <1>1, <1>2, <1>3 DEF SInv, BeforeSample
<1>6. sample_stop' >= timestamp' + EpochLength(min_rtt')
  <2>1. EpochLength(m) \in Nat /\ EpochLength(min_rtt) \in Nat
    BY <1>1, SamplerAssumption DEF SInv, EpochLength, MinOf
  <2>. QED  BY <1>2, <1>3, <1>4, <2>1, EpochLengthPrime DEF SInv
<1>. QED  BY <1>1, <1>2, <1>3, <1>5, <1>6, EpochLengthPrime DEF SInv

LEMMA SInvStep == SInv /\ [Next]_vars => SInv'
<1> SUFFICES ASSUME SInv, [Next]_vars PROVE SInv'
  OBVIOUS
<1>1. CASE UNCHANGED vars
  BY <1>1 DEF SInv, vars, EpochLength
<1>2. CASE Next
  <2>1. PICK t \in now..MaxTime, r \in RttSamples : OnAck(t, r)
    BY <1>2 DEF Next
  <2>2. CASE plan = 1
    BY <2>1, <2>2, StepPlan1
  <2>3. CASE plan # 1 /\ sample_stop <= t
    BY <2>1, <2>3, StepWindowEnd
  <2>4. CASE plan # 1 /\ ~(sample_stop <= t)
    BY <2>1, <2>4, StepWindowInside
  <2>. QED  BY <2>2, <2>3, <2>4
<1>. QED  BY <1>1, <1>2

(* The throughput of every snapshot xqc_rlcc_on_ack publishes is divided  *)
(* by a positive interval, under each of the three epoch policies.        *)
THEOREM ThroughputDefinedThm == Spec => []ThroughputDefined
<1>1. SInv => ThroughputDefined
  BY DEF SInv, ThroughputDefined
<1>. QED  BY <1>1, SInvInit, SInvStep, PTL DEF Spec

(* A step that ends an epoch after the first comes at least one epoch     *)
(* length, for the min_rtt it leaves, after the previous epoch end.       *)
LEMMA SpacingStep ==
  SInv /\ [Next]_vars =>
    [epochs' = epochs + 1 /\ epochs > 0 =>
       now' - timestamp >= EpochLength(min_rtt')]_vars
<1> SUFFICES ASSUME SInv, [Next]_vars, epochs' = epochs + 1, epochs > 0
             PROVE  now' - timestamp >= EpochLength(min_rtt')
  OBVIOUS
<1>1. Next
  BY DEF vars
<1>2. PICK t \in now..MaxTime, r \in RttSamples : OnAck(t, r)
  BY <1>1 DEF Next
<1> DEFINE m == ProbeMinRtt(r)
<1>3. m \in Nat \ {0} /\ m <= min_rtt /\ t \in Nat /\ now' = t /\ min_rtt' = m
  BY <1>2, ProbeBounds DEF SInv, OnAck
<1>4. CASE plan = 1
  <2>1. FixedEpochDue(t, m)
    BY <1>2, <1>4 DEF OnAck
  <2>. QED  BY <1>3, <1>4, <2>1, SamplerAssumption DEF FixedEpochDue,
                EpochLength, SInv
<1>5. CASE plan # 1
  <2>1. sample_stop <= t
    BY <1>2, <1>5 DEF OnAck, WindowEpoch
  <2>2. EpochLength(m) <= EpochLength(min_rtt)
    BY <1>3, EpochLengthMonotone DEF SInv
  <2>3. EpochLength(min_rtt) \in Nat /\ EpochLength(m) \in Nat
    BY <1>3, SamplerAssumption DEF SInv, EpochLength, MinOf
  <2>. QED  BY <1>3, <1>5, <2>1, <2>2, <2>3 DEF SInv
<1>. QED  BY <1>4, <1>5

(* Under every epoch policy, two published snapshots after the first are  *)
(* at least one epoch length apart, however the acks are spread.          *)
THEOREM PublishSpacingThm == Spec => PublishSpacing
BY SInvInit, SInvStep, SpacingStep, PTL DEF Spec, PublishSpacing
=============================================================================
