-------------------------- MODULE RlccApplierProofs --------------------------
(***************************************************************************)
(* Proofs about RlccApplier for every value of the constants: whatever    *)
(* actions the policy sends, whatever resets and samples come between    *)
(* them, the window stays at or above MIN_WINDOW_INT segments with cwnd = *)
(* cwnd_int * MSS, the pacing rate within its clamp, the plan-3 table     *)
(* index inside the table, and a "stay" of plan 4 moves every EMA towards *)
(* its target.                                                            *)
(*                                                                         *)
(* None of these is inductive alone: the window law of plan 4 divides by  *)
(* up_stay and down_stay, so the invariant carries that both are positive *)
(* (ema \in EmaRec); plan 3 reads up_actions_list[up_n + 1], so it        *)
(* carries UpIndexInBounds.                                               *)
(***************************************************************************)
EXTENDS RlccApplier, RlccLawsProofs, TLAPS

EmaFields == {"up_change", "up_stay", "down_change", "down_stay"}

(* The inductive invariant. *)
AInv ==
  /\ TypeOK
  /\ ema \in EmaRec
  /\ UpIndexInBounds
  /\ WindowBounds

(* An EMA record is a function from the four field names to Nat. *)
LEMMA EmaRecFcn ==
  ASSUME NEW e \in EmaRec
  PROVE  /\ e \in [EmaFields -> Nat]
         /\ DOMAIN e = EmaFields
BY Zenon DEF EmaRec, EmaFields

(* SetWindow(ci) from a window of at least MIN_WINDOW_INT segments sets   *)
(* a window that satisfies WindowBounds, whatever srtt.                   *)
LEMMA SetWindowBounds ==
  ASSUME NEW ci \in Nat, ci >= XQC_RLCC_MIN_WINDOW_INT, srtt \in Nat,
         SetWindow(ci)
  PROVE  /\ cwnd_int' \in Nat /\ cwnd' \in Nat /\ pacing_rate' \in Nat
         /\ cwnd_int' >= XQC_RLCC_MIN_WINDOW_INT
         /\ cwnd' = cwnd_int' * MSS
         /\ pacing_rate' \in XQC_DEFAULT_PACING_RATE..PacingMax
<1>1. ci * MSS \in Nat
  BY LawsAssumption
<1>2. PacingRateByCwnd(ci * MSS, srtt) \in XQC_DEFAULT_PACING_RATE..PacingMax
  BY <1>1, PacingRateInBounds
<1>3. PacingRateByCwnd(ci * MSS, srtt) \in Nat
  BY <1>1, PacingRateNat
<1>. QED  BY <1>1, <1>2, <1>3 DEF SetWindow

(* xqc_rlcc_init satisfies the invariant. *)
LEMMA AInvInit == Init => AInv
<1> SUFFICES ASSUME Init PROVE AInv
  OBVIOUS
<1>1. XQC_RLCC_INIT_WIN = XQC_RLCC_INIT_WIN_INT * MSS
      /\ XQC_RLCC_INIT_WIN \in Nat
  BY LawsAssumption DEF XQC_RLCC_INIT_WIN, XQC_RLCC_INIT_WIN_INT
<1>2. PacingRateByCwnd(XQC_RLCC_INIT_WIN, 0)
        \in XQC_DEFAULT_PACING_RATE..PacingMax
      /\ PacingRateByCwnd(XQC_RLCC_INIT_WIN, 0) \in Nat
  BY <1>1, PacingRateInBounds, PacingRateNat
<1>3. ema \in EmaRec
  <2>1. PICK k \in Nat \ {0} : k = 1000
    OBVIOUS
  <2>2. ema = [up_change |-> k, up_stay |-> k, down_change |-> k,
               down_stay |-> k]
    BY <2>1 DEF Init
  <2>. QED  BY <2>2, Zenon DEF EmaRec
<1>4. ema \in [EmaFields -> Nat]
  BY <1>3, EmaRecFcn
<1>5. XQC_RLCC_INF \in Nat
  BY DEF XQC_RLCC_INF
<1>. QED
  BY <1>1, <1>2, <1>3, <1>4, <1>5, ApplierAssumption
  DEF Init, AInv, TypeOK, UpIndexInBounds, WindowBounds, EmaFields,
      XQC_RLCC_INIT_WIN_INT, XQC_RLCC_MIN_WINDOW_INT

(* xqc_rlcc_reset_cwnd preserves the invariant. *)
LEMMA ResetStep == AInv /\ ResetCwnd => AInv'
<1> SUFFICES ASSUME AInv, ResetCwnd PROVE AInv'
  OBVIOUS
<1>1. srtt \in Nat /\ XQC_RLCC_MIN_WINDOW = XQC_RLCC_MIN_WINDOW_INT * MSS
      /\ XQC_RLCC_MIN_WINDOW \in Nat
  BY LawsAssumption DEF AInv, TypeOK, XQC_RLCC_MIN_WINDOW,
                        XQC_RLCC_MIN_WINDOW_INT
<1>2. /\ pacing_rate' \in XQC_DEFAULT_PACING_RATE..PacingMax
      /\ pacing_rate' \in Nat
  BY <1>1, PacingRateInBounds, PacingRateNat DEF ResetCwnd
<1>. QED
  BY <1>1, <1>2 DEF AInv, ResetCwnd, TypeOK, UpIndexInBounds, WindowBounds,
                    XQC_RLCC_MIN_WINDOW_INT

(* The ack path's samples preserve the invariant. *)
LEMMA AckStep == AInv /\ OnAckSample => AInv'
<1> SUFFICES ASSUME AInv, OnAckSample PROVE AInv'
  OBVIOUS
<1>1. min_rtt' \in Nat /\ srtt' \in Nat
  BY ApplierAssumption DEF OnAckSample, AInv, TypeOK
<1>2. pacing_rate' = pacing_rate /\ cwnd' = cwnd /\ cwnd_int' = cwnd_int
      /\ ema' = ema /\ up_n' = up_n
  BY DEF OnAckSample
<1>. QED
  BY <1>1, <1>2 DEF AInv, OnAckSample, TypeOK, UpIndexInBounds, WindowBounds

(* Which law GetResultFromReply applies is fixed by plan. *)
LEMMA PlanCases ==
  ASSUME NEW v, GetResultFromReply(v), plan \in {2, 3, 4}
  PROVE  /\ plan = 2 => /\ SetWindow(AddStep(cwnd_int, v))
                        /\ UNCHANGED <<up_times, down_times, up_n, ema>>
         /\ plan = 3 =>
              LET r == LegacyStep([cwnd_int |-> cwnd_int,
                                   up_times |-> up_times,
                                   down_times |-> down_times,
                                   up_n |-> up_n], v, min_rtt)
              IN  /\ SetWindow(r.cwnd_int)
                  /\ up_times' = r.up_times
                  /\ down_times' = r.down_times
                  /\ up_n' = r.up_n
                  /\ UNCHANGED ema
         /\ plan = 4 => /\ ema' = EmaUpdate(ema, v)
                        /\ SetWindow(AddStep(cwnd_int, EmaStep(ema', v)))
                        /\ UNCHANGED <<up_times, down_times, up_n>>
<1>1. 2 # 3 /\ 2 # 4 /\ 3 # 4
  OBVIOUS
<1>. QED  BY <1>1, Zenon DEF GetResultFromReply

(* get_result_from_reply preserves the invariant under every law. *)
LEMMA ApplyStep ==
  ASSUME NEW v \in Actions, AInv, GetResultFromReply(v)
  PROVE  AInv'
<1>0. /\ cwnd_int \in Nat /\ cwnd_int >= XQC_RLCC_MIN_WINDOW_INT
      /\ up_n \in 0..7 /\ up_times \in 0..255 /\ down_times \in 0..255
      /\ ema \in EmaRec /\ srtt \in Nat /\ min_rtt \in Nat /\ v \in Int
      /\ plan \in Plans /\ plan \in {2, 3, 4}
  BY ApplierAssumption DEF AInv, TypeOK, UpIndexInBounds, WindowBounds
<1>1. /\ applied' \in 0..MaxApplied /\ last' \in Int
      /\ srtt' = srtt /\ min_rtt' = min_rtt /\ plan' = plan
  <2>1. /\ applied < MaxApplied /\ applied' = applied + 1 /\ last' = v
        /\ srtt' = srtt /\ min_rtt' = min_rtt /\ plan' = plan
    BY Zenon DEF GetResultFromReply
  <2>. QED  BY <1>0, <2>1, ApplierAssumption DEF AInv, TypeOK
<1>2. SUFFICES ASSUME ema' \in EmaRec, up_n' \in 0..7,
                      up_times' \in 0..255, down_times' \in 0..255,
                      NEW ci \in Nat, ci >= XQC_RLCC_MIN_WINDOW_INT,
                      SetWindow(ci)
               PROVE  AInv'
  <2>1. CASE plan = 2
    <3>1. SetWindow(AddStep(cwnd_int, v))
          /\ UNCHANGED <<up_times, down_times, up_n, ema>>
      BY <1>0, <2>1, PlanCases
    <3>2. AddStep(cwnd_int, v) \in Nat
          /\ AddStep(cwnd_int, v) >= XQC_RLCC_MIN_WINDOW_INT
      BY <1>0, AddStepFloor
    <3>. QED  BY <1>0, <3>1, <3>2
  <2>2. CASE plan = 3
    <3> DEFINE rec == [cwnd_int |-> cwnd_int, up_times |-> up_times,
                       down_times |-> down_times, up_n |-> up_n]
               r == LegacyStep(rec, v, min_rtt)
    <3>1. rec \in LegacyRec
      BY <1>0, Zenon DEF LegacyRec
    <3>2. r \in LegacyRec
      BY <1>0, <3>1, LegacyStepType
    <3>3. /\ r.cwnd_int \in Nat /\ r.cwnd_int >= XQC_RLCC_MIN_WINDOW_INT
          /\ r.up_times \in 0..255 /\ r.down_times \in 0..255
          /\ r.up_n \in 0..7
      BY <3>2 DEF LegacyRec
    <3>4. /\ SetWindow(r.cwnd_int)
          /\ up_times' = r.up_times /\ down_times' = r.down_times
          /\ up_n' = r.up_n /\ ema' = ema
      BY <1>0, <2>2, PlanCases
    <3>. QED  BY <1>0, <3>3, <3>4
  <2>3. CASE plan = 4
    <3>1. /\ ema' = EmaUpdate(ema, v)
          /\ SetWindow(AddStep(cwnd_int, EmaStep(ema', v)))
          /\ UNCHANGED <<up_times, down_times, up_n>>
      BY <1>0, <2>3, PlanCases
    <3>2. ema' \in EmaRec
      BY <1>0, <3>1, EmaUpdateType
    <3>3. EmaStep(ema', v) \in Int
      BY <1>0, <3>2, EmaStepInt
    <3>4. AddStep(cwnd_int, EmaStep(ema', v)) \in Nat
          /\ AddStep(cwnd_int, EmaStep(ema', v)) >= XQC_RLCC_MIN_WINDOW_INT
      BY <1>0, <3>3, AddStepFloor
    <3>. QED  BY <1>0, <3>1, <3>2, <3>4
  <2>. QED  BY <1>0, <2>1, <2>2, <2>3
<1>3. /\ cwnd_int' \in Nat /\ cwnd' \in Nat /\ pacing_rate' \in Nat
      /\ cwnd_int' >= XQC_RLCC_MIN_WINDOW_INT
      /\ cwnd' = cwnd_int' * MSS
      /\ pacing_rate' \in XQC_DEFAULT_PACING_RATE..PacingMax
  BY <1>0, <1>2, SetWindowBounds
<1>4. ema' \in [EmaFields -> Nat]
  BY <1>2, EmaRecFcn
<1>. QED
  BY <1>1, <1>2, <1>3, <1>4
  DEF AInv, TypeOK, UpIndexInBounds, WindowBounds, EmaFields

(* Every step of Next preserves the invariant. *)
LEMMA AInvStep == AInv /\ [Next]_vars => AInv'
<1> SUFFICES ASSUME AInv, [Next]_vars PROVE AInv'
  OBVIOUS
<1>1. CASE \E v \in Actions : GetResultFromReply(v)
  BY <1>1, ApplyStep
<1>2. CASE ResetCwnd
  BY <1>2, ResetStep
<1>3. CASE OnAckSample
  BY <1>3, AckStep
<1>4. CASE UNCHANGED vars
  BY <1>4 DEF AInv, TypeOK, UpIndexInBounds, WindowBounds, vars
<1>. QED  BY <1>1, <1>2, <1>3, <1>4 DEF Next

(* The invariant holds in every reachable state. *)
THEOREM AInvariant == Spec => []AInv
BY AInvInit, AInvStep, PTL DEF Spec

(* get_result_from_reply, xqc_rlcc_reset_cwnd and the ack path keep every *)
(* field of the applier well typed, for every value of the constants.    *)
THEOREM ApplierTypeCorrect == Spec => []TypeOK
<1>1. AInv => TypeOK
  BY DEF AInv
<1>. QED  BY AInvariant, <1>1, PTL

(* Spec section 8, for every MSS, clock unit, initial RTT and pacing      *)
(* bound, every law and any sequence of actions, resets and samples:      *)
(* cwnd_int never falls below MIN_WINDOW_INT, cwnd is cwnd_int segments   *)
(* and the pacing rate stays within its clamp.                            *)
THEOREM WindowBoundsThm == Spec => []WindowBounds
<1>1. AInv => WindowBounds
  BY DEF AInv
<1>. QED  BY AInvariant, <1>1, PTL

(* Plan 3 never indexes up_actions_list outside its eight entries, after  *)
(* any sequence of signals (lines 201 and 217-219).                       *)
THEOREM UpIndexInBoundsThm == Spec => []UpIndexInBounds
<1>1. AInv => UpIndexInBounds
  BY DEF AInv
<1>. QED  BY AInvariant, <1>1, PTL

(* The decay EMA(50000, old, 4) of a "stay" lands between old and 50000. *)
LEMMA EmaStayToward ==
  ASSUME NEW old \in Nat
  PROVE  Toward(old, EMA(50000, old, 4), 50000)
BY DEF EMA, Toward

(* A step of Next never moves an EMA away from, or past, the target on a  *)
(* "stay".                                                                *)
LEMMA EmaStayStep ==
  ASSUME AInv, [Next]_vars, applied' = applied + 1, last' = 0
  PROVE  \A f \in DOMAIN ema : Toward(ema[f], ema'[f], 50000)
<1>0. ema \in EmaRec /\ DOMAIN ema = EmaFields /\ ema \in [EmaFields -> Nat]
  BY EmaRecFcn DEF AInv
<1>1. PICK v \in Actions : GetResultFromReply(v)
  <2>1. applied \in Nat
    BY DEF AInv, TypeOK
  <2>2. ~ResetCwnd /\ ~OnAckSample /\ ~UNCHANGED vars
    BY <2>1 DEF ResetCwnd, OnAckSample, vars
  <2>. QED  BY <2>2 DEF Next
<1>2. v = 0
  <2>1. last' = v
    BY <1>1, Zenon DEF GetResultFromReply
  <2>. QED  BY <2>1
<1>5. plan \in {2, 3, 4}
  BY ApplierAssumption DEF AInv, TypeOK
<1>3. CASE plan = 4
  <2>1. ema' = EmaUpdate(ema, 0)
    BY <1>1, <1>2, <1>3, <1>5, PlanCases
  <2>2. ema' = [up_stay   |-> EMA(50000, ema.up_stay, 4),
                up_change |-> EMA(50000, ema.up_change, 4),
                down_stay |-> EMA(50000, ema.down_stay, 4),
                down_change |-> EMA(50000, ema.down_change, 4)]
    BY <2>1 DEF EmaUpdate
  <2>3. \A f \in EmaFields : ema'[f] = EMA(50000, ema[f], 4)
    BY <2>2 DEF EmaFields
  <2>. QED  BY <1>0, <2>3, EmaStayToward
<1>4. CASE plan # 4
  <2>1. ema' = ema
    BY <1>1, <1>4, <1>5, PlanCases
  <2>. QED  BY <1>0, <2>1 DEF Toward
<1>. QED  BY <1>3, <1>4

(* Spec section 8 for plan 4, for every value of the constants: a "stay"  *)
(* moves each of the four EMAs towards 50000 and never past it.           *)
THEOREM EmaStayConvergesThm == Spec => EmaStayConverges
<1>1. AInv /\ [Next]_vars =>
        [applied' = applied + 1 /\ last' = 0 =>
           \A f \in DOMAIN ema : Toward(ema[f], ema'[f], 50000)]_vars
  <2> SUFFICES ASSUME AInv, [Next]_vars, applied' = applied + 1, last' = 0
               PROVE  \A f \in DOMAIN ema : Toward(ema[f], ema'[f], 50000)
    OBVIOUS
  <2>. QED  BY EmaStayStep
<1>. QED  BY AInvariant, <1>1, PTL DEF EmaStayConverges, Spec

-----------------------------------------------------------------------------
(* The direction of a decrease.  DecreaseNeverGrows is not inductive with *)
(* AInv alone: a plan-2 decrease U32(cwnd_int + v) stays below cwnd_int  *)
(* only if cwnd_int itself fits a uint32_t, so the invariant is          *)
(* strengthened with FitsUint32.                                          *)

(* cwnd_int is a uint32_t: its value stays below Uint32Mod. *)
FitsUint32 == cwnd_int < Uint32Mod

(* get_result_from_reply keeps cwnd_int a uint32 value under every law,   *)
(* and a negative action never makes it grow.                              *)
LEMMA ApplyWindow ==
  ASSUME NEW v \in Actions, AInv, FitsUint32, GetResultFromReply(v)
  PROVE  /\ cwnd_int' < Uint32Mod
         /\ v < 0 => cwnd_int' <= cwnd_int
<1>0. /\ cwnd_int \in Nat /\ cwnd_int >= XQC_RLCC_MIN_WINDOW_INT
      /\ cwnd_int < Uint32Mod
      /\ up_n \in 0..7 /\ up_times \in 0..255 /\ down_times \in 0..255
      /\ ema \in EmaRec /\ min_rtt \in Nat /\ v \in Int
      /\ plan \in {2, 3, 4}
  BY ApplierAssumption DEF AInv, TypeOK, UpIndexInBounds, WindowBounds,
                           FitsUint32
<1>1. CASE plan = 2
  <2>1. cwnd_int' = AddStep(cwnd_int, v)
    BY <1>0, <1>1, PlanCases DEF SetWindow
  <2>. QED  BY <1>0, <2>1, AddStepFits, AddStepDecrease
<1>2. CASE plan = 3
  <2> DEFINE rec == [cwnd_int |-> cwnd_int, up_times |-> up_times,
                     down_times |-> down_times, up_n |-> up_n]
  <2>1. rec \in LegacyRec /\ rec.cwnd_int = cwnd_int
    BY <1>0, Zenon DEF LegacyRec
  <2>2. cwnd_int' = LegacyStep(rec, v, min_rtt).cwnd_int
    BY <1>0, <1>2, PlanCases DEF SetWindow
  <2>. QED  BY <1>0, <2>1, <2>2, LegacyFits
<1>3. CASE plan = 4
  <2>1. ema' = EmaUpdate(ema, v) /\ cwnd_int' = AddStep(cwnd_int, EmaStep(ema', v))
    BY <1>0, <1>3, PlanCases DEF SetWindow
  <2>2. ema' \in EmaRec
    BY <1>0, <2>1, EmaUpdateType
  <2>3. EmaStep(ema', v) \in Int
    BY <1>0, <2>2, EmaStepInt
  <2>4. v < 0 => EmaStep(ema', v) < 0
    BY <1>0, <2>2, EmaStepDecrease
  <2>. QED  BY <1>0, <2>1, <2>3, <2>4, AddStepFits, AddStepDecrease
<1>. QED  BY <1>0, <1>1, <1>2, <1>3

(* Every step keeps cwnd_int below Uint32Mod: reset_cwnd writes          *)
(* MIN_WINDOW_INT, the ack path does not touch it.                        *)
LEMMA FitsStep == AInv /\ FitsUint32 /\ [Next]_vars => FitsUint32'
<1> SUFFICES ASSUME AInv, FitsUint32, [Next]_vars PROVE FitsUint32'
  OBVIOUS
<1>1. CASE \E v \in Actions : GetResultFromReply(v)
  BY <1>1, ApplyWindow DEF FitsUint32
<1>2. CASE ResetCwnd
  BY <1>2, LawsAssumption DEF ResetCwnd, FitsUint32, XQC_RLCC_MIN_WINDOW_INT
<1>3. CASE OnAckSample \/ UNCHANGED vars
  BY <1>3 DEF OnAckSample, vars, FitsUint32
<1>. QED  BY <1>1, <1>2, <1>3 DEF Next

(* xqc_rlcc_init's window fits a uint32_t, and so does every later one.  *)
LEMMA FitsInvariant == Spec => [](AInv /\ FitsUint32)
<1>1. Init => FitsUint32
  BY LawsAssumption DEF Init, FitsUint32, XQC_RLCC_INIT_WIN_INT
<1>2. AInv /\ FitsUint32 /\ [Next]_vars => (AInv /\ FitsUint32)'
  BY AInvStep, FitsStep
<1>. QED  BY AInvInit, <1>1, <1>2, PTL DEF Spec

(* Spec section 6 for every value of the constants, every law and any    *)
(* sequence of actions, resets and samples: an action with a negative    *)
(* value never makes cwnd_int grow.  A decrease larger than the window   *)
(* is ignored (line 182) rather than wrapped, plan 3 only subtracts or   *)
(* halves, and the plan-4 step of a "down" is negative.  (Its other      *)
(* half, IncreaseGrows, fails when the uint32 sum wraps: finding 6.)     *)
THEOREM DecreaseNeverGrowsThm == Spec => DecreaseNeverGrows
<1>1. AInv /\ FitsUint32 /\ [Next]_vars =>
        [applied' = applied + 1 /\ last' < 0 => cwnd_int' <= cwnd_int]_vars
  <2> SUFFICES ASSUME AInv, FitsUint32, [Next]_vars,
                      applied' = applied + 1, last' < 0
               PROVE  cwnd_int' <= cwnd_int
    OBVIOUS
  <2>1. PICK v \in Actions : GetResultFromReply(v)
    <3>1. applied \in Nat
      BY DEF AInv, TypeOK
    <3>2. ~ResetCwnd /\ ~OnAckSample /\ ~UNCHANGED vars
      BY <3>1 DEF ResetCwnd, OnAckSample, vars
    <3>. QED  BY <3>2 DEF Next
  <2>2. v < 0
    <3>1. last' = v
      BY <2>1, Zenon DEF GetResultFromReply
    <3>. QED  BY <3>1
  <2>. QED  BY <2>1, <2>2, ApplyWindow
<1>. QED  BY FitsInvariant, <1>1, PTL DEF DecreaseNeverGrows, Spec

=============================================================================
