---------------------------- MODULE RlccLawsProofs ---------------------------
(***************************************************************************)
(* Facts about the arithmetic of RlccLaws, for every value of the          *)
(* constants allowed by LawsAssumption: the translation from window to    *)
(* pacing rate stays within its clamp, each action law leaves a window of *)
(* at least MIN_WINDOW_INT segments, the plan-3 table indices stay inside *)
(* their tables, and the plan-4 EMAs stay well defined.                   *)
(***************************************************************************)
EXTENDS RlccLaws, TLAPS

(* The four EMAs of plan 4, the two "stay" ones (divisors) positive. *)
EmaRec == [up_change : Nat, up_stay : Nat \ {0},
           down_change : Nat, down_stay : Nat \ {0}]

(* The state plan 3 keeps, with its indices inside the tables. *)
LegacyRec == [cwnd_int : {n \in Nat : n >= XQC_RLCC_MIN_WINDOW_INT},
              up_times : 0..255, down_times : 0..255, up_n : 0..7]

(* Line 50 of xqc_rlcc_calc_pacing_rate_by_cwnd stores a natural number. *)
LEMMA PacingRawNat ==
  ASSUME NEW x \in Nat, NEW s \in Nat
  PROVE  PacingRateRaw(x, s) \in Nat
<1>1. SrttOrDefault(s) \in Nat \ {0}
  BY LawsAssumption DEF SrttOrDefault
<1>. QED  BY <1>1, LawsAssumption DEF PacingRateRaw

(* Line 51: the clamp puts any natural rate between the default rate and  *)
(* xqc_pacing_rate_max.                                                   *)
LEMMA ClampRateInBounds ==
  ASSUME NEW r \in Nat
  PROVE  ClampPacingRate(r) \in XQC_DEFAULT_PACING_RATE..PacingMax
<1>1. XQC_DEFAULT_PACING_RATE \in Nat /\ XQC_DEFAULT_PACING_RATE <= PacingMax
  BY LawsAssumption DEF XQC_DEFAULT_PACING_RATE
<1>. QED  BY <1>1, LawsAssumption DEF ClampPacingRate, Clamp

(* In particular the clamped rate is a natural number. *)
LEMMA ClampRateNat ==
  ASSUME NEW r \in Nat
  PROVE  ClampPacingRate(r) \in Nat
<1>1. XQC_DEFAULT_PACING_RATE \in Nat
  BY LawsAssumption DEF XQC_DEFAULT_PACING_RATE
<1>. QED  BY <1>1, ClampRateInBounds

(* xqc_rlcc_calc_pacing_rate_by_cwnd: the rate it leaves is within the   *)
(* clamp, whatever window and srtt.                                       *)
LEMMA PacingRateInBounds ==
  ASSUME NEW x \in Nat, NEW s \in Nat
  PROVE  PacingRateByCwnd(x, s) \in XQC_DEFAULT_PACING_RATE..PacingMax
BY PacingRawNat, ClampRateInBounds DEF PacingRateByCwnd

(* In particular it is a natural number. *)
LEMMA PacingRateNat ==
  ASSUME NEW x \in Nat, NEW s \in Nat
  PROVE  PacingRateByCwnd(x, s) \in Nat
<1>1. XQC_DEFAULT_PACING_RATE \in Nat
  BY LawsAssumption DEF XQC_DEFAULT_PACING_RATE
<1>. QED  BY <1>1, PacingRateInBounds

(* The plan-2 step always leaves a window of at least MIN_WINDOW_INT. *)
LEMMA AddStepFloor ==
  ASSUME NEW ci \in Int, NEW v \in Int
  PROVE  /\ AddStep(ci, v) \in Nat
         /\ AddStep(ci, v) >= XQC_RLCC_MIN_WINDOW_INT
BY LawsAssumption DEF AddStep, FloorWin, U32, XQC_RLCC_MIN_WINDOW_INT

(* EMA of natural numbers with a positive rate is a natural number. *)
LEMMA EmaNat ==
  ASSUME NEW new \in Nat, NEW old \in Nat, NEW rate \in Nat \ {0}
  PROVE  /\ EMA(new, old, rate) \in Nat
         /\ EMA(new, old, rate) >= new \div rate
BY DEF EMA

(* Every plan-4 update keeps the EMAs natural and the "stay" ones, which *)
(* EmaStep divides by, positive.                                         *)
LEMMA EmaUpdateType ==
  ASSUME NEW e \in EmaRec, NEW v \in Int
  PROVE  EmaUpdate(e, v) \in EmaRec
<1>0. e.up_change \in Nat /\ e.up_stay \in Nat /\ e.down_change \in Nat
      /\ e.down_stay \in Nat
  BY DEF EmaRec
<1>1. /\ EMA(50000, e.up_stay, 4) \in Nat \ {0}
      /\ EMA(50000, e.up_change, 4) \in Nat
      /\ EMA(50000, e.down_stay, 4) \in Nat \ {0}
      /\ EMA(50000, e.down_change, 4) \in Nat
  BY <1>0 DEF EMA
<1>9. /\ EMA(100000, e.up_change, 16) \in Nat
      /\ EMA(2000, e.up_stay, 16) \in Nat \ {0}
      /\ EMA(100000, e.down_change, 16) \in Nat
      /\ EMA(2000, e.down_stay, 16) \in Nat \ {0}
  BY <1>0 DEF EMA
<1>7. 0 # 1 /\ 0 # -1 /\ 1 # -1
  OBVIOUS
<1>2. CASE v = 0
  <2>1. EmaUpdate(e, v) =
          [up_stay   |-> EMA(50000, e.up_stay, 4),
           up_change |-> EMA(50000, e.up_change, 4),
           down_stay |-> EMA(50000, e.down_stay, 4),
           down_change |-> EMA(50000, e.down_change, 4)]
    BY <1>2, <1>7 DEF EmaUpdate
  <2>. QED  BY <1>1, <2>1 DEF EmaRec
<1>3. CASE v = 1
  <2>1. PICK a \in Nat, b \in Nat \ {0}, c \in Nat :
           /\ a = EMA(100000, e.up_change, 16)
           /\ b = EMA(2000, e.up_stay, 16)
           /\ c = EMA(50000, e.down_change, 4)
    BY <1>1, <1>9
  <2>2. [e EXCEPT !.up_change = a, !.up_stay = b, !.down_change = c]
          \in EmaRec
    BY Zenon DEF EmaRec
  <2>3. EmaUpdate(e, v) =
          [e EXCEPT !.up_change = a, !.up_stay = b, !.down_change = c]
    BY <1>3, <1>7, <2>1 DEF EmaUpdate
  <2>. QED  BY <2>2, <2>3
<1>4. CASE v = -1
  <2>1. PICK a \in Nat, b \in Nat \ {0}, c \in Nat :
           /\ a = EMA(50000, e.up_change, 4)
           /\ b = EMA(2000, e.down_stay, 16)
           /\ c = EMA(100000, e.down_change, 16)
    BY <1>1, <1>9
  <2>2. [e EXCEPT !.down_stay = b, !.down_change = c, !.up_change = a]
          \in EmaRec
    BY Zenon DEF EmaRec
  <2>3. EmaUpdate(e, v) =
          [e EXCEPT !.down_stay = b, !.down_change = c, !.up_change = a]
    BY <1>4, <1>7, <2>1 DEF EmaUpdate
  <2>. QED  BY <2>2, <2>3
<1>5. CASE v \notin {0, 1, -1}
  BY <1>5, <1>7 DEF EmaUpdate
<1>. QED  BY <1>2, <1>3, <1>4, <1>5

(* The plan-4 window step is an integer. *)
LEMMA EmaStepInt ==
  ASSUME NEW e \in EmaRec, NEW v \in Int
  PROVE  EmaStep(e, v) \in Int
BY DEF EmaStep, EmaRec

(* A plan-3 record whose window went through FloorWin and whose indices *)
(* are inside their tables is a LegacyRec.                               *)
LEMMA LegacyRecFloor ==
  ASSUME NEW ci \in Int, NEW ut \in 0..255, NEW dt \in 0..255,
         NEW un \in 0..7
  PROVE  [cwnd_int |-> FloorWin(ci), up_times |-> ut, down_times |-> dt,
          up_n |-> un] \in LegacyRec
<1>1. FloorWin(ci) \in {n \in Nat : n >= XQC_RLCC_MIN_WINDOW_INT}
  BY DEF FloorWin, XQC_RLCC_MIN_WINDOW_INT
<1>. QED  BY <1>1, Zenon DEF LegacyRec

(* One plan-3 signal keeps the window at or above MIN_WINDOW_INT and    *)
(* every index inside its table: up_n in 0..7, both uint8 streak        *)
(* counters in 0..255.                                                  *)
LEMMA LegacyStepType ==
  ASSUME NEW s \in LegacyRec, NEW v \in Int, NEW minRtt \in Nat
  PROVE  LegacyStep(s, v, minRtt) \in LegacyRec
<1>0. s = [cwnd_int |-> s.cwnd_int, up_times |-> s.up_times,
           down_times |-> s.down_times, up_n |-> s.up_n]
  BY Zenon DEF LegacyRec
<1>1. s.cwnd_int \in Nat /\ s.cwnd_int >= 4 /\ s.up_n \in 0..7
      /\ s.up_times \in 0..255 /\ s.down_times \in 0..255
  BY DEF LegacyRec, XQC_RLCC_MIN_WINDOW_INT
<1>2. up_actions_list[s.up_n + 1] \in Nat
  BY <1>1 DEF up_actions_list
<1>3. s.down_times < 8 => down_actions_list[s.down_times + 1] \in Nat
  BY <1>1 DEF down_actions_list
<1>4. PICK ut \in 0..255 : ut = (s.up_times + 1) % 256
  BY <1>1
<1>8. PICK dt \in 0..255 : dt = (s.down_times + 1) % 256
  BY <1>1
<1>9. PICK ur \in 0..7 :
         ur = UpNRaise(s.up_n, ut, IF minRtt < SampleInterval THEN 3 ELSE 1)
  BY <1>1 DEF UpNRaise
<1>10. PICK ud \in 0..7 : ud = UpNDecay(s.up_n)
  BY <1>1 DEF UpNDecay
<1>5. CASE v = 1
  <2>1. PICK ci \in Int : ci = U32(s.cwnd_int + UpStep(s.up_n, s.cwnd_int))
    BY <1>1, <1>2, LawsAssumption DEF U32, UpStep
  <2>2. LegacyStep(s, v, minRtt) =
          [cwnd_int |-> FloorWin(ci), up_times |-> ut, down_times |-> 0,
           up_n |-> ur]
    BY <1>4, <1>9, <1>5, <2>1 DEF LegacyStep
  <2>3. 0 \in 0..255
    OBVIOUS
  <2>. QED  BY <2>2, <2>3, LegacyRecFloor, Zenon
<1>6. CASE v = -1
  <2>1. PICK ci \in Int :
          ci = IF s.down_times < 8
               THEN IF s.cwnd_int > down_actions_list[s.down_times + 1]
                    THEN s.cwnd_int - down_actions_list[s.down_times + 1]
                    ELSE s.cwnd_int
               ELSE s.cwnd_int - s.cwnd_int \div 2
    BY <1>1, <1>3
  <2>2. LegacyStep(s, v, minRtt) =
          [cwnd_int |-> FloorWin(ci), up_times |-> 0, down_times |-> dt,
           up_n |-> ud]
    BY <1>8, <1>10, <1>6, <2>1 DEF LegacyStep
  <2>3. 0 \in 0..255
    OBVIOUS
  <2>. QED  BY <2>2, <2>3, LegacyRecFloor, Zenon
<1>7. CASE v \notin {1, -1}
  <2>1. LegacyStep(s, v, minRtt) =
          [cwnd_int |-> FloorWin(s.cwnd_int), up_times |-> s.up_times,
           down_times |-> s.down_times, up_n |-> ud]
    BY <1>0, <1>10, <1>7 DEF LegacyStep
  <2>2. s.cwnd_int \in Int
    BY <1>1
  <2>. QED  BY <1>1, <2>1, <2>2, LegacyRecFloor, Zenon
<1>. QED  BY <1>5, <1>6, <1>7

-----------------------------------------------------------------------------
(* The uint32 window and the direction of a step.  A window that fits a    *)
(* uint32_t (below Uint32Mod) still fits after every law; a negative step *)
(* never makes it grow; a positive plan-2 step makes it grow exactly when *)
(* the uint32 sum does not wrap.                                          *)

(* The floor of lines 185-188 leaves a natural window of at least        *)
(* MIN_WINDOW_INT segments.                                               *)
LEMMA FloorWinAtLeast ==
  ASSUME NEW x \in Nat
  PROVE  FloorWin(x) \in Nat /\ FloorWin(x) >= XQC_RLCC_MIN_WINDOW_INT
BY DEF FloorWin, XQC_RLCC_MIN_WINDOW_INT

(* uint32 arithmetic leaves a natural number. *)
LEMMA U32Nat ==
  ASSUME NEW x \in Int
  PROVE  U32(x) \in Nat
BY LawsAssumption DEF U32

(* The floor never lifts a value above a window that is already at least *)
(* MIN_WINDOW_INT.                                                        *)
LEMMA FloorWinBelow ==
  ASSUME NEW x \in Int, NEW ci \in Int, ci >= XQC_RLCC_MIN_WINDOW_INT,
         x <= ci
  PROVE  FloorWin(x) <= ci
BY DEF FloorWin, XQC_RLCC_MIN_WINDOW_INT

(* The floor keeps a value below Uint32Mod below it. *)
LEMMA FloorWinFits ==
  ASSUME NEW x \in Int, x < Uint32Mod
  PROVE  FloorWin(x) < Uint32Mod
BY LawsAssumption DEF FloorWin, XQC_RLCC_MIN_WINDOW_INT

(* A plan-2 step keeps a uint32 window below Uint32Mod. *)
LEMMA AddStepFits ==
  ASSUME NEW ci \in Nat, ci < Uint32Mod, NEW v \in Int
  PROVE  AddStep(ci, v) < Uint32Mod
<1>1. U32(ci + v) \in 0..(Uint32Mod - 1)
  BY LawsAssumption DEF U32
<1>. QED  BY <1>1, LawsAssumption DEF AddStep, FloorWin, XQC_RLCC_MIN_WINDOW_INT

(* A negative plan-2 step never grows the window: a decrease larger than  *)
(* the window is ignored, a smaller one stays within uint32 range.        *)
LEMMA AddStepDecrease ==
  ASSUME NEW ci \in Nat, ci >= XQC_RLCC_MIN_WINDOW_INT, ci < Uint32Mod,
         NEW v \in Int, v < 0
  PROVE  AddStep(ci, v) <= ci
<1>1. CASE ci >= -v
  <2>1. ci + v \in 0..(Uint32Mod - 1) /\ ci + v <= ci
    BY <1>1, LawsAssumption
  <2>2. U32(ci + v) = ci + v
    BY <2>1, LawsAssumption DEF U32
  <2>3. AddStep(ci, v) = FloorWin(ci + v)
    BY <1>1, <2>2 DEF AddStep
  <2>. QED  BY <2>1, <2>3, FloorWinBelow
<1>2. CASE ci < -v
  <2>1. AddStep(ci, v) = FloorWin(ci)
    BY <1>2 DEF AddStep
  <2>. QED  BY <2>1, FloorWinBelow
<1>. QED  BY <1>1, <1>2

(* Finding 6, exactly: a positive plan-2 step of C int range grows a     *)
(* uint32 window if and only if the uint32 sum does not wrap.            *)
LEMMA AddStepGrowsIffNoWrap ==
  ASSUME NEW ci \in Nat, ci >= XQC_RLCC_MIN_WINDOW_INT, ci < Uint32Mod,
         NEW v \in Int, v > 0, v < Uint32Mod
  PROVE  AddStep(ci, v) > ci <=> ci + v < Uint32Mod
<1>1. AddStep(ci, v) = FloorWin(U32(ci + v))
  BY DEF AddStep
<1>2. CASE ci + v < Uint32Mod
  <2>1. U32(ci + v) = ci + v
    BY <1>2, LawsAssumption DEF U32
  <2>. QED  BY <1>1, <1>2, <2>1 DEF FloorWin, XQC_RLCC_MIN_WINDOW_INT
<1>3. CASE ci + v >= Uint32Mod
  <2>1. U32(ci + v) = ci + v - Uint32Mod
    BY <1>3, LawsAssumption DEF U32
  <2>2. ci + v - Uint32Mod \in Int /\ ci + v - Uint32Mod <= ci
    BY <1>3, LawsAssumption
  <2>3. FloorWin(ci + v - Uint32Mod) <= ci
    BY <2>2, FloorWinBelow
  <2>4. AddStep(ci, v) <= ci
    BY <1>1, <2>1, <2>3
  <2>5. AddStep(ci, v) \in Nat
    BY AddStepFloor
  <2>. QED  BY <1>3, <2>4, <2>5, LawsAssumption
<1>. QED  BY <1>2, <1>3, LawsAssumption

(* The window a plan-3 signal leaves, read off LegacyStep. *)
LEMMA LegacyWindow ==
  ASSUME NEW s \in LegacyRec, NEW v \in Int, NEW minRtt \in Nat
  PROVE  LegacyStep(s, v, minRtt).cwnd_int =
           FloorWin(IF v = 1
                    THEN U32(s.cwnd_int + UpStep(s.up_n, s.cwnd_int))
                    ELSE IF v = -1
                    THEN IF s.down_times < 8
                         THEN IF s.cwnd_int > down_actions_list[s.down_times + 1]
                              THEN s.cwnd_int - down_actions_list[s.down_times + 1]
                              ELSE s.cwnd_int
                         ELSE s.cwnd_int - s.cwnd_int \div 2
                    ELSE s.cwnd_int)
<1>1. CASE v = 1
  BY <1>1 DEF LegacyStep
<1>2. CASE v = -1
  BY <1>2 DEF LegacyStep
<1>3. CASE v # 1 /\ v # -1
  <2>1. s = [cwnd_int |-> s.cwnd_int, up_times |-> s.up_times,
             down_times |-> s.down_times, up_n |-> s.up_n]
    BY Zenon DEF LegacyRec
  <2>. QED  BY <1>3, <2>1 DEF LegacyStep
<1>. QED  BY <1>1, <1>2, <1>3

(* A plan-3 signal keeps a uint32 window below Uint32Mod, and a negative *)
(* one never makes it grow.                                              *)
LEMMA LegacyFits ==
  ASSUME NEW s \in LegacyRec, s.cwnd_int < Uint32Mod, NEW v \in Int,
         NEW minRtt \in Nat
  PROVE  /\ LegacyStep(s, v, minRtt).cwnd_int < Uint32Mod
         /\ v < 0 => LegacyStep(s, v, minRtt).cwnd_int <= s.cwnd_int
<1>0. s.cwnd_int \in Nat /\ s.cwnd_int >= XQC_RLCC_MIN_WINDOW_INT
      /\ s.up_n \in 0..7 /\ s.down_times \in 0..255
  BY DEF LegacyRec, XQC_RLCC_MIN_WINDOW_INT
<1>1. CASE v = 1
  <2>1. UpStep(s.up_n, s.cwnd_int) \in Int
    <3>1. up_actions_list[s.up_n + 1] \in Nat
      BY <1>0 DEF up_actions_list
    <3>. QED  BY <1>0, <3>1 DEF UpStep, XQC_RLCC_MIN_WINDOW_INT
  <2>2. U32(s.cwnd_int + UpStep(s.up_n, s.cwnd_int)) \in 0..(Uint32Mod - 1)
    BY <1>0, <2>1, LawsAssumption DEF U32
  <2>3. LegacyStep(s, v, minRtt).cwnd_int =
          FloorWin(U32(s.cwnd_int + UpStep(s.up_n, s.cwnd_int)))
    BY <1>1, LegacyWindow
  <2>4. FloorWin(U32(s.cwnd_int + UpStep(s.up_n, s.cwnd_int))) < Uint32Mod
    <3>1. PICK y \in Int : y = U32(s.cwnd_int + UpStep(s.up_n, s.cwnd_int))
                          /\ y < Uint32Mod
      BY <2>2, LawsAssumption
    <3>. QED  BY <3>1, FloorWinFits
  <2>. QED  BY <1>1, <2>3, <2>4
<1>2. CASE v = -1
  <2>1. s.down_times < 8 => down_actions_list[s.down_times + 1] \in Nat
    BY <1>0 DEF down_actions_list
  <2>2. PICK x \in Int :
          /\ x = IF s.down_times < 8
                 THEN IF s.cwnd_int > down_actions_list[s.down_times + 1]
                      THEN s.cwnd_int - down_actions_list[s.down_times + 1]
                      ELSE s.cwnd_int
                 ELSE s.cwnd_int - s.cwnd_int \div 2
          /\ x <= s.cwnd_int
    BY <1>0, <2>1
  <2>3. LegacyStep(s, v, minRtt).cwnd_int = FloorWin(x)
    BY <1>2, <2>2, LegacyWindow
  <2>4. x < Uint32Mod
    BY <1>0, <2>2, LawsAssumption
  <2>5. FloorWin(x) <= s.cwnd_int /\ FloorWin(x) < Uint32Mod
    BY <1>0, <2>2, <2>4, FloorWinBelow, FloorWinFits
  <2>. QED  BY <2>3, <2>5
<1>3. CASE v # 1 /\ v # -1
  <2>1. LegacyStep(s, v, minRtt).cwnd_int = FloorWin(s.cwnd_int)
    BY <1>3, LegacyWindow
  <2>2. FloorWin(s.cwnd_int) <= s.cwnd_int
        /\ FloorWin(s.cwnd_int) < Uint32Mod
    BY <1>0, FloorWinBelow, FloorWinFits
  <2>. QED  BY <2>1, <2>2
<1>. QED  BY <1>1, <1>2, <1>3

(* The plan-4 window step of a negative signal is negative: the EMA ratio *)
(* is natural, so -(ratio) - 1 is at most -1.                             *)
LEMMA EmaStepDecrease ==
  ASSUME NEW e \in EmaRec, NEW v \in Int, v < 0
  PROVE  EmaStep(e, v) < 0
<1>0. e.down_change \in Nat /\ e.down_stay \in Nat \ {0}
  BY DEF EmaRec
<1>1. CASE v = -1
  <2>1. EmaStep(e, v) = -(e.down_change \div e.down_stay) - 1
    BY <1>1 DEF EmaStep
  <2>. QED  BY <1>0, <2>1
<1>2. CASE v # -1
  <2>1. EmaStep(e, v) = v
    BY <1>2 DEF EmaStep
  <2>. QED  BY <2>1
<1>. QED  BY <1>1, <1>2

=============================================================================
