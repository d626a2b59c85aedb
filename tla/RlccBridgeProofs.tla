--------------------------- MODULE RlccBridgeProofs --------------------------
(***************************************************************************)
(* Proofs about RlccBridge for every value of the constants: the type     *)
(* invariant, that a single controller never blocks the engine thread     *)
(* for good when no wake-up is spurious and no snapshot is lost, and that *)
(* get_cwnd never observes a window below MIN_WINDOW.                     *)
(***************************************************************************)
(* The arithmetic lemmas (PacingRawNat, ClampRateNat, U32Nat,            *)
(* FloorWinAtLeast) come from RlccLawsProofs.                              *)
EXTENDS RlccBridge, RlccLawsProofs, SequenceTheorems, TLAPS

-----------------------------------------------------------------------------
(* Type correctness of the bridge, one lemma per step of Next. *)

(* xqc_rlcc_init starts the bridge in a well-typed state. *)
LEMMA TypeInit == Init => TypeOK
  <1> SUFFICES ASSUME Init PROVE TypeOK
    OBVIOUS
  <1>1. PacingRateByCwnd(XQC_RLCC_INIT_WIN, 0) \in Nat
    BY PacingRateNat, LawsAssumption DEF XQC_RLCC_INIT_WIN, XQC_RLCC_INIT_WIN_INT
  <1>2. reply \in [Conns -> [epoch : Nat, value : Int]] /\ cwnd_sum \in [Conns -> Nat]
    BY DEF Init
  <1>. QED
    BY <1>1, <1>2, LawsAssumption, BridgeAssumption
    DEF Init, TypeOK, EnginePcs, ListenerPcs, XQC_RLCC_INIT_WIN, XQC_RLCC_INIT_WIN_INT

(* An ack inside an epoch only stores a new srtt sample. *)
LEMMA TypeOnAck ==
  ASSUME TypeOK, NEW c \in Conns, OnAck(c) PROVE TypeOK'
  <1>1. PICK s \in SrttSamples : srtt' = [srtt EXCEPT ![c] = s]
    BY DEF OnAck
  <1>2. srtt' \in [Conns -> Nat]
    BY <1>1, BridgeAssumption DEF TypeOK
  <1>. QED
    BY <1>2 DEF OnAck, TypeOK

(* The end of an epoch publishes a snapshot numbered by a natural epoch. *)
LEMMA TypeOnAckEpochEnd ==
  ASSUME TypeOK, NEW c \in Conns, OnAckEpochEnd(c) PROVE TypeOK'
  <1>0. epoch[c] \in 0..MaxEpochs /\ MaxEpochs \in Nat
    BY BridgeAssumption DEF TypeOK
  <1>1. outbox[c] \in Seq(Nat)
    BY Zenon DEF TypeOK
  <1>9. epoch[c] + 1 \in Nat
    BY <1>0
  <1>2. Append(outbox[c], epoch[c] + 1) \in Seq(Nat)
    BY <1>1, <1>9, AppendProperties
  <1>3. epoch' \in [Conns -> 0..MaxEpochs]
    <2>1. epoch[c] + 1 \in 0..MaxEpochs
      BY <1>0 DEF OnAckEpochEnd
    <2>2. epoch \in [Conns -> 0..MaxEpochs]
      BY DEF TypeOK
    <2>. QED
      BY <2>1, <2>2, Zenon DEF OnAckEpochEnd
  <1>4. PICK s \in SrttSamples : srtt' = [srtt EXCEPT ![c] = s]
    BY DEF OnAckEpochEnd
  <1>5. srtt' \in [Conns -> Nat]
    BY <1>4, BridgeAssumption DEF TypeOK
  <1>6. outbox' \in [Conns -> Seq(Nat)]
    BY <1>2 DEF OnAckEpochEnd, TypeOK
  <1>7. enginePc' \in EnginePcs /\ engineConn' \in Conns
    BY DEF OnAckEpochEnd, TypeOK, EnginePcs
  <1>. QED
    BY <1>3, <1>5, <1>6, <1>7 DEF OnAckEpochEnd, TypeOK

(* reset_cwnd's first store writes MIN_WINDOW bytes. *)
LEMMA TypeResetCwnd ==
  ASSUME TypeOK, NEW c \in Conns, ResetCwnd(c) PROVE TypeOK'
  <1>1. XQC_RLCC_MIN_WINDOW \in Nat
    BY LawsAssumption DEF XQC_RLCC_MIN_WINDOW, XQC_RLCC_MIN_WINDOW_INT
  <1>. QED
    BY <1>1 DEF ResetCwnd, EnginePcs, TypeOK

(* Signalling and the last three stores of reset_cwnd keep the types. *)
LEMMA TypeEngineSteps ==
  ASSUME TypeOK, SignalListener \/ ResetCwndInt \/ ResetPacingRate \/ ResetPacingClamp
  PROVE  TypeOK'
  <1>1. CASE SignalListener
    BY <1>1 DEF SignalListener, Waiters, ListenerPcs, EnginePcs, TypeOK
  <1>2. CASE ResetCwndInt
    BY <1>2 DEF ResetCwndInt, EnginePcs, XQC_RLCC_MIN_WINDOW_INT, TypeOK
  <1>3. CASE ResetPacingRate
    <2>1. PacingRateRaw(cwnd[engineConn], srtt[engineConn]) \in Nat
      BY PacingRawNat DEF TypeOK
    <2>. QED
      BY <1>3, <2>1 DEF ResetPacingRate, EnginePcs, TypeOK
  <1>4. CASE ResetPacingClamp
    <2>0. pacing_rate[engineConn] \in Nat
      BY DEF TypeOK
    <2>1. ClampPacingRate(pacing_rate[engineConn]) \in Nat
      BY <2>0, ClampRateNat
    <2>. QED
      BY <1>4, <2>1 DEF ResetPacingClamp, EnginePcs, TypeOK
  <1>. QED
    BY <1>1, <1>2, <1>3, <1>4

(* redisGetReply hands the listener a reply with a natural epoch and an   *)
(* integer action.                                                        *)
LEMMA TypeGetReply ==
  ASSUME TypeOK, NEW c \in Conns, GetReply(c) PROVE TypeOK'
  <1>1. inbox[c] \in Seq(Reply) /\ inbox[c] # << >>
    BY DEF GetReply, TypeOK
  <1>2. Head(inbox[c]) \in Reply /\ Tail(inbox[c]) \in Seq(Reply)
    BY <1>1, HeadTailProperties
  <1>3. Head(inbox[c]) \in [epoch : Nat, value : Int]
    BY <1>2, BridgeAssumption DEF Reply
  <1>. QED
    BY <1>2, <1>3 DEF GetReply, ListenerStep, ListenerPcs, TypeOK

(* The load of line 183 computes a uint32 sum, a natural number. *)
LEMMA TypeLoadAdd ==
  ASSUME TypeOK, NEW c \in Conns, LoadAdd(c) PROVE TypeOK'
  <1>1. cwnd_int[c] \in Nat /\ reply[c].value \in Int
    BY DEF TypeOK
  <1>2. U32(cwnd_int[c] + reply[c].value) \in Nat
    BY <1>1, U32Nat
  <1>. QED
    BY <1>2 DEF LoadAdd, ListenerStep, ListenerPcs, TypeOK

(* Every step of the listener thread keeps the types. *)
LEMMA TypeListener ==
  ASSUME TypeOK, NEW c \in Conns, Listener(c) PROVE TypeOK'
  <1>1. CASE \/ LockAndWait(c) \/ SpuriousWakeup(c) \/ Relock(c)
             \/ GetReplyFailed(c) \/ CheckDecrease(c)
    BY <1>1 DEF LockAndWait, SpuriousWakeup, Relock, GetReplyFailed,
                CheckDecrease, ListenerStep, ListenerPcs, TypeOK
  <1>2. CASE GetReply(c)
    BY <1>2, TypeGetReply
  <1>3. CASE LoadAdd(c)
    BY <1>3, TypeLoadAdd
  <1>4. CASE StoreAdd(c)
    BY <1>4 DEF StoreAdd, ListenerStep, ListenerPcs, TypeOK
  <1>5. CASE Floor(c)
    <2>1. FloorWin(cwnd_int[c]) \in Nat
      BY FloorWinAtLeast DEF TypeOK
    <2>. QED
      BY <1>5, <2>1 DEF Floor, ListenerStep, ListenerPcs, TypeOK
  <1>6. CASE SetCwnd(c)
    <2>1. cwnd_int[c] \in Nat /\ MSS \in Nat
      BY LawsAssumption DEF TypeOK
    <2>2. cwnd_int[c] * MSS \in Nat
      BY <2>1
    <2>. QED
      BY <1>6, <2>2 DEF SetCwnd, ListenerStep, ListenerPcs, TypeOK
  <1>7. CASE SetPacingRate(c)
    <2>1. PacingRateRaw(cwnd[c], srtt[c]) \in Nat
      BY PacingRawNat DEF TypeOK
    <2>. QED
      BY <1>7, <2>1 DEF SetPacingRate, ListenerStep, ListenerPcs, TypeOK
  <1>8. CASE ClampPacingRateUnlock(c)
    <2>0. pacing_rate[c] \in Nat
      BY DEF TypeOK
    <2>1. ClampPacingRate(pacing_rate[c]) \in Nat
      BY <2>0, ClampRateNat
    <2>. QED
      BY <1>8, <2>1 DEF ClampPacingRateUnlock, ListenerStep, ListenerPcs, TypeOK
  <1>. QED
    BY <1>1, <1>2, <1>3, <1>4, <1>5, <1>6, <1>7, <1>8 DEF Listener

(* The policy answering or losing a snapshot keeps both channels typed. *)
LEMMA TypePolicy ==
  ASSUME TypeOK, NEW c \in Conns, PolicyReply(c) \/ PolicyDrop(c) PROVE TypeOK'
  <1>1. outbox[c] \in Seq(Nat) /\ outbox[c] # << >>
    BY DEF PolicyReply, PolicyDrop, TypeOK
  <1>2. Head(outbox[c]) \in Nat /\ Tail(outbox[c]) \in Seq(Nat)
    BY <1>1, HeadTailProperties
  <1>3. outbox' \in [Conns -> Seq(Nat)]
    BY <1>2 DEF PolicyReply, PolicyDrop, TypeOK
  <1>4. CASE PolicyReply(c)
    <2>1. PICK v \in Actions :
            inbox' = [inbox EXCEPT ![c] =
                        Append(@, [epoch |-> Head(outbox[c]), value |-> v])]
      BY <1>4 DEF PolicyReply
    <2>2. [epoch |-> Head(outbox[c]), value |-> v] \in Reply /\ inbox[c] \in Seq(Reply)
      BY <1>2, BridgeAssumption DEF Reply, TypeOK
    <2>3. Append(inbox[c], [epoch |-> Head(outbox[c]), value |-> v]) \in Seq(Reply)
      BY <2>2, AppendProperties
    <2>4. inbox' \in [Conns -> Seq(Reply)]
      BY <2>1, <2>3 DEF TypeOK
    <2>. QED
      BY <1>3, <1>4, <2>4 DEF PolicyReply, TypeOK
  <1>5. CASE PolicyDrop(c)
    BY <1>3, <1>5 DEF PolicyDrop, TypeOK
  <1>. QED
    BY <1>4, <1>5

(* Every step of the bridge preserves the type invariant. *)
LEMMA TypeCorrectStep == TypeOK /\ [Next]_vars => TypeOK'
  <1> SUFFICES ASSUME TypeOK, [Next]_vars PROVE TypeOK'
    OBVIOUS
  <1>1. CASE \E c \in Conns : OnAck(c) \/ OnAckEpochEnd(c) \/ ResetCwnd(c)
    BY <1>1, TypeOnAck, TypeOnAckEpochEnd, TypeResetCwnd
  <1>2. CASE SignalListener \/ ResetCwndInt \/ ResetPacingRate \/ ResetPacingClamp
    BY <1>2, TypeEngineSteps
  <1>3. CASE \E c \in Conns : Listener(c)
    BY <1>3, TypeListener
  <1>4. CASE \E c \in Conns : PolicyReply(c) \/ PolicyDrop(c)
    BY <1>4, TypePolicy
  <1>5. CASE UNCHANGED vars
    BY <1>5 DEF vars, TypeOK
  <1>. QED
    BY <1>1, <1>2, <1>3, <1>4, <1>5 DEF Next, Engine

(* Type correctness: in every reachable state the engine, the listeners,  *)
(* the mutex, the per-controller fields and both channels have the types  *)
(* rlcc.c gives them; in particular cwnd_int, cwnd and pacing_rate stay   *)
(* natural numbers whatever action the policy publishes.                  *)
THEOREM TypeCorrect == Spec => []TypeOK
  BY TypeInit, TypeCorrectStep, PTL DEF Spec

-----------------------------------------------------------------------------
(* One controller on the engine, pthread_cond_wait returning only when     *)
(* signalled, a policy that answers every snapshot and a listener          *)
(* connection that does not break: the hypotheses under which the wake-up  *)
(* counting argument works.                                                *)
SingleController(c0) ==
  /\ Conns = {c0}
  /\ ~SpuriousWakeups
  /\ ~LossyChannel
  /\ ~BrokenConn

IInv == TypeOK /\ WakeupsCovered

(* The channel lengths are natural numbers. *)
LEMMA LenNat ==
  ASSUME TypeOK, NEW c \in Conns
  PROVE  Len(outbox[c]) \in Nat /\ Len(inbox[c]) \in Nat
  <1>1. outbox[c] \in Seq(Nat) /\ inbox[c] \in Seq(Reply)
    BY Zenon DEF TypeOK
  <1>. QED
    BY <1>1, LenProperties

(* The arithmetic of the covering argument: a step that consumes no more  *)
(* than it takes off the wake-ups keeps them covered.                      *)
LEMMA CountArith ==
  ASSUME NEW o \in Nat, NEW i \in Nat, NEW o2 \in Nat, NEW i2 \in Nat,
         NEW w \in 0..1, NEW s \in 0..1, NEW w2 \in 0..1, NEW s2 \in 0..1,
         o + i >= w + s,
         o2 + i2 - (w2 + s2) >= o + i - (w + s)
  PROVE  o2 + i2 >= w2 + s2
  OBVIOUS

(* Every step keeps the wake-ups in flight covered by the snapshots and    *)
(* replies still to be consumed.                                           *)
LEMMA CoveredStep ==
  ASSUME NEW c0, SingleController(c0), TypeOK, WakeupsCovered, Next
  PROVE  WakeupsCovered'
  <1>. USE DEF SingleController
  <1>0. TypeOK'
    BY TypeOnAck, TypeOnAckEpochEnd, TypeResetCwnd, TypeEngineSteps,
       TypeListener, TypePolicy DEF Next, Engine
  <1>1. /\ Len(outbox[c0]) \in Nat /\ Len(inbox[c0]) \in Nat
        /\ Len(outbox'[c0]) \in Nat /\ Len(inbox'[c0]) \in Nat
    BY <1>0, LenNat
  <1>2. Len(outbox[c0]) + Len(inbox[c0]) >= Woken(c0) + Signalling(c0)
    BY DEF WakeupsCovered
  <1>3. /\ outbox[c0] \in Seq(Nat) /\ inbox[c0] \in Seq(Reply)
        /\ lpc \in [Conns -> ListenerPcs] /\ engineConn = c0
    BY Zenon DEF TypeOK
  <1>4. /\ Woken(c0) \in 0..1 /\ Woken(c0)' \in 0..1
        /\ Signalling(c0) \in 0..1 /\ Signalling(c0)' \in 0..1
    BY DEF Woken, Signalling
  <1>5. SUFFICES Len(outbox'[c0]) + Len(inbox'[c0]) - (Woken(c0)' + Signalling(c0)')
                 >= Len(outbox[c0]) + Len(inbox[c0]) - (Woken(c0) + Signalling(c0))
    <2>1. Len(outbox'[c0]) + Len(inbox'[c0]) >= Woken(c0)' + Signalling(c0)'
      BY <1>1, <1>2, <1>4, CountArith
    <2>. QED
      BY <2>1 DEF WakeupsCovered
  <1>. HIDE DEF Woken, Signalling
  (* Steps that touch neither channel, nor the listener, nor a signal. *)
  <1>6. CASE \/ \E c \in Conns : OnAck(c) \/ ResetCwnd(c)
             \/ ResetCwndInt \/ ResetPacingRate \/ ResetPacingClamp
    <2>1. outbox' = outbox /\ inbox' = inbox /\ lpc' = lpc
      BY <1>6 DEF OnAck, ResetCwnd, ResetCwndInt, ResetPacingRate, ResetPacingClamp
    <2>2. Woken(c0)' = Woken(c0)
      BY <2>1 DEF Woken
    <2>3. Signalling(c0)' = 0
      BY <1>6 DEF OnAck, ResetCwnd, ResetCwndInt, ResetPacingRate,
                  ResetPacingClamp, Signalling
    <2>4. Len(outbox'[c0]) = Len(outbox[c0]) /\ Len(inbox'[c0]) = Len(inbox[c0])
      BY <2>1
    <2>5. Woken(c0)' + Signalling(c0)' <= Woken(c0) + Signalling(c0)
      BY <1>4, <2>2, <2>3
    <2>. QED
      BY <1>1, <1>2, <1>4, <2>4, <2>5
  <1>7. CASE OnAckEpochEnd(c0)
    <2>1. lpc' = lpc /\ inbox' = inbox
      BY <1>7 DEF OnAckEpochEnd
    <2>2. Woken(c0)' = Woken(c0) /\ Signalling(c0) = 0
      BY <1>7, <2>1 DEF OnAckEpochEnd, Woken, Signalling
    <2>3. CASE c0 \in Flagged
      <3>1. epoch[c0] + 1 \in Nat
        BY BridgeAssumption DEF TypeOK
      <3>2. outbox'[c0] = Append(outbox[c0], epoch[c0] + 1)
        BY <1>3, <1>7, <2>3 DEF OnAckEpochEnd, TypeOK
      <3>3. Len(outbox'[c0]) = Len(outbox[c0]) + 1
        BY <1>3, <3>1, <3>2, AppendProperties
      <3>. QED
        BY <1>1, <1>2, <1>4, <2>1, <2>2, <3>3
    <2>4. CASE c0 \notin Flagged
      <3>1. outbox' = outbox /\ enginePc' = enginePc /\ engineConn' = engineConn
        BY <1>7, <2>4 DEF OnAckEpochEnd
      <3>2. Signalling(c0)' = Signalling(c0)
        BY <3>1 DEF Signalling
      <3>. QED
        BY <1>1, <1>2, <1>4, <2>1, <2>2, <3>1, <3>2
    <2>. QED
      BY <2>3, <2>4
  <1>8. CASE SignalListener
    <2>1. outbox' = outbox /\ inbox' = inbox
      BY <1>8 DEF SignalListener
    <2>2. Signalling(c0) = 1 /\ Signalling(c0)' = 0
      BY <1>3, <1>8 DEF SignalListener, Signalling
    <2>. QED
      BY <1>1, <1>2, <1>4, <2>1, <2>2
  (* The listener's steps after it has taken a reply, and before it waits. *)
  <1>9. CASE \/ LockAndWait(c0) \/ SpuriousWakeup(c0) \/ Relock(c0)
             \/ CheckDecrease(c0) \/ LoadAdd(c0) \/ StoreAdd(c0) \/ Floor(c0)
             \/ SetCwnd(c0) \/ SetPacingRate(c0) \/ ClampPacingRateUnlock(c0)
    <2>1. outbox' = outbox /\ inbox' = inbox
          /\ enginePc' = enginePc /\ engineConn' = engineConn
      BY <1>9 DEF LockAndWait, SpuriousWakeup, Relock, CheckDecrease, LoadAdd,
                  StoreAdd, Floor, SetCwnd, SetPacingRate, ClampPacingRateUnlock
    <2>2. Signalling(c0)' = Signalling(c0)
      BY <2>1 DEF Signalling
    <2>3. Woken(c0)' = Woken(c0)
      BY <1>3, <1>9 DEF LockAndWait, SpuriousWakeup, Relock, CheckDecrease,
                        LoadAdd, StoreAdd, Floor, SetCwnd, SetPacingRate,
                        ClampPacingRateUnlock, ListenerStep, Woken
    <2>. QED
      BY <1>1, <1>2, <1>4, <2>1, <2>2, <2>3
  <1>10. CASE GetReply(c0)
    <2>1. inbox[c0] # << >> /\ inbox'[c0] = Tail(inbox[c0])
      BY <1>3, <1>10 DEF GetReply, TypeOK
    <2>2. Len(inbox'[c0]) = Len(inbox[c0]) - 1
      BY <1>3, <2>1, HeadTailProperties
    <2>3. Woken(c0) = 1 /\ Woken(c0)' = 0
      BY <1>3, <1>10 DEF GetReply, ListenerStep, Woken
    <2>4. outbox' = outbox /\ enginePc' = enginePc /\ engineConn' = engineConn
      BY <1>10 DEF GetReply
    <2>5. Signalling(c0)' = Signalling(c0)
      BY <2>4 DEF Signalling
    <2>6. Len(outbox'[c0]) = Len(outbox[c0])
      BY <2>4
    <2>. QED
      BY <1>1, <1>4, <2>2, <2>3, <2>5, <2>6
  <1>11. CASE PolicyReply(c0)
    <2>1. outbox[c0] # << >> /\ outbox'[c0] = Tail(outbox[c0])
      BY <1>3, <1>11 DEF PolicyReply, TypeOK
    <2>2. Len(outbox'[c0]) = Len(outbox[c0]) - 1
      BY <1>3, <2>1, HeadTailProperties
    <2>3. PICK v \in Actions :
            inbox' = [inbox EXCEPT ![c0] =
                        Append(@, [epoch |-> Head(outbox[c0]), value |-> v])]
      BY <1>11 DEF PolicyReply
    <2>4. inbox'[c0] = Append(inbox[c0], [epoch |-> Head(outbox[c0]), value |-> v])
      BY <1>3, <2>3 DEF TypeOK
    <2>5. Len(inbox'[c0]) = Len(inbox[c0]) + 1
      BY <1>3, <2>4, AppendProperties
    <2>6. lpc' = lpc /\ enginePc' = enginePc /\ engineConn' = engineConn
      BY <1>11 DEF PolicyReply
    <2>7. Woken(c0)' = Woken(c0) /\ Signalling(c0)' = Signalling(c0)
      BY <2>6 DEF Woken, Signalling
    <2>. QED
      BY <1>1, <1>2, <1>4, <2>2, <2>5, <2>7
  <1>12. CASE PolicyDrop(c0) \/ GetReplyFailed(c0)
    BY <1>12 DEF PolicyDrop, GetReplyFailed
  <1>. QED
    BY <1>6, <1>7, <1>8, <1>9, <1>10, <1>11, <1>12
    DEF Next, Engine, Listener

(* The stuck state has two wake-ups in flight and nothing to consume. *)
LEMMA CoveredNotStuck ==
  ASSUME NEW c0, SingleController(c0), TypeOK, WakeupsCovered
  PROVE  EngineNeverStuck
  <1>. USE DEF SingleController
  <1> SUFFICES ASSUME enginePc = "signal", mutex # NoOwner, lpc[mutex] = "recv",
                      inbox[mutex] = << >>, outbox[mutex] = << >>
               PROVE  FALSE
    BY DEF EngineNeverStuck
  <1>1. mutex = c0 /\ engineConn = c0
    BY DEF TypeOK
  <1>2. Woken(c0) = 1 /\ Signalling(c0) = 1
    BY <1>1 DEF Woken, Signalling
  <1>3. outbox[c0] = << >> /\ inbox[c0] = << >>
    BY <1>1
  <1>4. Len(outbox[c0]) = 0 /\ Len(inbox[c0]) = 0
    BY <1>3
  <1>5. Len(outbox[c0]) + Len(inbox[c0]) >= Woken(c0) + Signalling(c0)
    BY DEF WakeupsCovered
  <1>6. Woken(c0) + Signalling(c0) = 2
    BY <1>2
  <1>. QED
    BY <1>4, <1>5, <1>6

(* The initial state of xqc_rlcc_init satisfies the inductive invariant:  *)
(* no listener is woken, nothing is signalled, both channels are empty.    *)
LEMMA IInvInit == Init => IInv
  <1> SUFFICES ASSUME Init PROVE WakeupsCovered
    BY TypeInit DEF IInv
  <1>. QED
    BY EmptySeq DEF Init, WakeupsCovered, Woken, Signalling

(* With a single controller, no spurious wake-up and no lost snapshot,     *)
(* every step of the bridge preserves the inductive invariant.             *)
LEMMA IInvStep ==
  ASSUME NEW c0, SingleController(c0)
  PROVE  IInv /\ [Next]_vars => IInv'
  <1> SUFFICES ASSUME IInv, [Next]_vars PROVE IInv'
    OBVIOUS
  <1>1. TypeOK'
    BY TypeCorrectStep DEF IInv
  <1>2. CASE Next
    <2>1. WakeupsCovered'
      BY <1>2, CoveredStep DEF IInv
    <2>. QED
      BY <1>1, <2>1 DEF IInv
  <1>3. CASE UNCHANGED vars
    <2>1. /\ outbox' = outbox /\ inbox' = inbox /\ lpc' = lpc
          /\ enginePc' = enginePc /\ engineConn' = engineConn
      BY <1>3 DEF vars
    <2>2. WakeupsCovered' = WakeupsCovered
      BY <2>1 DEF WakeupsCovered, Woken, Signalling
    <2>. QED
      BY <1>1, <2>2 DEF IInv
  <1>. QED
    BY <1>2, <1>3

(* Under the same hypotheses, each listener is woken at most once per      *)
(* snapshot still to be consumed, in every reachable state: the counting   *)
(* invariant the bridge_single run checks on a small instance.             *)
THEOREM WakeupsCoveredThm ==
  ASSUME NEW c0, SingleController(c0)
  PROVE  Spec => []WakeupsCovered
  <1>1. IInv /\ [Next]_vars => IInv'
    BY IInvStep
  <1>. QED
    BY IInvInit, <1>1, PTL DEF Spec, IInv

(* The engine thread never blocks for good in xqc_rlcc_on_ack when it is   *)
(* the only controller of the process, pthread_cond_wait only returns on   *)
(* a signal and every snapshot is answered: it never waits at              *)
(* pthread_mutex_lock while the listener holds the mutex inside a          *)
(* redisGetReply that nothing can satisfy.  The counting invariant         *)
(* WakeupsCovered is what makes it inductive.                              *)
THEOREM EngineNeverStuckThm ==
  ASSUME NEW c0, SingleController(c0)
  PROVE  Spec => []EngineNeverStuck
  <1>1. IInv /\ [Next]_vars => IInv'
    BY IInvStep
  <1>2. IInv => EngineNeverStuck
    BY CoveredNotStuck DEF IInv
  <1>. QED
    BY IInvInit, <1>1, <1>2, PTL DEF Spec

-----------------------------------------------------------------------------
(* The window get_cwnd observes, with every fault and any number of       *)
(* controllers.  ObservedCwndBounds is not inductive on its own: set_cwnd  *)
(* multiplies cwnd_int, which the listener's store of line 183 may leave   *)
(* below MIN_WINDOW_INT.  It is inductive together with TypeOK and        *)
(* CwndIntFloored: cwnd_int is at least MIN_WINDOW_INT except while its    *)
(* listener is between that store and the floor of lines 185-188, and     *)
(* set_cwnd comes after the floor.                                         *)
CwndIntFloored ==
  \A c \in Conns : lpc[c] # "floor" => cwnd_int[c] >= XQC_RLCC_MIN_WINDOW_INT

(* A multiple of MSS of at least MIN_WINDOW_INT segments. *)
LEMMA SegmentsBound ==
  ASSUME NEW k \in Nat, k >= XQC_RLCC_MIN_WINDOW_INT
  PROVE  /\ k * MSS \in Nat
         /\ k * MSS >= XQC_RLCC_MIN_WINDOW
         /\ (k * MSS) % MSS = 0
  <1>1. MSS \in Nat \ {0}
    BY LawsAssumption
  <1>. QED
    BY <1>1 DEF XQC_RLCC_MIN_WINDOW, XQC_RLCC_MIN_WINDOW_INT

(* A step of listener d leaves the other controllers' fields alone. *)
LEMMA ListenerOthers ==
  ASSUME TypeOK, NEW d \in Conns, Listener(d), NEW c \in Conns, c # d
  PROVE  lpc'[c] = lpc[c] /\ cwnd_int'[c] = cwnd_int[c] /\ cwnd'[c] = cwnd[c]
  BY DEF TypeOK, Listener, ListenerStep, LockAndWait, SpuriousWakeup, Relock,
         GetReply, GetReplyFailed, CheckDecrease, LoadAdd, StoreAdd, Floor,
         SetCwnd, SetPacingRate, ClampPacingRateUnlock

(* Only the floor takes a listener out of "floor", and only the store of   *)
(* line 183, which enters "floor", and the floor itself write cwnd_int.    *)
LEMMA FlooredStep ==
  ASSUME TypeOK, CwndIntFloored, [Next]_vars
  PROVE  CwndIntFloored'
  <1> SUFFICES ASSUME NEW c \in Conns, lpc'[c] # "floor"
               PROVE  cwnd_int'[c] >= XQC_RLCC_MIN_WINDOW_INT
    BY DEF CwndIntFloored
  <1>0. /\ cwnd_int \in [Conns -> Nat] /\ lpc \in [Conns -> ListenerPcs]
        /\ engineConn \in Conns
    BY DEF TypeOK
  <1>1. CASE UNCHANGED vars
    BY <1>1 DEF vars, CwndIntFloored
  <1>2. CASE \/ \E d \in Conns : \/ OnAck(d) \/ OnAckEpochEnd(d) \/ ResetCwnd(d)
                                 \/ PolicyReply(d) \/ PolicyDrop(d)
             \/ ResetPacingRate \/ ResetPacingClamp
    <2>1. cwnd_int' = cwnd_int /\ lpc' = lpc
      BY <1>2 DEF OnAck, OnAckEpochEnd, ResetCwnd, PolicyReply, PolicyDrop,
                  ResetPacingRate, ResetPacingClamp
    <2>. QED  BY <2>1 DEF CwndIntFloored
  <1>3. CASE SignalListener
    <2>1. cwnd_int' = cwnd_int /\ (lpc'[c] = lpc[c] \/ lpc[c] = "wait")
      BY <1>0, <1>3 DEF SignalListener, Waiters
    <2>. QED  BY <2>1 DEF CwndIntFloored
  <1>4. CASE ResetCwndInt
    BY <1>0, <1>4 DEF ResetCwndInt, CwndIntFloored, XQC_RLCC_MIN_WINDOW_INT
  <1>5. CASE \E d \in Conns : Listener(d)
    <2>1. PICK d \in Conns : Listener(d)
      BY <1>5
    <2>2. CASE d # c
      BY <2>1, <2>2, ListenerOthers DEF CwndIntFloored
    <2>3. CASE d = c /\ Floor(c)
      <3>1. cwnd_int'[c] = FloorWin(cwnd_int[c])
        BY <1>0, <2>3 DEF Floor
      <3>. QED  BY <1>0, <3>1, FloorWinAtLeast
    <2>4. CASE d = c /\ StoreAdd(c)
      BY <1>0, <2>4 DEF StoreAdd, ListenerStep
    <2>5. CASE d = c /\ ~Floor(c) /\ ~StoreAdd(c)
      <3>1. cwnd_int'[c] = cwnd_int[c] /\ lpc[c] # "floor"
        BY <2>1, <2>5 DEF Listener, ListenerStep, LockAndWait, SpuriousWakeup,
           Relock, GetReply, GetReplyFailed, CheckDecrease, LoadAdd, SetCwnd,
           SetPacingRate, ClampPacingRateUnlock
      <3>. QED  BY <3>1 DEF CwndIntFloored
    <2>. QED  BY <2>2, <2>3, <2>4, <2>5
  <1>. QED  BY <1>1, <1>2, <1>3, <1>4, <1>5 DEF Next, Engine

(* The window in bytes: set_cwnd multiplies a window already floored to   *)
(* at least MIN_WINDOW_INT by MSS, and reset_cwnd's first store writes    *)
(* MIN_WINDOW.                                                            *)
LEMMA CwndBoundStep ==
  ASSUME TypeOK, CwndIntFloored, ObservedCwndBounds, [Next]_vars
  PROVE  ObservedCwndBounds'
  <1> SUFFICES ASSUME NEW c \in Conns
               PROVE  cwnd'[c] >= XQC_RLCC_MIN_WINDOW /\ cwnd'[c] % MSS = 0
    BY DEF ObservedCwndBounds
  <1>0. /\ cwnd \in [Conns -> Nat] /\ cwnd_int \in [Conns -> Nat]
        /\ cwnd[c] >= XQC_RLCC_MIN_WINDOW /\ cwnd[c] % MSS = 0
    BY DEF TypeOK, ObservedCwndBounds
  <1>1. CASE SetCwnd(c)
    <2>1. lpc[c] = "set_cwnd"
      BY <1>1 DEF SetCwnd, ListenerStep
    <2>2. cwnd_int[c] \in Nat /\ cwnd_int[c] >= XQC_RLCC_MIN_WINDOW_INT
      BY <1>0, <2>1 DEF CwndIntFloored
    <2>3. /\ cwnd_int[c] * MSS >= XQC_RLCC_MIN_WINDOW
          /\ (cwnd_int[c] * MSS) % MSS = 0
      BY <2>2, SegmentsBound
    <2>. QED
      BY <1>0, <1>1, <2>3 DEF SetCwnd
  <1>2. CASE ResetCwnd(c)
    <2>2. /\ XQC_RLCC_MIN_WINDOW_INT * MSS >= XQC_RLCC_MIN_WINDOW
          /\ (XQC_RLCC_MIN_WINDOW_INT * MSS) % MSS = 0
      BY SegmentsBound DEF XQC_RLCC_MIN_WINDOW_INT
    <2>. QED
      BY <1>0, <1>2, <2>2 DEF ResetCwnd, XQC_RLCC_MIN_WINDOW
  <1>3. CASE ~SetCwnd(c) /\ ~ResetCwnd(c)
    <2>1. CASE \E d \in Conns : Listener(d)
      <3>1. PICK d \in Conns : Listener(d)
        BY <2>1
      <3>2. CASE d # c
        BY <3>1, <3>2, <1>0, ListenerOthers
      <3>3. CASE d = c
        <4>1. cwnd'[c] = cwnd[c]
          BY <1>3, <3>1, <3>3 DEF Listener, LockAndWait, SpuriousWakeup,
             Relock, GetReply, GetReplyFailed, CheckDecrease, LoadAdd, StoreAdd,
             Floor, SetPacingRate, ClampPacingRateUnlock
        <4>. QED  BY <1>0, <4>1
      <3>. QED  BY <3>2, <3>3
    <2>2. CASE ~\E d \in Conns : Listener(d)
      <3>1. CASE \E d \in Conns : ResetCwnd(d)
        <4>1. PICK d \in Conns : ResetCwnd(d)
          BY <3>1
        <4>2. d # c
          BY <1>3, <4>1
        <4>. QED  BY <1>0, <4>1, <4>2 DEF ResetCwnd
      <3>2. CASE ~\E d \in Conns : ResetCwnd(d)
        <4>1. cwnd' = cwnd
          BY <2>2, <3>2 DEF Next, vars, Engine, OnAck, OnAckEpochEnd,
             SignalListener, ResetCwndInt, ResetPacingRate, ResetPacingClamp,
             PolicyReply, PolicyDrop
        <4>. QED  BY <1>0, <4>1
      <3>. QED  BY <3>1, <3>2
    <2>. QED  BY <2>1, <2>2
  <1>. QED  BY <1>1, <1>2, <1>3

(* xqc_rlcc_init starts every controller at INIT_WIN segments. *)
LEMMA BoundsInit == Init => CwndIntFloored /\ ObservedCwndBounds
  <1> SUFFICES ASSUME Init PROVE CwndIntFloored /\ ObservedCwndBounds
    OBVIOUS
  <1>1. /\ XQC_RLCC_INIT_WIN_INT * MSS >= XQC_RLCC_MIN_WINDOW
        /\ (XQC_RLCC_INIT_WIN_INT * MSS) % MSS = 0
    BY SegmentsBound DEF XQC_RLCC_INIT_WIN_INT, XQC_RLCC_MIN_WINDOW_INT
  <1>. QED
    BY <1>1 DEF Init, CwndIntFloored, ObservedCwndBounds, XQC_RLCC_INIT_WIN,
       XQC_RLCC_INIT_WIN_INT, XQC_RLCC_MIN_WINDOW_INT

(* Whatever the number of controllers, whatever the policy publishes and  *)
(* with spurious wake-ups, lost snapshots and broken connections, the     *)
(* window get_cwnd reads, even while the listener is between its stores   *)
(* or reset_cwnd runs, is at least MIN_WINDOW and a whole number of       *)
(* segments: the listener floors cwnd_int before it stores cwnd.          *)
THEOREM ObservedCwndBoundsThm == Spec => []ObservedCwndBounds
  <1>1. TypeOK /\ CwndIntFloored /\ ObservedCwndBounds /\ [Next]_vars
          => CwndIntFloored' /\ ObservedCwndBounds'
    BY FlooredStep, CwndBoundStep
  <1>. QED
    BY <1>1, BoundsInit, TypeCorrect, PTL DEF Spec

=============================================================================
