----------------------------- MODULE RlccBridge -----------------------------
(***************************************************************************)
(* The synchronisation bridge of rlcc.c: how a state snapshot published on *)
(* the ack path turns into an action applied by the listener thread.       *)
(*                                                                         *)
(* Actors, for every controller c in Conns:                                *)
(*  - the transport engine thread, shared by all controllers, runs         *)
(*    xqc_rlcc_on_ack and xqc_rlcc_reset_cwnd;                             *)
(*  - the listener thread get_action(c), created by xqc_rlcc_init;         *)
(*  - the external policy behind Redis, which answers the snapshot         *)
(*    published on rlccstate_<flag> with an action on rlccaction_<flag>.   *)
(* One pthread mutex and one condition variable (file-scope statics) are   *)
(* shared by every controller of the process.  The listener holds the      *)
(* mutex from its wake-up through the blocking redisGetReply and the       *)
(* update of cwnd_int, cwnd and pacing_rate; the engine takes the same     *)
(* mutex to signal.  The action law is the one compiled in (plan 2).      *)
(*                                                                         *)
(* Environment faults, each enabled by a constant: spurious returns from   *)
(* pthread_cond_wait (allowed by POSIX), snapshots the policy never        *)
(* answers (Redis pub/sub delivers at most once), and a broken listener    *)
(* connection on which redisGetReply fails.                                *)
(***************************************************************************)
EXTENDS RlccLaws, Sequences

CONSTANTS
  Conns,           \* controllers (paths) on one engine
  Flagged,         \* controllers with a nonzero rlcc_path_flag
  NoOwner,         \* the mutex is free
  Actions,         \* integer actions the policy may publish
  SrttSamples,     \* values the ack path may leave in rlcc->srtt
  MaxEpochs,       \* bound: sampling epochs per controller
  SpuriousWakeups, \* may pthread_cond_wait return without a signal?
  LossyChannel,    \* may a snapshot go unanswered?
  BrokenConn       \* may redisGetReply fail on a broken connection?

ASSUME BridgeAssumption ==
  /\ Conns # {}
  /\ Flagged \subseteq Conns
  /\ NoOwner \notin Conns
  /\ Actions \subseteq Int
  /\ SrttSamples \subseteq Nat
  /\ MaxEpochs \in Nat
  /\ SpuriousWakeups \in BOOLEAN
  /\ LossyChannel \in BOOLEAN
  /\ BrokenConn \in BOOLEAN

VARIABLES
  enginePc,      \* "idle", or where the engine is inside a handler
  engineConn,    \* the controller that handler runs for
  mutex,         \* mutex_lock: NoOwner or the listener holding it
  lpc,           \* lpc[c]: where listener get_action(c) is
  cwnd_int, cwnd, pacing_rate, srtt,   \* per-controller fields
  epoch,         \* epoch[c]: epochs ended so far on the ack path
  outbox,        \* outbox[c]: epochs published, not yet answered
  inbox,         \* inbox[c]: replies buffered on the listener's connection
  reply,         \* reply[c]: the reply listener c holds (cwnd_value is its value)
  cwnd_sum       \* cwnd_sum[c]: cwnd_int + cwnd_value as loaded at line 183

vars == <<enginePc, engineConn, mutex, lpc, cwnd_int, cwnd, pacing_rate,
          srtt, epoch, outbox, inbox, reply, cwnd_sum>>

ListenerPcs == {"lock", "wait", "relock", "recv", "check", "add", "store",
                "floor", "set_cwnd", "rate_raw", "rate_clamp"}
EnginePcs == {"idle", "signal", "reset_int", "reset_rate", "reset_clamp"}
Reply == [epoch : Nat, value : Actions]

(* Listeners blocked in pthread_cond_wait. *)
Waiters == {c \in Conns : lpc[c] = "wait"}

Init ==
  /\ enginePc = "idle"
  /\ engineConn = CHOOSE c \in Conns : TRUE
  /\ mutex = NoOwner
  /\ lpc = [c \in Conns |-> "lock"]
  /\ cwnd_int = [c \in Conns |-> XQC_RLCC_INIT_WIN_INT]
  /\ cwnd = [c \in Conns |-> XQC_RLCC_INIT_WIN]
  /\ pacing_rate = [c \in Conns |-> PacingRateByCwnd(XQC_RLCC_INIT_WIN, 0)]
  /\ srtt = [c \in Conns |-> 0]
  /\ epoch = [c \in Conns |-> 0]
  /\ outbox = [c \in Conns |-> <<>>]
  /\ inbox = [c \in Conns |-> <<>>]
  /\ reply = [c \in Conns |-> [epoch |-> 0, value |-> 0]]
  /\ cwnd_sum = [c \in Conns |-> 0]

-----------------------------------------------------------------------------
(* Engine thread *)

(* Mutation: the signal moved out of the epoch-end block, so every ack of *)
(* a flagged controller signals the listener.                             *)
OnAckSignalAlways(c) ==
  /\ enginePc = "idle"
  /\ \E s \in SrttSamples : srtt' = [srtt EXCEPT ![c] = s]
  /\ IF c \in Flagged
     THEN enginePc' = "signal" /\ engineConn' = c
     ELSE UNCHANGED <<enginePc, engineConn>>
  /\ UNCHANGED <<mutex, lpc, cwnd_int, cwnd, pacing_rate, epoch, outbox, inbox,
                 reply, cwnd_sum>>

(* xqc_rlcc_on_ack inside an epoch: only the smoothed samples change. *)
OnAck(c) ==
  /\ enginePc = "idle"
  /\ \E s \in SrttSamples : srtt' = [srtt EXCEPT ![c] = s]
  /\ UNCHANGED <<enginePc, engineConn, mutex, lpc, cwnd_int, cwnd,
                 pacing_rate, epoch, outbox, inbox, reply, cwnd_sum>>

(* xqc_rlcc_on_ack at the end of an epoch: push_state publishes the        *)
(* snapshot, then the engine goes to lock the mutex and signal; without a  *)
(* path flag it writes the error key instead and does not signal.          *)
OnAckEpochEnd(c) ==
  /\ enginePc = "idle"
  /\ epoch[c] < MaxEpochs
  /\ epoch' = [epoch EXCEPT ![c] = @ + 1]
  /\ \E s \in SrttSamples : srtt' = [srtt EXCEPT ![c] = s]
  /\ IF c \in Flagged
     THEN /\ outbox' = [outbox EXCEPT ![c] = Append(@, epoch[c] + 1)]
          /\ enginePc' = "signal"
          /\ engineConn' = c
     ELSE UNCHANGED <<outbox, enginePc, engineConn>>
  /\ UNCHANGED <<mutex, lpc, cwnd_int, cwnd, pacing_rate, inbox, reply, cwnd_sum>>

(* pthread_mutex_lock; pthread_cond_signal; pthread_mutex_unlock: the     *)
(* engine blocks until the mutex is free, then wakes one waiting listener *)
(* of any controller, or nobody if none is waiting.                       *)
SignalListener ==
  /\ enginePc = "signal"
  /\ mutex = NoOwner
  /\ \/ \E w \in Waiters : lpc' = [lpc EXCEPT ![w] = "relock"]
     \/ Waiters = {} /\ UNCHANGED lpc
  /\ enginePc' = "idle"
  /\ UNCHANGED <<engineConn, mutex, cwnd_int, cwnd, pacing_rate, srtt,
                 epoch, outbox, inbox, reply, cwnd_sum>>

(* xqc_rlcc_reset_cwnd, one store per step: cwnd (line 728), cwnd_int    *)
(* (729), then the two stores of the pacing rate (730, lines 50 and 51).  *)
(* It takes no lock.                                                      *)
ResetCwnd(c) ==
  /\ enginePc = "idle"
  /\ cwnd' = [cwnd EXCEPT ![c] = XQC_RLCC_MIN_WINDOW]
  /\ enginePc' = "reset_int"
  /\ engineConn' = c
  /\ UNCHANGED <<mutex, lpc, cwnd_int, pacing_rate, srtt, epoch, outbox, inbox,
                 reply, cwnd_sum>>

ResetCwndInt ==
  /\ enginePc = "reset_int"
  /\ cwnd_int' = [cwnd_int EXCEPT ![engineConn] = XQC_RLCC_MIN_WINDOW_INT]
  /\ enginePc' = "reset_rate"
  /\ UNCHANGED <<engineConn, mutex, lpc, cwnd, pacing_rate, srtt, epoch,
                 outbox, inbox, reply, cwnd_sum>>

ResetPacingRate ==
  /\ enginePc = "reset_rate"
  /\ pacing_rate' = [pacing_rate EXCEPT ![engineConn] =
                       PacingRateRaw(cwnd[engineConn], srtt[engineConn])]
  /\ enginePc' = "reset_clamp"
  /\ UNCHANGED <<engineConn, mutex, lpc, cwnd_int, cwnd, srtt, epoch,
                 outbox, inbox, reply, cwnd_sum>>

ResetPacingClamp ==
  /\ enginePc = "reset_clamp"
  /\ pacing_rate' = [pacing_rate EXCEPT ![engineConn] = ClampPacingRate(@)]
  /\ enginePc' = "idle"
  /\ UNCHANGED <<engineConn, mutex, lpc, cwnd_int, cwnd, srtt, epoch,
                 outbox, inbox, reply, cwnd_sum>>

-----------------------------------------------------------------------------
(* Listener thread get_action(c).  It holds the mutex from the return of  *)
(* pthread_cond_wait to the unlock at line 336, so only reset_cwnd on the *)
(* engine thread, which takes no lock, can store in between its steps.    *)

ListenerStep(c, from, to) ==
  /\ lpc[c] = from
  /\ lpc' = [lpc EXCEPT ![c] = to]

(* pthread_mutex_lock, then pthread_cond_wait releases it and blocks. *)
LockAndWait(c) ==
  /\ ListenerStep(c, "lock", "wait")
  /\ mutex = NoOwner
  /\ UNCHANGED <<enginePc, engineConn, mutex, cwnd_int, cwnd, pacing_rate,
                 srtt, epoch, outbox, inbox, reply, cwnd_sum>>

(* pthread_cond_wait returns without a signal. *)
SpuriousWakeup(c) ==
  /\ SpuriousWakeups
  /\ ListenerStep(c, "wait", "relock")
  /\ UNCHANGED <<enginePc, engineConn, mutex, cwnd_int, cwnd, pacing_rate,
                 srtt, epoch, outbox, inbox, reply, cwnd_sum>>

(* pthread_cond_wait reacquires the mutex before returning. *)
Relock(c) ==
  /\ ListenerStep(c, "relock", "recv")
  /\ mutex = NoOwner
  /\ mutex' = c
  /\ UNCHANGED <<enginePc, engineConn, cwnd_int, cwnd, pacing_rate, srtt,
                 epoch, outbox, inbox, reply, cwnd_sum>>

(* redisGetReply blocks until a message arrives and takes it off the      *)
(* connection; sscanf reads its action into cwnd_value (line 180).        *)
GetReply(c) ==
  /\ ListenerStep(c, "recv", "check")
  /\ inbox[c] # <<>>
  /\ reply' = [reply EXCEPT ![c] = Head(inbox[c])]
  /\ inbox' = [inbox EXCEPT ![c] = Tail(@)]
  /\ UNCHANGED <<enginePc, engineConn, mutex, cwnd_int, cwnd, pacing_rate,
                 srtt, epoch, outbox, cwnd_sum>>

(* redisGetReply returns an error (the connection is broken): nothing is   *)
(* applied, the mutex is released and the loop starts over.               *)
GetReplyFailed(c) ==
  /\ BrokenConn
  /\ ListenerStep(c, "recv", "lock")
  /\ mutex' = NoOwner
  /\ UNCHANGED <<enginePc, engineConn, cwnd_int, cwnd, pacing_rate, srtt,
                 epoch, outbox, inbox, reply, cwnd_sum>>

(* Line 182: a decrease is applied only if the window, as read now, is at *)
(* least its size.                                                        *)
CheckDecrease(c) ==
  /\ LET v == reply[c].value
     IN  IF cwnd_int[c] >= (IF v > 0 THEN v ELSE -v) \/ v > 0
         THEN ListenerStep(c, "check", "add")
         ELSE ListenerStep(c, "check", "floor")
  /\ UNCHANGED <<enginePc, engineConn, mutex, cwnd_int, cwnd, pacing_rate,
                 srtt, epoch, outbox, inbox, reply, cwnd_sum>>

(* Line 183, rlcc->cwnd_int += cwnd_value: the load of cwnd_int and the   *)
(* uint32 sum ...                                                          *)
LoadAdd(c) ==
  /\ ListenerStep(c, "add", "store")
  /\ cwnd_sum' = [cwnd_sum EXCEPT ![c] = U32(cwnd_int[c] + reply[c].value)]
  /\ UNCHANGED <<enginePc, engineConn, mutex, cwnd_int, cwnd, pacing_rate,
                 srtt, epoch, outbox, inbox, reply>>

(* ... and the store of the sum. *)
StoreAdd(c) ==
  /\ ListenerStep(c, "store", "floor")
  /\ cwnd_int' = [cwnd_int EXCEPT ![c] = cwnd_sum[c]]
  /\ UNCHANGED <<enginePc, engineConn, mutex, cwnd, pacing_rate, srtt, epoch,
                 outbox, inbox, reply, cwnd_sum>>

(* Lines 185-188: the floor.  Its check and its store are one step: the   *)
(* only store that can fall between them, reset_cwnd's, writes the same   *)
(* MIN_WINDOW_INT.                                                        *)
Floor(c) ==
  /\ ListenerStep(c, "floor", "set_cwnd")
  /\ cwnd_int' = [cwnd_int EXCEPT ![c] = FloorWin(@)]
  /\ UNCHANGED <<enginePc, engineConn, mutex, cwnd, pacing_rate, srtt, epoch,
                 outbox, inbox, reply, cwnd_sum>>

(* rlcc->cwnd = rlcc->cwnd_int * XQC_RLCC_MSS (line 189). *)
SetCwnd(c) ==
  /\ ListenerStep(c, "set_cwnd", "rate_raw")
  /\ cwnd' = [cwnd EXCEPT ![c] = cwnd_int[c] * MSS]
  /\ UNCHANGED <<enginePc, engineConn, mutex, cwnd_int, pacing_rate, srtt,
                 epoch, outbox, inbox, reply, cwnd_sum>>

(* xqc_rlcc_calc_pacing_rate_by_cwnd (line 190): the rate by the window   *)
(* is stored unclamped (line 50) ...                                      *)
SetPacingRate(c) ==
  /\ ListenerStep(c, "rate_raw", "rate_clamp")
  /\ pacing_rate' = [pacing_rate EXCEPT ![c] = PacingRateRaw(cwnd[c], srtt[c])]
  /\ UNCHANGED <<enginePc, engineConn, mutex, cwnd_int, cwnd, srtt, epoch,
                 outbox, inbox, reply, cwnd_sum>>

(* ... then clamped (line 51); pthread_mutex_unlock and back to the top   *)
(* of the loop.                                                           *)
ClampPacingRateUnlock(c) ==
  /\ ListenerStep(c, "rate_clamp", "lock")
  /\ pacing_rate' = [pacing_rate EXCEPT ![c] = ClampPacingRate(@)]
  /\ mutex' = NoOwner
  /\ UNCHANGED <<enginePc, engineConn, cwnd_int, cwnd, srtt, epoch, outbox,
                 inbox, reply, cwnd_sum>>

-----------------------------------------------------------------------------
(* The external policy *)

(* The policy answers the oldest unanswered snapshot with an action. *)
PolicyReply(c) ==
  /\ outbox[c] # <<>>
  /\ \E v \in Actions :
       inbox' = [inbox EXCEPT ![c] =
                   Append(@, [epoch |-> Head(outbox[c]), value |-> v])]
  /\ outbox' = [outbox EXCEPT ![c] = Tail(@)]
  /\ UNCHANGED <<enginePc, engineConn, mutex, lpc, cwnd_int, cwnd,
                 pacing_rate, srtt, epoch, reply, cwnd_sum>>

(* A snapshot (or its answer) is lost in the pub/sub channel. *)
PolicyDrop(c) ==
  /\ LossyChannel
  /\ outbox[c] # <<>>
  /\ outbox' = [outbox EXCEPT ![c] = Tail(@)]
  /\ UNCHANGED <<enginePc, engineConn, mutex, lpc, cwnd_int, cwnd,
                 pacing_rate, srtt, epoch, inbox, reply, cwnd_sum>>

-----------------------------------------------------------------------------
Listener(c) ==
  \/ LockAndWait(c) \/ SpuriousWakeup(c) \/ Relock(c)
  \/ GetReply(c) \/ GetReplyFailed(c) \/ CheckDecrease(c) \/ LoadAdd(c)
  \/ StoreAdd(c) \/ Floor(c) \/ SetCwnd(c) \/ SetPacingRate(c)
  \/ ClampPacingRateUnlock(c)

Engine ==
  \/ \E c \in Conns : OnAck(c) \/ OnAckEpochEnd(c) \/ ResetCwnd(c)
  \/ SignalListener \/ ResetCwndInt \/ ResetPacingRate \/ ResetPacingClamp

Next ==
  \/ Engine
  \/ \E c \in Conns : Listener(c)
  \/ \E c \in Conns : PolicyReply(c) \/ PolicyDrop(c)

Spec == Init /\ [][Next]_vars

(* Each thread that can take its next step eventually does (the listener  *)
(* threads and the engine inside a handler are scheduled by the OS), and  *)
(* the policy answers every snapshot it holds.  Acks, epoch ends and      *)
(* resets get no fairness: the transport may stop calling on_ack.        *)
FairSpec ==
  /\ Spec
  /\ \A c \in Conns : WF_vars(Listener(c)) /\ WF_vars(PolicyReply(c))
  /\ WF_vars(SignalListener)
  /\ WF_vars(ResetCwndInt) /\ WF_vars(ResetPacingRate)
  /\ WF_vars(ResetPacingClamp)

-----------------------------------------------------------------------------
TypeOK ==
  /\ enginePc \in EnginePcs
  /\ engineConn \in Conns
  /\ mutex \in Conns \cup {NoOwner}
  /\ lpc \in [Conns -> ListenerPcs]
  /\ cwnd_int \in [Conns -> Nat]
  /\ cwnd \in [Conns -> Nat]
  /\ pacing_rate \in [Conns -> Nat]
  /\ srtt \in [Conns -> Nat]
  /\ epoch \in [Conns -> 0..MaxEpochs]
  /\ outbox \in [Conns -> Seq(Nat)]
  /\ inbox \in [Conns -> Seq(Reply)]
  /\ reply \in [Conns -> [epoch : Nat, value : Int]]
  /\ cwnd_sum \in [Conns -> Nat]

(* The engine thread is never blocked for good in on_ack: it never waits   *)
(* for the mutex while the listener holding it sits in redisGetReply on a  *)
(* connection with no buffered reply and no snapshot left for the policy   *)
(* to answer (only the blocked engine could publish one).                  *)
EngineNeverStuck ==
  ~ /\ enginePc = "signal"
    /\ mutex # NoOwner
    /\ lpc[mutex] = "recv"
    /\ inbox[mutex] = <<>>
    /\ outbox[mutex] = <<>>

(* The refinement mapping.  The snapshots not yet answered by an applied  *)
(* action are the one whose reply the listener holds before its add is   *)
(* stored, those whose replies sit in the listener's buffer, and those    *)
(* the policy has not answered yet.  The abstract window is cwnd_int,     *)
(* with the floor the listener is about to store already taken.           *)
Epochs(s) == [i \in 1..Len(s) |-> s[i].epoch]
PendingOf(c) ==
  (IF lpc[c] \in {"check", "add", "store"} THEN <<reply[c].epoch>> ELSE <<>>)
  \o Epochs(inbox[c]) \o outbox[c]
WindowOf(c) == IF lpc[c] = "floor" THEN FloorWin(cwnd_int[c]) ELSE cwnd_int[c]

Exchange == INSTANCE RlccExchange
              WITH pending <- [c \in Conns |-> PendingOf(c)],
                   window <- [c \in Conns |-> WindowOf(c)]

(* The bridge implements the abstract exchange: each action the listener *)
(* applies answers the oldest unanswered snapshot of its controller, once, *)
(* with the additive law on the window as it is, and a reset_cwnd is never *)
(* undone.  It fails in the code: reset_cwnd's unlocked store of cwnd_int  *)
(* (line 729) can fall between the load and the store of line 183, whose  *)
(* store then writes back a sum computed from the window before the reset. *)
ExchangeRefined == Exchange!Spec

(* Spec section 5, "must never block the transport loop indefinitely":    *)
(* once on_ack or reset_cwnd is under way, the engine thread gets back to *)
(* the transport; the signal needs the mutex, which the listener holds    *)
(* until a reply arrives.                                                 *)
EngineReturns == enginePc # "idle" ~> enginePc = "idle"

(* A woken listener eventually applies a reply and goes back to the top   *)
(* of its loop, releasing the mutex.                                      *)
WokenListenerReturns ==
  \A c \in Conns : lpc[c] \in {"relock", "recv"} ~> lpc[c] = "lock"

(* The listener of a controller is woken at most once per snapshot still  *)
(* to be answered: snapshots queued at the policy plus replies buffered on *)
(* the listener's connection are at least the wake-ups in flight (a woken *)
(* listener, and the engine about to signal for c).                        *)
Woken(c) == IF lpc[c] \in {"relock", "recv"} THEN 1 ELSE 0
Signalling(c) == IF enginePc = "signal" /\ engineConn = c THEN 1 ELSE 0
WakeupsCovered ==
  \A c \in Conns : Len(outbox[c]) + Len(inbox[c]) >= Woken(c) + Signalling(c)

(* Spec section 5: the action the listener applies answers the current    *)
(* snapshot or, while the engine is already one epoch ahead, the previous *)
(* one; it never answers a snapshot two or more epochs old.                *)
ActionFreshness ==
  [][\A c \in Conns :
       lpc[c] = "recv" /\ lpc'[c] = "check" =>
         epoch[c] - Head(inbox[c]).epoch <= 1]_vars

(* Spec section 4.4: whenever neither the listener nor reset_cwnd is      *)
(* between its store of cwnd_int and its store of cwnd, the window in     *)
(* bytes is the window in segments times MSS.                             *)
CwndMatchesInt ==
  \A c \in Conns :
    /\ lpc[c] \notin {"floor", "set_cwnd"}
    /\ ~(enginePc = "reset_int" /\ engineConn = c)
    => cwnd[c] = cwnd_int[c] * MSS

(* Spec section 3: whatever the interleaving of actions, resets, wake-ups  *)
(* and losses, the window get_cwnd returns is at least MIN_WINDOW and a    *)
(* whole number of segments, even while the listener is between its       *)
(* stores: cwnd is only ever stored from a floored cwnd_int.               *)
ObservedCwndBounds ==
  \A c \in Conns :
    /\ cwnd[c] >= XQC_RLCC_MIN_WINDOW
    /\ cwnd[c] % MSS = 0

(* xqc_rlcc_get_pacing_rate returns the uint64_t field as a uint32_t. *)
PacingRead(r) == r % Uint32Mod

(* Spec section 3, "at all observation points": the pacing rate           *)
(* get_pacing_rate returns on the engine thread, between two of its       *)
(* handlers, is within [XQC_DEFAULT_PACING_RATE, xqc_pacing_rate_max].    *)
(* The listener stores the unclamped rate by the window (line 50) before  *)
(* it stores the clamped one (line 51), and the engine may read between.  *)
ObservedPacingRate ==
  enginePc = "idle" =>
    \A c \in Conns :
      PacingRead(pacing_rate[c]) \in XQC_DEFAULT_PACING_RATE..PacingMax
=============================================================================
