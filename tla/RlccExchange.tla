----------------------------- MODULE RlccExchange ----------------------------
(***************************************************************************)
(* What the bridge of rlcc.c promises, with the threads and the lock left *)
(* out: per controller, the snapshots published and not yet answered      *)
(* form a queue in epoch order; an answer is applied in one step, to the  *)
(* oldest of them, with the additive law (plan 2); a snapshot may be lost *)
(* in the channel; reset_cwnd may set the window back to MIN_WINDOW_INT   *)
(* at any time.  Nothing is applied that does not answer a published      *)
(* snapshot, and no snapshot is answered twice.                           *)
(*                                                                         *)
(* RlccBridge implements this specification under a refinement mapping   *)
(* (property ExchangeRefined there).                                      *)
(***************************************************************************)
EXTENDS RlccLaws, Sequences

CONSTANTS Conns, Flagged, Actions, MaxEpochs, LossyChannel

VARIABLES
  epoch,    \* epoch[c]: epochs ended so far
  pending,  \* pending[c]: epochs published and not yet answered, oldest first
  window    \* window[c]: cwnd_int

avars == <<epoch, pending, window>>

Init ==
  /\ epoch = [c \in Conns |-> 0]
  /\ pending = [c \in Conns |-> <<>>]
  /\ window = [c \in Conns |-> XQC_RLCC_INIT_WIN_INT]

(* An epoch ends; a controller with a path flag publishes its snapshot. *)
Publish(c) ==
  /\ epoch[c] < MaxEpochs
  /\ epoch' = [epoch EXCEPT ![c] = @ + 1]
  /\ pending' = IF c \in Flagged
                THEN [pending EXCEPT ![c] = Append(@, epoch[c] + 1)]
                ELSE pending
  /\ UNCHANGED window

(* The answer v to the oldest pending snapshot is applied. *)
Apply(c) ==
  /\ pending[c] # <<>>
  /\ \E v \in Actions : window' = [window EXCEPT ![c] = AddStep(@, v)]
  /\ pending' = [pending EXCEPT ![c] = Tail(@)]
  /\ UNCHANGED epoch

(* The i-th pending snapshot, or its answer, is lost. *)
Lose(c) ==
  /\ LossyChannel
  /\ \E i \in 1..Len(pending[c]) :
       pending' = [pending EXCEPT ![c] = SubSeq(@, 1, i - 1)
                                         \o SubSeq(@, i + 1, Len(@))]
  /\ UNCHANGED <<epoch, window>>

(* reset_cwnd. *)
Reset(c) ==
  /\ window' = [window EXCEPT ![c] = XQC_RLCC_MIN_WINDOW_INT]
  /\ UNCHANGED <<epoch, pending>>

Next == \E c \in Conns : Publish(c) \/ Apply(c) \/ Lose(c) \/ Reset(c)

Spec == Init /\ [][Next]_avars

=============================================================================
