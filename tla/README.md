# TLA+ models of the RLCC congestion controller

This directory holds the verification project for the RLCC controller
(`src/xquic_forrlcc/src/congestion_control/rlcc.c` and `rlcc.h`). RLCC is an
xquic congestion-control module whose window is set by an external
reinforcement-learning policy reached through Redis pub/sub. It contains:

- TLA+ modules that model the controller;
- TLC configurations that check them on small instances;
- TLAPS proofs, for every value of the constants, of the main invariants and of an action property;
- an abstract specification of the bridge between the threads, which TLC shows the code does not implement.

## 1. The system

RLCC has five parts, and they interact as follows.

| Part | Code | What it does |
|---|---|---|
| Bounds and translator | `xqc_rlcc_calc_pacing_rate_by_cwnd` (43-53), `xqc_rlcc_calc_cwnd_by_pacing_rate` (56-66), the `#define`s (15-40) | Clamp the window and the pacing rate. Derive one from the other through `srtt` (the initial RTT when `srtt == 0`). |
| Sampler | `xqc_rlcc_on_ack` (428-703), `probe_minrtt` (411-425) | Runs on the transport's engine thread for every ack. The compiled-in `plan = 2` smooths rtt, srtt, inflight, lost and delivery rate over an epoch of `min_rtt + min(min_rtt, 100 ms)`. At the end of each epoch it publishes a snapshot. |
| Telemetry channel | `get_redis_conn` (72-94), `push_state` (96-108), `subscribe` (301-318) | Each controller has two Redis connections. It publishes on `rlccstate_<flag>` and subscribes to `rlccaction_<flag>`. |
| Action applier | `get_result_from_reply` (117-299), `EMA` (110-114) | Decodes the policy's action and updates `cwnd_int`, `cwnd` and `pacing_rate`. Four laws exist; `plan = 2` (additive) is compiled in. |
| Controller core | `xqc_rlcc_init` (346-409), `get_action` (320-339), `xqc_rlcc_reset_cwnd` (724-732), the getters | Initialises the state and starts one detached listener thread per controller. That thread loops: lock the global mutex, wait on the global condition variable, block in `redisGetReply`, apply, unlock. |

The interaction that matters is the bridge between the two threads:

- At the end of an epoch the engine thread publishes, then locks the mutex, signals and unlocks.
- The listener waits on the condition variable. When woken, it reacquires the mutex, blocks in `redisGetReply` **while holding the mutex**, applies the action and unlocks.
- The mutex and the condition variable are file-scope statics (lines 32-33), so every controller of the process shares them.
- `pthread_cond_wait` is called without a predicate (line 330).
- `xqc_rlcc_reset_cwnd` runs on the engine thread and takes no lock.

`src/common/utils/vint/xqc_discrete_int_parser.h` only declares the varint parser. Its implementation is not in this repository.

## 2. Modules

| Module | Models | State and actions |
|---|---|---|
| `RlccLaws` | bounds, translator, the three integer action laws | Pure operators, no variables. `PacingRateByCwnd` is the translator the integer laws call (the reverse one serves only plan 1). `EMA` is line 113. `AddStep` is plan 2 (179-188). `LegacyStep` is plan 3 (193-253), with its `uint8` counters wrapping at 256, and `UpStep` is its increase (201-202). `EmaUpdate` and `EmaStep` are plan 4 (260-286). `FloorWin` is the floor every law ends with. `U32` takes the `uint32` sums of `cwnd_int` modulo `Uint32Mod`. |
| `RlccApplier` | the applier on its own, every operation atomic | Variables: the fields that `get_result_from_reply` reads and writes. `GetResultFromReply(v)` is one whole call, including the trailing `cwnd = cwnd_int * MSS` and the pacing-rate refresh. `ResetCwnd` is `xqc_rlcc_reset_cwnd`. `OnAckSample` is `probe_minrtt` plus the srtt the ack path leaves. `plan` is the law compiled in: a variable that `Init` chooses from the constant `Plans` and that no action changes, so one run covers several builds. |
| `RlccSampler` | the epoch scheduler of `xqc_rlcc_on_ack` (plans 1, 2 and 3 of its local `plan`) | Variables: the clock, `timestamp`, `sample_start`, `sample_stop`, `sent_timestamp` (standing for the whole measurement baseline), `min_rtt`, the throughput's divisor `throughput_dt`, and the number of snapshots published. `OnAck(t, r)` is one whole call at clock `t` with RTT sample `r`: `probe_minrtt`, then `FixedEpoch` (plan 1, 484-495) or `WindowEpoch` (plans 2 and 3, 529-613 and their plan-3 twin). The policy `plan` is chosen by `Init` from `EpochPlans` and never changes, like the applier's. |
| `RlccBridge` | the controller core: engine thread, one listener thread per controller, the shared mutex and condition variable, and the Redis channel | `enginePc` is where the engine is. `OnAck` / `OnAckEpochEnd` run `on_ack`. `SignalListener` is lock/signal/unlock (603-606). `ResetCwnd`, `ResetCwndInt`, `ResetPacingRate` and `ResetPacingClamp` are the four unlocked stores of 728-730 (line 730 calls the translator, which stores twice, lines 50 and 51). `lpc[c]` is where listener `c` is. `LockAndWait`, `Relock` and `GetReply` are lines 329-331; `GetReply` also reads the action (`reply[c]`, line 180). Then plan 2 runs store by store: `CheckDecrease` (182), `LoadAdd` and `StoreAdd` (the load, with the `uint32` sum kept in `cwnd_sum[c]`, and the store of `cwnd_int += cwnd_value`, 183), `Floor` (185-188), `SetCwnd` (189), `SetPacingRate` (the unclamped store of line 50) and `ClampPacingRateUnlock` (the clamp of line 51, then the unlock of line 336). The mutex owner is `mutex`. `outbox[c]` holds the snapshots the policy has not answered; `inbox[c]` holds the replies buffered on the listener's connection. `PolicyReply` and `PolicyDrop` are the policy and the channel. `PacingRead` is the `uint32_t` return of `get_pacing_rate` (744). `FairSpec` adds the fairness of section 3. |
| `RlccExchange` | what the bridge promises, without threads or lock | Per controller, `pending[c]` is the queue of published, unanswered snapshots. `Publish` appends one at an epoch end. `Apply` applies an action (plan 2) to the oldest and removes it. `Lose` drops one anywhere. `Reset` is `reset_cwnd`. |
| `RlccLawsProofs`, `RlccApplierProofs`, `RlccSamplerProofs`, `RlccBridgeProofs` | TLAPS proofs (section 4) | |
| `MC_RlccApplier`, `MC_RlccBridge`, `MC_RlccSampler` | TLC instances | Units and small sets of values. |

`RlccBridge` is checked against `RlccExchange` under the mapping

    PendingOf(c) == <<reply[c].epoch, while lpc[c] is check, add or store>>
                    \o <<epochs of the replies in inbox[c]>> \o outbox[c]
    window[c]    <- FloorWin(cwnd_int[c]) while lpc[c] = "floor", else cwnd_int[c]

The property `ExchangeRefined` is `Exchange!Spec`. Under this mapping:

- `OnAckEpochEnd` is `Publish`;
- `StoreAdd`, or `CheckDecrease` when line 182 refuses the decrease, is `Apply` of the reply the listener holds;
- `PolicyDrop` is `Lose` of the element after the buffered replies;
- `ResetCwndInt` is `Reset`;
- every other step, `PolicyReply` and `GetReply` included (a snapshot turning into a reply, and a reply into the one the listener holds, keeps its place), is a stutter.

`StoreAdd` is an `Apply` only if `cwnd_int` has not changed since `CheckDecrease` read it. `reset_cwnd` takes no lock, so it can change it: this is finding 6.

### Abstractions

- **Units.** TLC's integers are 32-bit, so the MC modules use a 10 ms tick (`UsecPerSec = 100`), an MSS of 10 bytes and an initial RTT of 25 ticks. Every rate is a ratio of the same units, so the laws compute the same windows in segments. `CwndMax` and `PacingMax` are set far above every value reached, as the real `2^64/10^6` is. The sampler runs on a 50 ms tick (`SAMPLE_INTERVAL = 2`).
- **Integer width.** `cwnd_int` is `uint32_t`, and the model takes the sums of lines 183 and 203 modulo `Uint32Mod`. TLC cannot hold 2^32, so the applier runs use 2^30 and the bridge runs 2^20: no sum of the laws they reach comes near it. In bridge_single, the torn decrease of finding 6 does wrap it to 2^20 - 1, and the rate by that window still fits TLC's integers. The wrap through large increases is proved, not run (`AddStepGrowsIffNoWrap`). `cwnd_int * XQC_RLCC_MSS` (line 189) is not wrapped: `XQC_RLCC_MSS` is defined outside this repository, so the width of that product is unknown.
- **Applier inputs.** The applier's inputs are the integer the payload decodes to (plan 2: `{-6,-3,0,1,5}`; plans 3 and 4: `{-1,0,1}`). The policy is free to send any of them. The bridge's policy sends `{-3, 2}`, and `{-5, -3, 2}` in bridge_single, so that line 182 also refuses a decrease there.
- **Data races.** The listener and `reset_cwnd` store the same fields without a common lock, which is undefined behaviour in C. The model takes every load and every store of line 183 and of the translator as a step of its own, as an unoptimised build does; a build that merges them has fewer interleavings, all of which the model has too. The floor check and its store (185-188) are one step, because the only store that can fall between them, `reset_cwnd`'s, writes the same `MIN_WINDOW_INT`.
- **Observations.** `get_cwnd` and `get_pacing_rate` run on the engine thread, so they read the fields only between two of its handlers (`enginePc = "idle"`), while the listener may be anywhere.
- **Sampler data.** The smoothed observables (rtt, srtt, inflight, lost, delivery rate) and `lost_interval` only feed the published text and are left out. `before_total_sent` and `before_lost` are refreshed together with `sent_timestamp`, so the latter stands for the baseline. In the bridge and the applier, an epoch's end is an action bounded by `MaxEpochs`, and the srtt it leaves is a choice from a small set.
- **Payloads.** A snapshot is its epoch number. A reply is the epoch it answers plus its action value.
- **Bridge law.** The bridge applies the compiled-in plan 2 law.

## 3. Runs

| Run | Module / cfg | Checks | Expect | Shows |
|---|---|---|---|---|
| applier_plan2 | MC_RlccApplier / applier_plan2.cfg (`Plans = {2}`) | WindowBounds, IncreaseGrows, DecreaseNeverGrows | pass | Under the additive law, with resets and new srtt samples, `cwnd_int >= 4`, `cwnd = cwnd_int*MSS` and the pacing rate stays within its clamp. Every positive action grows the window and no negative one grows it. |
| applier_signal | applier_signal.cfg | WindowBounds, UpIndexInBounds, EmaStayConverges, IncreaseGrows, DecreaseNeverGrows | pass | Covers the two signal laws, a build of each (`Plans = {3, 4}`). Under plan 3 the table index `up_n` never leaves `0..7`, so `up_actions_list[up_n]` is never read out of bounds. Under plan 4 a "stay" action moves every EMA toward 50000 and never past it. Under both, the window stays within its bounds, a positive action grows it and a negative one never grows it. |
| sampler_plans | MC_RlccSampler / sampler_plans.cfg | ThroughputDefined, PublishSpacing | pass | Covers the three epoch policies, a build of each (`EpochPlans = {1, 2, 3}`). The throughput is never divided by a zero interval, even with several acks on one tick. After the first epoch, two epoch ends are at least the policy's epoch length apart for the current min_rtt: `min_rtt`, `min_rtt + min(min_rtt, SAMPLE_INTERVAL)` or `2*min_rtt`. |
| sampler_stale_baseline | sampler_stale_baseline.cfg | BaselineFresh | violation | Finding 5. |
| bridge_single | MC_RlccBridge / bridge_single.cfg | EngineNeverStuck, WakeupsCovered, EngineReturns, WokenListenerReturns | pass | One controller, no spurious wake-up, no loss, no broken connection, under `FairSpec`. The engine never blocks behind a listener stuck in `redisGetReply`, and the counting invariant holds. The engine always gets back from `on_ack` and `reset_cwnd`, and a woken listener always applies a reply and releases the mutex. No deadlock. |
| bridge_faults | bridge_faults.cfg | ObservedCwndBounds | pass | Two controllers, spurious wake-ups, lost snapshots and failing `redisGetReply` calls (`GetReplyFailed`, line 331): the window `get_cwnd` can read is at least `MIN_WINDOW` and a whole number of segments, whatever the interleaving of reset, reply, failure and wake-up, even while the listener is between its stores. Deadlock checking is off because the code really deadlocks here (findings 1-2). |
| bridge_two_controllers | bridge_two_controllers.cfg | EngineNeverStuck | violation | Finding 1. |
| bridge_lost_snapshot | bridge_lost_snapshot.cfg | EngineNeverStuck | violation | Finding 2. |
| bridge_lost_wakeup | bridge_lost_wakeup.cfg | ActionFreshness | violation | Finding 3. |
| bridge_reset_race | bridge_reset_race.cfg | CwndMatchesInt | violation | Finding 4. |
| bridge_lost_reset | bridge_lost_reset.cfg | ExchangeRefined | violation | Finding 6. |
| bridge_rate_read | bridge_rate_read.cfg (srtt samples `{5, 60}`) | ObservedPacingRate | violation | Finding 7. |

Each property of a passing run has a mutant: a plausible bug in a mapped definition that TLC must catch. The mutants are:

- `FloorWinMissing`: the floor check dropped;
- `UpNRaiseOffByOne`: `up_n < 8`;
- `EMANoDecay`: `rate` instead of `rate - 1`;
- `AddStepNoIncreaseBypass`: the `|| cwnd_value > 0` of line 182 dropped;
- `FloorWinInitWin`: the floor restores INIT_WIN instead of MIN_WINDOW, so a decrease below the floor grows the window;
- `UpStepNoMin`: the `if (a == 0) a = 1` of line 202 dropped;
- `EmaStepUnsigned`: the minus sign of the plan-4 decrease lost;
- `OnAckSignalAlways`: a signal on every ack instead of at the epoch end (this breaks the bridge invariants, and the liveness properties through the resulting stuck engine);
- `FixedEpochNoStamp`: plan 1 forgets `timestamp = current_time`;
- `NextStartNoWait`: no wait of min_rtt before the sampling window.

`FloorWinMissing` breaks `ObservedCwndBounds` too: without the floor, the listener's `cwnd = cwnd_int * MSS` stores a window below `MIN_WINDOW`.

### Findings

1. **Two controllers on one engine freeze it.** Two RLCC connections in one process share the mutex and the condition variable. The engine's signal for controller A can wake B's listener. B then holds the mutex inside `redisGetReply` on a connection with nothing to read. The next `pthread_mutex_lock` of the engine (line 603) then blocks the engine thread forever. TLC finds this in 6 steps.
2. **Lost snapshots freeze it too, with one controller.** Redis pub/sub delivers at most once. After one lost snapshot (or answer), the listener woken for it blocks in `redisGetReply` holding the mutex until the answer to the next snapshot arrives. Every later epoch end then blocks the engine's `pthread_mutex_lock` (line 603) for a round trip to the policy. After a second loss the listener waits with nothing outstanding, and the engine blocks for good at the next epoch end. TLC's trace loses both snapshots of the woken listener and of the signal in flight.
3. **Lost wake-ups leave actions stale.** `pthread_cond_signal` is lost if the listener is not yet waiting; the wait has no predicate (line 330). Replies then queue up, and each later wake-up applies the oldest. An action answering a snapshot two epochs old is applied while newer answers wait. The run checks this with `ActionFreshness`.
4. **reset_cwnd races the listener.** `xqc_rlcc_reset_cwnd` writes `cwnd` and `cwnd_int` without the mutex. The listener can interleave and leave `cwnd != cwnd_int * MSS` with both threads done, which the spec's data model forbids.
5. **A long ack gap leaves the baseline stale.** Plans 2 and 3 refresh `sent_timestamp`, `before_total_sent` and `before_lost` only on an ack that arrives before `sample_start` (line 534). If no ack arrives in the min_rtt after an epoch end, the next snapshot's throughput and loss are measured from an earlier epoch's baseline. Spec section 4.2 says they cover the epoch.
6. **reset_cwnd is lost, or wraps the window.** `rlcc->cwnd_int += cwnd_value` (line 183) is a load and a store, checked at line 182, and `xqc_rlcc_reset_cwnd` stores `cwnd_int` (line 729) without the mutex. A reset between the load and the store is overwritten: the listener stores the old window plus the action (32 - 3 = 29 right after a reset to 4). A reset between the check and the load is worse: a decrease checked against the old window is applied to the reset one, and `4 - 5` wraps the `uint32_t` to 2^32 - 1 segments, above the floor, so nothing catches it. TLC reaches that state (2^20 - 1 in its scaled word) in bridge_single's state space. The run checks `ExchangeRefined`: after the reset, the applied action must act on the reset window.
7. **get_pacing_rate can read an unclamped rate.** `xqc_rlcc_calc_pacing_rate_by_cwnd` stores `cwnd * 10^6 / srtt` into `rlcc->pacing_rate` (line 50) and then clamps it in a second store (line 51). The listener runs it outside any lock the engine takes, so `get_pacing_rate` can return the first value. At `MIN_WINDOW` it is below `XQC_DEFAULT_PACING_RATE` once `srtt` exceeds 500 ms (60 ticks in the run). The spec says the rate is within its bounds "at all observation points" (section 3) and that the getters may run while the listener mutates (section 4.5). `get_pacing_rate` also returns the `uint64_t` field as a `uint32_t` (line 744), which `ObservedPacingRate` takes into account. The rates the runs reach stay below that word, so only the torn read shows.

Not a run, but proved: **a large increase wraps the window.** Plan 2 adds any positive action to the `uint32_t cwnd_int` with no ceiling (line 183). Two steps of 2^31-1 from 32 give `4294967326 mod 2^32 = 30`, and an "increase" collapses the window. `AddStepGrowsIffNoWrap` (section 4) says exactly when.

### Bounds

- Applier runs: 6 (plan 2) or 9 (plans 3 and 4) actions are applied, from every reachable state of the other operations. In plan 3 this covers:
  - a streak longer than `ifup` for both RTT classes (one RTT sample below `SAMPLE_INTERVAL`, one above);
  - the decay at `up_n = 0`;
  - `up_n` reaching 7.

  In plan 2 it covers a decrease larger than the window (ignored), one that crosses the floor, and a reset followed by increases.
- Sampler runs: clock values up to 12 ticks and RTT samples `{1, 3}` (one below `SAMPLE_INTERVAL`, one above). This covers both branches of `xqc_min`, min_rtt dropping in the middle of an epoch, four epochs at the short RTT, several acks on one tick, and an ack gap longer than the wait before a sampling window (which finding 5 needs).
- Bridge runs: 2 or 3 epochs per controller. Two lost wake-ups need three epochs. The lost reset needs one reply and one reset, and the torn rate read one reply and an srtt above 50 ticks.
- Every violation appears within these bounds. The passing runs reach from about 3k to 2.5M distinct states. The largest, bridge_faults, takes about a minute.

### Fairness

`FairSpec` assumes weak fairness of:

- each listener thread (`Listener(c)`);
- the engine's steps inside a handler (`SignalListener`, `ResetCwndInt`, `ResetPacingRate`, `ResetPacingClamp`);
- the policy's answer (`PolicyReply(c)`).

The OS scheduler justifies the first two. The third is the assumption that the policy answers what it receives. Acks, epoch ends and resets get no fairness, because the transport may stop calling `on_ack`. Losses, spurious wake-ups and broken connections get none either.

bridge_single checks the leads-to properties and deadlock freedom on the same instance.

The liveness properties are checked only without faults and with one controller. Findings 1 and 2 show the engine stuck for good otherwise.

## 4. Proofs (TLAPS)

Every theorem holds for every value of the constants allowed by the named assumptions: `LawsAssumption`, `BridgeAssumption` and `SamplerAssumption` (positive units and intervals, RTT samples of at least one tick, `Actions \subseteq Int`).

- **`RlccLawsProofs`**: lemmas on the laws. The translator stays within its clamp (`PacingRateInBounds`). Every plan-2 step is a natural of at least 4, even after the `uint32` wrap (`AddStepFloor`). Every plan-4 update keeps the EMAs natural and the divisors positive (`EmaUpdateType`). Every plan-3 step keeps `up_n` in `0..7` and the window at the floor or above (`LegacyStepType`).
  - The direction of a step on a `uint32` window below `Uint32Mod`: every law keeps it below (`AddStepFits`, `LegacyFits`); a negative step never grows it (`AddStepDecrease`, `LegacyFits`, `EmaStepDecrease`).
  - `AddStepGrowsIffNoWrap` states the wrap of a large increase exactly. A positive plan-2 step of C `int` range grows the window if and only if `cwnd_int + v < 2^32`, so the wrap is the only way an increase fails.
- **`RlccApplierProofs`**: `ApplierTypeCorrect`, `WindowBoundsThm`, `UpIndexInBoundsThm` (`Spec => []...`) and `EmaStayConvergesThm` (the action property).
  - None of the invariants is inductive alone. The inductive invariant is `AInv == TypeOK /\ ema \in EmaRec /\ UpIndexInBounds /\ WindowBounds`.
  - `ema \in EmaRec` carries the positive divisors that plan 4 needs, and `UpIndexInBounds` the table index that plan 3 reads.
  - The step lemma has one case per operation, and per plan for `GetResultFromReply`.
  - `EmaStayConvergesThm` follows from `AInv` and the arithmetic of `EMA`.
  - `DecreaseNeverGrowsThm` (`Spec => DecreaseNeverGrows`) needs one more conjunct, `FitsUint32 == cwnd_int < Uint32Mod`. A plan-2 decrease is computed as `U32(cwnd_int + v)`, which stays below `cwnd_int` only if `cwnd_int` itself is a `uint32` value. `LawsAssumption` gives `32 < Uint32Mod` for the initial window (2^32 in the code). TLC checked `FitsUint32` on the applier runs before the proof.
- **`RlccSamplerProofs`**: `ThroughputDefinedThm` and `PublishSpacingThm`. The strengthening `SInv` says:
  - under plan 1, `sent_timestamp = timestamp`;
  - under plans 2 and 3, before the first epoch the window fields are still 0; after it, `sent_timestamp < sample_start <= sample_stop`, and `sample_stop` is at least one epoch length (for the current min_rtt) after the last epoch end.

  The last fact needs min_rtt never to grow, which needs it never to be 0 (`ProbeBounds`).
- **`RlccBridgeProofs`**: `TypeCorrect`, `ObservedCwndBoundsThm`, `WakeupsCoveredThm` and `EngineNeverStuckThm`.
  - `ObservedCwndBoundsThm` holds with any number of controllers and every fault. `ObservedCwndBounds` is not inductive: `SetCwnd` multiplies `cwnd_int`, which `StoreAdd` may leave below `MIN_WINDOW_INT`. The strengthening is `CwndIntFloored`: `cwnd_int[c]` is at least `MIN_WINDOW_INT` unless listener `c` is at `"floor"`, between the store of line 183 and the floor. TLC checked it on bridge_faults' instance first. The step lemmas: only `Floor` leaves `"floor"` and it stores `FloorWin` (`FloorWinAtLeast`); `StoreAdd` and a refused `CheckDecrease` enter it; `ResetCwndInt` stores `MIN_WINDOW_INT` (`FlooredStep`). `cwnd` is written only by `SetCwnd`, at `"set_cwnd"`, after the floor (`SegmentsBound`), and by `ResetCwnd` (`CwndBoundStep`). The pacing rate has no such theorem: finding 7 shows it false.
  - The last two assume `SingleController(c0)`: `Conns = {c0}`, no spurious wake-up, no lost snapshot, no broken listener connection. The run bridge_lost_snapshot shows that losses must be excluded. TLC also shows that spurious wake-ups must be: one is enough for the listener to enter `redisGetReply` with nothing to read while it holds the mutex.
  - The inductive invariant is `IInv == TypeOK /\ WakeupsCovered`, where

        Len(outbox[c]) + Len(inbox[c]) >= Woken(c) + Signalling(c)

    In words: every listener past its wait, and every signal the engine is about to send, is matched by a snapshot or a reply still to be consumed. The stuck state has 2 on the right and 0 on the left (`CoveredNotStuck`).
  - `TypeCorrect` rests on the lemmas of `RlccLawsProofs` for each store: `PacingRawNat` (line 50), `ClampRateNat` (line 51), `U32Nat` (the sum of line 183) and `FloorWinAtLeast`.

**Left to TLC:**

- the liveness properties (TLAPS does not reason about `ENABLED` and fairness here);
- `IncreaseGrows`. It is false for the code's constants: a large increase wraps the window. `AddStepGrowsIffNoWrap` states when it fails;
- `ExchangeRefined` and `ObservedPacingRate`, which are false (findings 6 and 7);
- every violation.

## 5. Not modelled, and why

- **Plan 1 of the action laws (the multiplicative law, lines 138-174).** It works on `float`. Compiled out.
- **The published text** (the smoothed observables, `lost_interval` and its `uint32` to `int` conversion at line 581, the `sprintf` and the `>> 10` of cwnd). The policy is free, so the model reduces a snapshot to its epoch number.
- **`cwnd_int * MSS` in 32 bits** (line 189). The width depends on `XQC_RLCC_MSS`'s type, which is not in this repository.
- **Connection failures and teardown.** `get_redis_conn` failures leave freed or NULL contexts (82-91), and the listener thread outlives the controller (404-406). These are memory-safety problems, not state-machine steps.
- **Malformed payloads.** `sscanf` leaves `cwnd_value` uninitialised (line 180). The model's action set already contains every small integer the policy sends, including ones that break the floor.
- **The `state:init` marker** published by `xqc_rlcc_init` (line 394). The policy is free anyway.
- **The varint parser.** Only its header is in this repository.

## 6. Plan for later work

- Compose the sampler's timing with the bridge, so that lost wake-ups depend on real ack spacing.
- With `reset_cwnd` under the mutex (the fix of findings 4 and 6), prove `ExchangeRefined` with TLAPS.
- Prove the safety parts of the liveness properties.
