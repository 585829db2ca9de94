# PMG1-B1 USB-C battery charger firmware: a TLA+ verification project

The firmware charges a five-cell battery from a USB-C port. The PMG1-B1 takes a USB Power Delivery contract, or what a
legacy charger offers, feeds a buck-boost converter from it, and closes a switch to the battery once the converter
stands at the battery's voltage. This directory holds a model of its own logic: the charger state machine, between and inside
its passes, the detection of legacy chargers, the recovery from port faults, what the port answers to its partner, with the
runs that check them and the theorems that hold for every value of their constants. `PROJECT.json` links every definition to the lines it models and lists the hazards the properties are for.

Paths below are relative to `src/` (so `src/solution/solution.c` is `src/src/solution/solution.c` of the checkout). The model
is of the build the configuration selects: `CY_PD_SINK_ONLY`, `PMG1B1_USB_CHARGER`, `BATTERY_CHARGING_ENABLE`, no QC or
AFC, no cell monitoring. `battery_charging.c` switches most of its body on the device name, and the line tests
`CY_DEVICE_CCG7S`; that macro comes from a library outside the repository and the model assumes it is defined, since without it
`bc_start` and `bc_fsm` do nothing.

## 1. Inventory

How the program runs: `main` initialises and then loops over the stack's tasks, `app_task` (`fault_handler_task`, then
`bc_fsm`), `soln_task`, and the instrumentation. Everything else is a callback: port events from the PD stack
(`app_event_handler` -> `sln_pd_event_handler` -> `batt_pd_event_handler`, then `bc_pd_event_handler`) in the loop's
context, and soft timers, the SAR ADC, the converter's transition engine and the protection comparators in interrupt context.
All interrupts have one priority: callbacks are not preempted, the loop is.

| component | source | state | operations | talks to |
|---|---|---|---|---|
| charger state machine | `solution.c` | `gl_sln_batt_chg_state`, `.._alt_state`, fault flags, power flag, charging flag | `soln_task`, `soln_batt_chge_cmd`, `soln_batt_chgr_hw_disable` | converter, switch, timers; reads contract and BC status |
| port events of the charger | `solution.c` 411-514 | the same | `batt_pd_event_handler` | called by the stack through `app.c`, `main.c` |
| ADC cycle | `solution.c`, `solution_tasks.c` | `adc_state`, `adc_pending`, results | start, delay, SAR interrupt | gates every pass of the charger |
| charge timeout | `solution.c` 97-188 | `charging_timeout_state`, minute count, timer | `charging_timeout_cmd`, `timer_minute_tick_cb` | sets the expired flag, sends the machine to INIT |
| battery side protections | `solution.c` 190-253 | comparators, one flag each | OVP, UVP, OCP, RCP callbacks | switch the path off behind the machine |
| converter and current transitions | `solution.c` | VBTR, IBTR in progress | `sln_set_volt`, `sln_vbtr_cb`, `sln_ibtr_cb` | OCP is disarmed around IBTR |
| current and power calculation | `solution.c` 111-115, 337-408, 992-1122 | power budget, current and OCP level | ramp, limits, steps | reads contract and monitoring, drives IBTR |
| battery monitoring | `solution_tasks.c` | pack type, debounce timer, thermistor states | presence, current, temperature tasks | flags read by the same pass |
| brown-out | `fault_handlers.c` 497-559 | detector, retry timer | handler and retry callback | power path, sink path |
| VBUS fault recovery | `fault_handlers.c` | fault counters, `fault_status`, recovery timer | `app_handle_fault`, `fault_handler_task`, callbacks | DPM commands, sink path |
| sink path | `psink.c` | path flag, discharge, two timers | `psnk_*` | called by stack, BC machine, brown-out |
| BC 1.2 machine | `battery_charging.c` | state, event bits, two timers, `connected`, `cur_amp` | `bc_start`, `bc_stop`, `bc_fsm`, handlers | read by the charger, drives the sink path |
| PDO evaluation | `pdo.c` | best pair so far, request | `eval_src_cap` and helpers | called by the stack |
| swap requests | `swap.c` | none | one reply per request | stack |
| VDM | `vdm.c` | negotiated versions, response buffer | `eval_vdm` | stack |
| event dispatch | `app.c` | per-port status | `app_event_handler` | all of the above |
| start-up and loop | `main.c` | contexts | `main`, extended messages | all of the above |
| thermistor table | `thermistor.c` | none | interpolation | monitoring |
| instrumentation, debug output | `instrumentation.c`, `debug.c` | counters | watchdog, load, text | none |
| PD stack, PDL, soft timers | outside the repository | port, contract, hardware | | external |

What is hard here, and what makes a component correct:

* Preemption. A callback may come between any two writes of a pass: the completion of a transition before the state that
  waits for it, an OCP trip between the measurement and the write of its flag, a reset that the pass overwrites. Correct: what
  a protection has stopped stays stopped, and an attempt that stalls does so for a known reason.
* Interleaving. A protection, timeout, brown-out retry or port event may fall between any two passes of `soln_task`, which is
  a sequence of about ten passes from INIT to the charge loop. Correct: the path is off whenever a fault is latched,
  the machine rests or the partner is gone, and the switch closes only on a qualified battery.
* Stale state. `is_vbus_pwr_sufficient`, `cur_amp`, `connected` and "timer not running" are read long after they were true.
* Shared switches with several owners: `cur_batt_charging_status`, OCP arming, VBUS discharge, `Dpm_Start`.
* Timeouts and retries that race what they wait for: charge timeout, fault counter, recovery timer, discharge timers.
* Arithmetic at its edges: a fault value of 255 in a signed byte, rounding up of requests, steps too small to be made.
* Answers that depend on what was agreed before: the revision of the partner, the vendor message version, chunks.
* Liveness: waiting states with a single exit (VBTR wait, BC detection, a disabled port).

The full list, at the lines where each bites, is `hazards` in `PROJECT.json`.

## 2. Modules

| module | what it is |
|---|---|
| `BatteryCharger` | charger machine, ADC cycle, charge timeout, protections, monitoring, brown-out, port events |
| `MCBatteryCharger` | voltage sets for TLC |
| `ChargeGate` | abstract promise about the power a battery gets; `BatteryCharger!Gate` is the refinement mapping |
| `BatteryCharger_proofs`, `ChargeGate_proofs` | theorems about the charger, and that it implements `ChargeGate` |
| `FaultRecovery`, `FaultRecovery_proofs` | VBUS fault recovery together with the sink path |
| `RetryPolicy` | abstract promise about retries and giving up; `FaultRecovery!Policy` is the refinement mapping |
| `BcFsm`, `BcFsm_proofs` | detection of Apple and BC 1.2 chargers |
| `ChargePass`, `ChargePass_proofs` | one pass of `soln_task` in steps, with its numbers, and callbacks in between |
| `Thermistor`, `Thermistor_proofs` | conversion and throttling of the board thermistors, operators for `ChargePass` |
| `PdoSelect` | the choice of a source capability, one comparison a step |
| `PortPolicy`, `PortPolicy_proofs` | `PdoSelect` with swaps, vendor and extended messages: all answers to the partner |
| `MCChargePass`, `MCPortPolicy` | supplies, voltages, sensor readings and capability lists for TLC |

### BatteryCharger

One step is one call of `soln_task` (a disjunct of `Pass` per machine state, after the ADC gate `SolnTask`), one callback, or one
port event. `chg` and `alt` are the two state variables, `faults` the set of flags that are set, `tstate`, `minutes` and
`minTmr` the timeout, `bb`, `fet` and `armed` the hardware the code switches, `vbtr` and `ibtr` the transitions under way, `port`
what the stack knows of the partner (`WEAK` and `STRONG`: a contract or a BC supply below or above the minimal power),
`bod` the brown-out detector and its retry timer. Every pass starts with the whole monitoring, as in the code: presence and
debounce, then the thermistor and current verdicts, then the branches in their order.

Abstracted: currents, converter voltages and powers to the outcome of the comparison made with them; the thermistor verdict is any
in every pass; timers have no duration, so they expire in every order. Battery voltages keep their millivolts because the
bands, the recharge hysteresis and the limits are compared with each other. Preemption inside a pass and the numbers are the
business of `ChargePass`.

`ChargeGate` sees the machine through `PowerPath`, which is what the battery gets: nothing while the converter is off, whatever the
switch does, `PREPARED` with the converter alone, `ON` with both.

`ContractLost` lets the stack withdraw a contract without an event, as the repeated test in state ATTACHED_SNK expects.
`BcDetected` is the event `bc_stop` sends: in this build `bc_stop` runs only when the connection is over.

### FaultRecovery

Overvoltage on VBUS, the retry counter (a byte that wraps), the hard reset or error recovery that answers it, the request
to disable a port whose retries are used up, the wait for VBUS to drop, `psnk_enable`, `psnk_set_voltage`, `psnk_disable` and the
discharge with its two timers. The monitor timer compares VBUS with 5 V and `vbus` is VBUS above vSafe0V, so the monitor
may find it low while `vbus` is true. The stack is external and executes what it has accepted; `soln_task` takes part with the one
call it makes here, `Dpm_Start`. Undervoltage has the same handler; delayed and infinite recovery are compiled out.

`RetryPolicy` promises the sense of it: a connection that keeps failing has `Limit` retries, used up one by one and renewed
only between connections, and is then condemned; a condemned port stays so until it is disabled. `condemned` is the sink
fault flag or the accepted command to disable the port (`GivenUp`), `tries` the counter as long as the port is not given
up, since behind that point the code lets the counter go on and wrap.

### BcFsm

The detection that starts when the policy engine gives up on a partner (`APP_EVT_PE_DISABLED`). `bc_fsm` takes the lowest
event of `bc_evt`, the timer interrupt adds events, the port events start and stop the machine. The partner decides what the
comparator reads in the BC 1.2 part: a line reads true only after timer 1 has run since the terminations were applied
(`settled`), and as anything before that and on the biased lines of an Apple brick. The Apple part applies its terminations and
reads in the same call, without a timer (`battery_charging.c:2622-2646`, `:2717-2746`), so `AppleDetect` and `BrickId` read anything
whatever the partner is; `SupplyIsReal` therefore says of the current the Apple part reports only that somebody is attached.

Two assumptions about the environment: a new partner is not debounced before the main loop has called `bc_fsm` once (25 ms and more
against a loop of microseconds), and the policy engine needs longer to give up than a detection takes (two waits for source
capabilities of at least 310 ms against 130 ms), so that `bc_start`, which clears neither timers nor events, does not meet a
detection under way.

### ChargePass and Thermistor

`BatteryCharger` takes a pass in one step, which is right for callbacks between passes only. `ChargePass` takes it apart where an
interrupt makes a difference: the guard of the current monitor and its write of the OCP flag (`pc` from `idle` over `flag` to
`sense`), the case of the state switch (`body`), and the writes that follow in the cases that start something before they say so
(`commit`, `close`, `disarm`, `start`). `branch` is the case that runs, `chg` the state variable a callback may have changed
meanwhile. Callbacks (`Interrupt`) come between any two steps, port events (`PortEvent`) between passes, as both are called
from the main loop. VBUS faults are the exception, since they reach `batt_pd_event_handler` from the fault interrupt.

The module keeps the numbers: the budget `pwr` from the contract and its three percentages, the limits, the ramp, the current
`iout` and the level OCP is armed with, all scaled to the sense resistor. In exchange the battery is always present, the ADC cycle
delivers a voltage in every pass, the debounce and the legacy chargers are left out, the output voltage is not tracked, and a
contract is not changed without being lost (renegotiation is in `BatteryCharger`).

`Thermistor` is operators: `VoltTempMap` is `ccg_volt_temp_map` with the table of `main.c`, its search in one half of the table and its
rounding, `Throttle` the three states of a sensor, `Throttled` the rating they leave. `Temperature` includes the conversion to `int8_t`
that the callers make.

### PdoSelect and PortPolicy

`Compare` is one round of the inner loop of `eval_src_cap`: `Acceptable` is `is_src_acceptable_snk` for all kinds of source and sink,
`Score` what the configured algorithm ranks by, `Beats` the comparison in which a draw goes to the later pair. `highest` is the local
`highest_gl_contract_power`, `rdo` the request so far. `PortPolicy` puts the answers around it. The stack is external: it calls one
handler at a time, so no message is handled while an evaluation runs, and it reports a contract only after a request.
Extended messages come from partners of revision 3 only (`SendsExtended`): PD defines them there, but the handlers in `app.c`
and `main.c:166-178` do not look at the revision, so that `RevisionIsRespected` rests on the partner for them.
`answers` holds what the handlers gave the stack for the message in `asked`. The port is a sink, UFP, without alternate modes and
without VCONN (`alt_mode_entered` is never set in `src/`).

## 3. Runs

| run | instance | shows |
|---|---|---|
| `charger_safety` | absent, charging, full and bad voltage, 1 minute each, OVP, thermistor, brown-out, renegotiation | type, and seven invariants: path off in a resting machine, without a partner, over a fault or expired timeout, and during a debounce; the switch behind its protections; power flag; timeout count and its range |
| `charger_gate` | absent, precharge, between recharge threshold and full, full, 1 minute each, UVP, OCP, VBUS faults, brown-out | refinement of `ChargeGate`, recharge hysteresis, what qualifies battery, partner and mode when the switch closes, all protections armed in the loop |
| `charger_liveness` | precharge and full, 1 and 2 minutes, OVP | charging starts on a stable supply and never lasts forever; no step lengthens the time left to it |
| `fault_recovery` | retry limit 2 | refinement of `RetryPolicy`, a disabled port recovers, discharge ends, no endless retries |
| `bc_detection` | all kinds of partner, both protocols, Apple comparators free | a supply that BC 1.2 or Type-C reports exists, none is reported without a partner, one stimulus at a time, fresh start, every detection ends |
| `charge_pass` | supplies of 40 W and 4.5 W, three voltages, NTCP0 at 25 and 101 degrees, UVP and OCP | a trip inside a pass is final, OCP follows the current, draw within budget, rating and charger limit, a hot board stops, five causes of a stall, the ramp |
| `port_policy` | lists of up to three of ten supplies; 5 V, variable and battery sink capabilities; both revisions | requests are sound and best, answers fit the partner's revision and the negotiated version, one answer per request, every evaluation ends in one |
| `uvp_retry`, `fet_period`, `stale_rp`, `early_restart`, `sensor_fault` | small | one disagreement each between a comment and the code, section 5 |

Bounds. The charger compares a voltage with five thresholds, so one voltage per band gives every outcome; each run has the
bands its properties need, and together they have all. Minutes matter to the timeout properties: the two minutes of
`charger_liveness` are enough for the count to be seen in the middle and at its end, and `timer_minute_tick_cb` treats every
other minute alike; `ChargeTimeSafety` is proved for every length. `Hazards` splits the environment because every hazard
adds an independent dimension; each is on in some passing run, and the theorems hold for any set of them. A retry limit of 2
has a first, a repeated and an exhausted fault; the counter keeps its 256 values. In `charge_pass` one voltage lies in each band
that charges and one is full, and with the stronger supply the budget, the thermistor rating and the charger limit are each the lowest
somewhere; the weaker one does not suffice for charging;
`ntcp1` stays cool there because the sensors are independent and their code differs in the thresholds only. The ASSUMEs of
`MCChargePass` check the conversion of every voltage from 0 to 5 V against the table. In `port_policy` every pair of kinds meets with enough
and with too little, and three capabilities are enough for a best one at any place, a draw and a refusal. No run bounds a queue or a number of
connections: the state spaces are finite as they are and explored completely.

Fairness. The main loop never blocks, so `soln_task`, `bc_fsm`, `fault_handler_task` and the stack run again and again
(weak fairness of `SolnTask`, `BcFsm`, `FaultHandlerTask` and of the commands the stack has accepted); a soft timer that was started
expires, a conversion or transition that was started completes. In `PortPolicy` only the loop of the evaluation is fair: a
function that was called returns. Nothing is assumed of the partner, the battery, the
faults or the policy engine. Liveness is checked where the hypotheses can hold: `ChargingStarts` without brown-outs, see section 5.

Every property of a passing run has a mutant in `PROJECT.json`, a plausible bug at a mapped definition that makes the run fail.

## 4. Proofs

Proved with TLAPS, for every voltage set, timeout, set of hazards, retry limit up to the skip value, configuration table, list of
capabilities and set of partners; the assumptions are the named ASSUMEs of the modules, which TLC evaluates on every run.
One theorem, `HeatSafety`, has a hypothesis of its own, named below. Every safety property of the passing runs is stated by a theorem.

* Charger, `BatteryCharger_proofs`. `TypeCorrect` first: the minute count never passes zero. `FaultIsOff`, `RestingIsOff`,
  `DetachedIsOff`, `DebounceIsOff`, `SwitchIsGuarded` and `ActiveIsPowered` are not inductive one by one: that a resting machine
  has its path off is what lets the port events skip the switch-off in INIT, which is what `DetachedIsOff` needs, and so on. Their
  conjunction with the fact that a machine without partner is IDLE or INIT (`PathInv`) is; `DetachedSafety` and `PowerSafety`
  follow from it like the others. `TimedInv` extends it for the timeout
  (`TimeoutSafety`) and with the modes an active machine may be in. `SwitchQualification` and `RechargeHysteresis` are action
  properties: only one branch of one pass closes the switch or leaves CHARGE_FULL, shown action by action. That the partner, the
  power flag and the chosen mode are still there when the switch closes comes from `PathInv` and `TimedInv`.
* Charge time, `ChargeTimeSafety`. `MinutesLeft` is a measure of the time a charge may still take: the minutes of the running
  count and, in precharge, those of a normal charge after it. While the switch stays closed no step raises it and every minute
  lowers it. This is the part of `ChargeIsTimeLimited` that does not need fairness; it rests on `TimedInv`, since a pass repeats its
  timeout command and must find the count of its own mode.
* `ChargeGate_proofs`. `GateRefinement`: initial states map to initial states, every step to a `ChargeGate` step or a stutter,
  for every set of hazards. `LoopSafety`: beside the voltage protections that every closed switch has
  (`SwitchIsGuarded`), `LoopInv` has OCP armed, or about to be armed by the transition under way, from the moment the switch
  may close, and RCP from the entry of the loop; the brown-out retry disarms OCP, but with the converter off. Nothing is claimed of the converter behind a closed switch:
  a brown-out retry in ENA_BAT_FET (`fet_period`), or a trip or VBUS fault inside the pass that closes it (`ChargePass`),
  leaves the switch closed with the converter off.
* Fault recovery. The properties of the run form the inductive invariant together with `Quiet`, which says what a disabled
  or detached port has already given up. `PolicyRefinement`, the refinement of `RetryPolicy`, goes through the actions under that
  invariant; `CountBelowLimit` is why a port that is not given up has its counter within the limit, although the counter is
  a byte that wraps. It is what `GivesUp` says without fairness. `ExhaustionSafety` is its state form.
* Charger detection. `StimulusInv` lists, per state, the one event or timer it waits for; `FreshInv` and `SourceInv` add
  what has been established about the partner so far (a read of D- is settled, states behind it exclude a computer's
  port, whatever the Apple part read before). `OneStimulus`, `FreshAttach` and `RealSupply` follow. `DetectionIsBounded`: `StepsLeft` counts the steps to the
  finding by state and stimulus; every step of the machine or a timer lowers it, only `bc_start` raises it, and it
  is twelve at most, so that `DetectionEnds` needs no more than that the next step happens.
* Charging pass. `PassInv` ties the place in a pass to the states it may have there, although callbacks change them. `StopInv`
  says what a stopped attempt still has that ends it: a flag that no later step of the pass can wipe. `OcpInv` follows the level
  through disarming, transition and completion; `BudgetInv` says that after the loop case the current is within a step of the limit.
  `HeatInv` links the count of hot readings to the thermistor state; `HeatSafety` has the hypothesis `ReadingsWithinTable`, that
  no sensor voltage lies beyond the end of the table, which a shorted sensor breaks (`sensor_fault`). That a hot reading
  within the table is converted to a hot temperature is a theorem, `HeatIsRead`. `StallCauses` and `RampSafety` go through
  the actions.
* Thermistors. A voltage of the table lies in one segment (`SegmentExists`) and the search finds it in whichever half it starts
  (`SearchFindsSegment`). In a segment the code divides the gap by five first and rounds down twice; `Proportion` bounds what that
  costs, from the gaps of the table, and gives `ConversionIsAccurate` (within a degree of the line) and, by
  the ranges of neighbouring segments, `ConversionIsMonotone`. `ThrottlingSettles`: a steady temperature leaves no
  oscillation between the throttling states.
* Port policy. `EvalInv` says what the evaluation knows in the middle of its loops: the request so far is a pair already compared
  that covers the sink, and no pair compared so far beats it. `SelectionIsBest` is for sinks without the "higher
  capability" bit (section 5). `TalkInv` ties `answers` to `asked`.
  `EvaluationIsBounded`: `PairsLeft` starts at the number of pairs, every round takes one, and a request is sent at zero; `LastRow`
  says that the inner index is set back when the outer loop ends. `CapsAreAnswered` adds that the loop runs.

Only model-checked: the liveness properties `ChargeIsTimeLimited`, `ChargingStarts`, `RecoveryEnds`, `GivesUp`, `DetectionEnds` and
`CapsAreAnswered` (fairness and ENABLED are beyond the prover; for four of them the bound or measure they rest on is proved, see above)
and the violations. `ChargingStarts` and `RecoveryEnds` have no such half: each depends on a chain of external completions.
No model uses a recursive definition, so no induction over data is owed.

## 5. What the checks found

Reported as findings, each with a run that fails:

* `uvp_retry`: "infinite UVP retries are allowed" (`solution.c:750`) is cancelled by the branch above it.
* `fet_period`: "Enable Battery FET after BATT_TIMER_PERIOD expiration" (`solution.c:951`); the code tests that the timer is not
  running, and the brown-out retry stops it.
* `stale_rp`: `cur_amp`, "Active supply current" (`battery_charging.h:301`), survives a change of the Type-C advertisement.
* `sensor_fault`: "fault condition (0xFF) will be reported if the measured temperature is beyond the highest temperature"
  (`thermistor.c:86`); the callers keep it in an `int8_t`, so a shorted sensor or a board above 115 degrees reads as -1, and
  throttling and the over-temperature stop are taken back.
* `early_restart`: a port waiting for VBUS removal (`fault_handlers.c:234`, `:270`) is started by `soln_task` at once.

Noted without a run, because no line of the repository promises otherwise:

* After a brown-out retry in CHARGE_LOOP the machine stays there, not charging, until a port event, and after one in ENA_BAT_FET it
  closes the switch with the converter off. `GateSpec` and `LoopIsProtected` hold all the same, since they speak of what the
  battery gets.
* The power flag (`solution_tasks.h:69`) is not computed again when a contract is renegotiated: charging goes on with the
  verdict of the old one.
* A completion of VBTR between the two writes of SET_VBAT, a switch-off between the start of the converter and the state that follows
  it, a wiped OCP flag, a VBUS fault inside a pass and a brown-out retry leave the machine waiting for a port event
  (`StallHasCause` is the complete list).
* A VBUS fault inside the pass of ENA_BAT_FET is overwritten: the pass goes on and closes the switch, with the converter off. A
  protection that trips there, also UVP between its arming and the write of the pin, is noticed by the next pass only: until then
  the switch is closed over a disarmed UVP (`StopIsFinal`; `SwitchIsGuarded` and `FaultIsOff` hold between the passes of `BatteryCharger`,
  where a pass is one step).
* A current is left alone when it is less than a step from its limit, so that the draw may exceed the budget by up to one step:
  with a contract of 30 W, 1.51 A at 20.75 V are 31 W.
* `eval_src_cap` notes the score of a 5 V pair before it refuses it to a sink with the "higher capability" bit
  (`pdo.c:399-419`): a refused pair can suppress weaker ones at a higher voltage. `RequestIsBest` is stated without that bit.
* Powers are rounded up to 250 mW before they are compared and a draw goes to the later pair, which may be the weaker one.
* The battery status sent to the partner is "idle" for a sink, also while it charges (`main.c:194`; `config.h:437` and `:440` give both
  the same value).
* The minute timer is not stopped by a disconnect or fault, and may expire with nothing being charged.
* `APP_EVT_CONNECT` clears `adc_pending` during a conversion; the next pass works with the previous measurement.
* `app_disable_pd_port` may find a port whose fault was cleared by a disconnect between `app_handle_fault` and
  `fault_handler_task`, and the recovery timer's `DisableRd` may meet a live port.
* `psnk_enable` and `psnk_set_voltage` do not stop the discharge timers. `psink.h:96` promises a callback at vSafe0V, the timer
  compares with 5 V, and the timeout path does not call it.
* A brick of 1 A, refused by the Apple detection, goes on to BC 1.2 detection and may be taken for a port of 1.5 A there.
* Any partner may be taken for an Apple brick of 2.1 A or 2.4 A, and a brick for another one, if the lines have not settled when they
  are read. A comment leaves open whether a timer is needed (`battery_charging.c:2626-2629`), so nothing promises otherwise.

## 6. Not modelled, and the plan

Not modelled for good: instrumentation (watchdog refresh, load and stack measurement), debug text, the temperature of the pack and the
cell monitoring (compiled out), the source role, hardware registers, the PD stack beyond its known effects. `eval_rdo`, and all
of `battery_charging.c` that serves a source, QC or AFC, are compiled out of this build and account for most of its lines.

Partly modelled: the sink path (the values `psnk_set_voltage` stores and the handler after the discharge), the event dispatch
(flags of the cable discovery), start-up (its result is `Init`), the brown-out (its sink path).

What is left, in this order:

1. `System`: `BatteryCharger`, `FaultRecovery` and `BcFsm` composed over one port, to replace the environment assumptions of each by
   the others (the `connected` flag, `Dpm_Start`, the sink path), with the theorem that the composition implements the environment each
   component assumes.
2. `ChargePass` as a refinement of `BatteryCharger`: where it fails, a callback inside a pass does what no callback between passes
   does; `StallHasCause` is that list today.
3. A renegotiated contract in `ChargePass`, with the bound on the draw that remains true.
