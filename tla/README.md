# A TLA+ model of fand

fand is a daemon for Apple Silicon Macs that takes fans out of automatic mode by
writing keys of the SMC (`F<i>md`, the mode of fan i, and `Ftst`, the diagnostic
unlock) and has to put them back whatever happens to it: an error half-way, a
panic, a signal, a stalled loop. This directory models the parts of the code that
keep that promise, checks them with TLC and proves the main results with TLAPS.

## 1. Inventory

Paths are relative to the crate's `src/`.

| Component | State | Operations | Interacts with |
|---|---|---|---|
| `smc/write_session.rs` WriteSession | main connection, `unlock`, `tear_down_once`, ring | acquire, commit_set_fan, begin/release_diagnostic_unlock, run_selftest, heartbeat, teardown (Drop) | owns the lock guard, connection 1 and the unlock; shares `tear_down_once` with the signal and the watchdog thread |
| `smc/signal.rs` signal thread | connection 2, `reload_requested` | mask and unmask, register, HUP, TERM/INT | takes `tear_down_once`, releases, ends the process |
| `smc/panic_hook.rs` | connection 3, list of fans, re-entry flag | the hook | releases without `tear_down_once`; the process aborts after it (`panic = "abort"`) |
| `smc/unlock.rs` DiagnosticUnlockSession | heartbeat time, `watchdog_stop` | start/stop_watchdog, heartbeat, watchdog_loop | raises SIGTERM to its own process |
| `smc/single_instance.rs` FlockGuard | the lock file | try_acquire, Drop | one session per machine |
| `smc/ffi.rs` SmcConnection, `smc/cache.rs` KeyInfoCache | port, open flag, 256 cache slots | open, close, read, write, verified writes, forced writes | the kernel's AppleSMC driver |
| `smc/round_trip.rs` RoundTripRing | 256 records, next, count | push, recent, drain | filled by verified writes |
| `smc/enumerate.rs` | none | enumerate_fans | the SMC |
| `control/*` pipeline | last good temperature and its age, smoothed temperature, hysteresis, slew, panic latch, adapter | tick, reinit_bumpless, decide | called by the tick loop |
| `cli/run.rs` tick loop | configuration, control states | tick of each fan, heartbeat, wake, sleep | pipeline, session |
| `cli/set.rs`, `cli/selftest.rs` | none | commit and hold, dry run, selftest | session |
| `config/*` | none | load, validate, reload_config (no caller in the loop) | the run command, `curve` |
| `cli/force.rs`, `probe.rs`, `keys.rs` | a connection of their own; the floor or temperature they will restore | raw writes for research | hold no lock and no session; alter the same keys as a session |
| `log.rs`, `correlation.rs` | level, rate-limit buckets | emit; session identifiers | the rate limiter has no caller |
| `launchd`, `ipc`, `iohid`, `smc/sleep.rs` | none | stubs, or not used by any command | nothing |

What is hard: four actors in one process (main, signal, watchdog, panic hook) write
the same SMC keys over three connections, with one atomic flag between them; each
write may fail, or succeed and be reported as failed; the process may be killed at
any point and its successor finds what it left; a thread's exit ends all of them.
Several processes may run at once, of which only the sessions exclude each other.
`hazards` in PROJECT.json lists each of these places at its line.

What makes each component correct:

- session: each orderly end leaves no fan forced and `Ftst` locked; the release
  checklist runs once; nothing is forced after it; a held override is watched.
- signal thread: SIGTERM ends the process, whatever the main thread does.
- watchdog: a stalled holder is torn down in bounded time, a healthy one never.
- control pipeline: a hot machine is never left with a fan at its minimum; panic is
  latched and held; no oscillation at the adapter's thresholds.
- key-info cache: the information used for a key is that key's.
- ring: `recent(n)` returns the last n records in order, across the wrap.
- selftest: the exit code and the records tell what was verified, and the fans are left
  automatic however the test ends.
- instance lock: one session at a time, and the file names the one that holds it.
- research commands: what a command alters it puts back, whoever else is at work.
- configuration: what is accepted is what the control pipeline can work with.

## 2. Plan

Done, in order of weight:

1. `WriteSession` (all threads of one session), `FanOverride` (what it promises),
   `WriteSessionProofs`.
2. `FanControl` with `MCFanControl`: the pipeline of one fan, from sensors to the
   write; `FanControlProofs`.
3. `Watchdog`: heartbeats, sleeps and polls in time; `WatchdogProofs`.
4. `KeyInfo` with `MCKeyInfo`: the 256 untagged slots of a connection; `KeyInfoProofs`.

5. `RoundTripRing`, `RecordLog` (what the ring promises), `RoundTripRingProofs`.
6. `Selftest` with `MCSelftest`, on top of the ring; `SelftestProofs`.
7. `Machine`, and on it one module per kind of process: `InstanceLock`, `ForceRpm`,
   `ProbePaths`, `KeysCommand`; `Research` composes them; `ResearchProofs`.
8. `Config`: the checks that lead to FanControl's constants; `ConfigProofs`.

Left: panics of the signal and the watchdog thread; a wall clock that is set; the tick
loop over a SIGHUP reload, once the code has one.

The modules meet at these places. FanControl leaves open how a forced write ends, and
WriteSession leaves open which fan a tick writes. Watchdog sends the SIGTERM whose
effect WriteSession models, and WriteSession lets the deadline pass at any poll.
KeyInfo explains some of the refusals that WriteSession's writes may meet. Selftest
EXTENDS RoundTripRing and opens up one command of WriteSession: there it is a few writes
among threads, here each call, retry, sample and record. Research takes the release
checklist of a session as a whole and sets it among other processes. Config's accepted
curves are FanControl's assumption.

## 3. The modules

### WriteSession

One process from `acquire` to its end. The comment at each variable names its
counterpart; `md` and `ftst` are the SMC, `tear_down_once`, `watchdog_stop`,
`reload_requested` and `unlock` keep the names of the source. `pc`, `sig` and `wd`
are the points of control of the three threads:

| points of `pc` | code |
|---|---|
| lock, open, spawn | `WriteSession::acquire` |
| ready, tick, hold | the commands: `set`, `selftest`, `run`; tick loop; hold loop |
| ftst, ftst-read | `begin_diagnostic_unlock`: write and readback of Ftst=1 |
| target, write, read | `commit_set_fan`: pre-flight of the target, verified mode write and readback; also the writes of `run_selftest` |
| teardown, release, stop, relock, force-ftst, close | `WriteSession::teardown` |
| drop, exit | Drop of the lock guard, end of main |
| hook, abort | `panic_hook_body` |

An action is one SMC call, one atomic operation on a shared flag, or the code between
two of these. `Next` groups the actions by actor (`MainStep`, `PanicStep`,
`SignalStep`, `WatchdogStep`, `Environment`).

Abstractions. A write has three outcomes: ok, refused, and lost (done, but reported
as an error, as after a timeout); the retries of `call_struct` end in one of them.
Ftst may be absent, on which the code goes on without it. Time is left out: the watchdog may
find its deadline passed at any poll. Fans are taken in the order 0..N-1; they differ
in nothing else, so another order of the configuration is a renaming. SIGINT is
SIGTERM. Which fans a tick writes is free, since the decision is the pipeline's.
`thermalmonitord` may take a forced fan back at any time, and a process starts with
the fans and Ftst in any state.
The history variables `winner`, `quiet`, `failed`, `ftstFailed` are read by properties only.
The panic hook runs for panics of the main thread.

### FanOverride

The promise without the threads: `mode`, `refused`, `phase`. Fans are forced only in
phase open, never in phase closing, and closing ends in closed only if each fan is
automatic or its release was refused; otherwise the session is lost. `OverridePhase`
in WriteSession is the refinement mapping: the session is closed after a teardown that
main won, after the panic hook, and after a signal teardown that found main in its
hold loop. Every other end is lost, since the code keeps no more than that: a kill, a
signal during a commit, the exit of the thread that lost `tear_down_once` (signal_race, on
all three).

### FanControl

One fan of `fand run`. `raw`, `age`, `smoothed`, `hold`, `last`, `slewed`, `latched`,
`above` are the fields of `FanControlState`, `HysteresisState` and `PanicState`; `since`
is the time since `entered_at`, `decision` the adapter's `current`, `target` what the
tick returned, `md` the fan's mode key. `emitted` is
history: a value has passed the hysteresis since the last start or wake. Until then
`hold` is the speed the fan had at that moment, and `SetpointFollowsCurve` and
`HeatIsAnswered` promise nothing.

| action | code |
|---|---|
| Init | `execute_commit` up to the loop: seeding from the actual speed and temperature |
| Regulate | a full tick: fuse, EMA, curve, hysteresis, slew, panic, clamp, decide, write |
| GiveUp | the tick that returns `max_rpm` early, 60 ticks after the last reading, with its decision and write |
| Sleep, Wake | the end of the loop's body, the second with `reinit_bumpless` |
| Reclaim | another writer takes the fan back |

Abstractions. Temperatures and speeds are integers. The moving average is rounded
down or up, at the model's choice, the mean and the interpolation down. The direction
of the hysteresis is left out: all its branches apply the same two margins. The adapter's
thresholds, 5% and 10% of the range, are compared in integers. `age`, `above` and
`since` stop counting one past the value that matters. A commit either stores the mode
or is refused; what else it may do is WriteSession's. The readings, the
time a tick takes and the time between two ticks are inputs.

### Watchdog

The main thread (`work`, `sleep`, `stalled`), the thread of `watchdog_loop`, and the age of
the last heartbeat. `loop` is the tick loop, which sleeps the rest of its interval, or
the hold loop, which sleeps half a second. Clocks are relative: `left` and `wait` count
down to the end of a sleep and up to `Late` beyond it, and `Advance` is a unit of time
in which no thread may oversleep. A heartbeat follows each round whatever became of its
writes. The wall clock is steady; setting it is not modelled.

### KeyInfo

One connection's cache and the calls that use it. `slots` is `KeyInfoCache.slots`,
`present` the keys that the SMC has at the moment, `done` the last call. `Lookup` is
`read_key_info` (cache first), `Ask` its question to the SMC. Only an answer of neither
size nor type is an EmptyResponse; a key of size 0 with a type is cached like any other.
Each call may fail on the way.

### RoundTripRing, RecordLog

`records`, `next`, `count` are the fields of the ring, `Recent(n)` is `recent`. RecordLog
has a sequence of the newest `Capacity` records and a count; the refinement mapping reads
the ring out in full, as `drain_to` does. The count is taken not to reach 2^64.

### Selftest

One `fand selftest` from its arguments to its exit, over any number of fans. `pc` is
start, write, read back, hold, release, exited; `fan`, `iter`, `half` are the loop's
counters; `retried` says for which transient errors this call of `call_struct` was
already repeated; `samples` counts, for each fan and half, how often each speed was
read; `reports` and `exitCode` are the result.

| action | code |
|---|---|
| RejectArguments, AcquireFails, Acquire | `run_with_code` up to the session, `--fan` out of range, no fans |
| Retry, WriteDone, WriteFails | `write_u8_verified`: the write, with `call_struct`'s loop |
| ReadBackMatches, ReadBackDiffers, ReadBackFails | its readback and the record that goes into the ring |
| TakeSample, EndMinHold, EndIteration, EndFan | `hold_and_sample`, the loops of `run_selftest`, `classify_fan`, `classify` |
| ReleaseFan, Leave | the teardown |
| TakeBack | thermalmonitord |

Abstractions. Speeds are a few numbers; a median is taken from the counts: the i-th
smallest sample is the least speed with more than i samples up to it (`Upto`, `Rank`), and
the result is doubled to stay whole. MCSelftest compares it with sorted samples. Times, and the threads of the
session (WriteSession has them), are left out.

### Machine, InstanceLock, ForceRpm, ProbePaths, KeysCommand, Research

`smc` holds four keys of fan 0's machine: mode, Ftst, floor, a sensor. A value is the
machine's own or the one a tool wrote, and a float may have its bytes reversed: that is
all the properties tell apart. `at[p]` is the command, step and path of process p,
`mine[p]` what it read at its start to restore later, `holder` and `pidFile` the lock.
`lost` is history: the altered keys that nobody will restore for a reason that is known:
the process was killed, its last write was answered with an error, `probe` left its path
early after a raise that was answered with an error (`cli/probe.rs:346`), the value to restore
was not the machine's (`cli/force.rs:101`), or the user asked for it
(`keys --write`).

Every write may be answered with an error, done or not. InstanceLock has the sessions:
any writes of mode and Ftst while the lock is held, and then the release. F0Tg and F0Dc are left
out, because nothing restores them and the firmware keeps them.

### Config

Operators only. `FileChecks` are the steps of `load_config` in their order, of which the
first that fails is reported; `Deserialize` fills in the defaults of `schema.rs`;
`Validate` is the set of the errors, which the code collects. A file is a record of what
the checks ask of it. The tables of a power source (`ac`, `battery`), which nothing
reads, are opaque.

## 4. The runs

| run | instance | shows |
|---|---|---|
| write_session | 2 fans, all five commands, SIGTERM; about 380,000 states | types; `ChecklistExclusive`; the three release promises; `InterruptLeavesOneFan`; `HeldFanIsWatched`; `NoForcingAfterTeardown`; `LeavingAdvances`; refinement of FanOverride |
| write_session_live | 1 fan, all commands, SIGTERM and SIGHUP; about 270,000 states | `TermEndsProcess`, `TeardownEnds` |
| signal_race | 1 fan, run | `SignalExitReleases` fails: `docs/ARCHITECTURE.md:89`. It covers the three ways a SIGTERM ends the process; the trace is that of a commit that writes behind the signal thread. With `Commands = {"selftest"}` it is `_exit(1)` in the middle of main's checklist |
| fan_control | two sensors averaged, 6 temperatures, 2 speeds at (re)start, sensors given up after the second lost tick, panic hold of 2 s; about 30,000 states | types; `SetpointFollowsCurve`; `PanicOverridesCurve`; `HeatIsAnswered`; `SetpointMovesWithHeat`; `RampDownLimited`; `DecisionSettles` |
| pinned_fan | one sensor | `ReleasedOnAuto` fails: `README.md:30` and the comment at `cli/run.rs:415-416` |
| watchdog | unit 1/8 s: interval and hold 0.5 s, work up to 1 s, deadline 4 s, poll 0.25 s, delays up to 1/8 s; about 13,000 states | types; `FiresOnlyOnStall`; `StallCaughtInTime` |
| slow_poll | the same with an interval of 5 s | `FiresOnlyOnStall` fails: `README.md:138`, `smc/unlock.rs:5-6` |
| key_info | the modes of two fans and a sensor that shares their slot, Ftst, two more sensors in one slot, a key of 64 bytes, one of size 0 with a type and one without; about 6,900 states | types; `InfoIsOwnOrRivals`; `NoFalseMismatch` |
| research | 2 processes (interchangeable), all commands; about 2,400,000 states | types; `ForcedHasOwner`; `RaisedHasOwner`; `PidNamesHolder` |
| floor_bytes | 1 process | `FloorRestored` fails: `cli/force.rs:377` |
| lock_bypass | 2 processes | `WritesOnlyUnderLock` fails: `smc/single_instance.rs:33` |
| selftest | up to 2 fans, 3 iterations, 2 samples per hold, a speed and 0, a ring of 3; about 270,000 states | types; `RecordsTellTheLoop`; `RecentIsTail`; `ExitCodeTells`; `PassNeedsReadings`; `FansLeftAuto`; `LogSpec`; `StepsCountDown`; `Finishes` |

Bounds. Two fans are enough to separate "the first", "the last" and "another one" in
each loop, and to interleave two loops over them; the proofs cover every number.
Nothing else is bounded there: counters do not occur. Deadlock is not checked in these
runs, because a process ends, nor in those of Watchdog, where the story ends with the
SIGTERM. In fan_control the curve has three breakpoints, so that both ends, both
segments and a breakpoint are met; the two adapter thresholds lie between the speeds of
neighbouring temperatures; the panic threshold lies inside the curve; limits of 1 and 2
stand for 60 ticks and 10 seconds, of which only "reached" matters; a tick of 2000 ms is
beyond the ramp's cap. The noise of `DecisionSettles` is narrower than the margins by the
rounding of the grid. In watchdog the work of a round is longer than the interval, so
that the sleep's lower bound is used. Liveness is checked with one fan, where SIGHUP can also starve others.
In selftest the ring is shorter than the writes of one fan, so that it wraps in
the middle of one and over two; of a fan's six samples in a mode a median can hide
half. The median itself is compared with sorted samples over three speeds. In research two processes are what each step of
the lock and each pair of commands needs; a third was not needed for any of the losses,
and the proofs cover every number. fan_control also evaluates the assumptions of
MCFanControl about Config: every curve of up to three breakpoints over six floats, every
combination of things wrong with a file.

Fairness. `FairSpec` asks weak fairness of the main thread's steps together (its
thread is scheduled; it may still tick for ever), of the panic hook's once it runs,
of the signal thread's start, of its release steps, and of `HandleTerm`: signal-hook
reports every pending signal on each wake, so that SIGHUPs cannot hide a SIGTERM. No
fairness is asked of the watchdog's clock, of the environment, or of `MainPanics`.
`LiveSpec` of Selftest
asks that the program's steps together be taken, its calls return.
`DecisionSettles` needs no fairness: a fan whose loop stops decides nothing more.

## 5. The proofs

`WriteSessionProofs` proves, for every `NumFans`, `Commands` and `Signals` that
satisfy the assumptions of WriteSession, all properties of the run
write_session. Assumptions: `NumFans` is a natural number, and the commands and signals
are among those the code knows. The argument:

- `TypeCorrect`: one lemma for each actor.
- `Ownership` says who may be where: nobody is in a checklist without having won
  `tear_down_once`, the winner is recorded as long as the flag is set, and a quiet
  signal teardown finds main in its hold loop until it panics. `ChecklistExclusive`
  is not inductive without it.
- `Progress` says what each checklist has done when it stands at fan n: all fans below
  n are released (`ReleasedBelow`). It needs Ownership, because
  only outside a commit does the main thread leave another actor's work alone.
  `CleanExitReleases`, `PanicReleases` and `HoldInterruptReleases` are its last points.
- `Watched` ties `unlock` to the watchdog thread, and the watchdog's end to a flag.
- `Interrupt` says what a signal that comes upon `set`, `selftest` or a dry run can leave
  forced: behind the signal thread's checklist only the fan the main thread has in hand
  (`Held`), and each fan before and after it is as that checklist left it. It is needed at
  every point of the command and not only at the end, because the main thread may write
  between any two releases. `InterruptLeavesOne` is its last point. `run` is left out: its
  ticks may write each fan in turn (signal_race).
- `LeavingIsBounded` is the part of `TeardownEnds` that needs no fairness: on the way out
  every step of the main thread lowers `StepsToEnd`, and none goes back. What fairness adds
  is only that the steps are taken.
- `SessionIsOverride` maps each step to a step of FanOverride or a stutter;
  `NothingForcedAfterTeardown` follows from the abstract specification's shape.

`FanControlProofs`, for every configuration that the assumptions of FanControl admit
(readings of 0 to 150 degrees, a curve of at least two increasing temperatures, margins and
rates not negative, a fan whose minimum is below its maximum; `smoothing_alpha` is any
fraction):

- `TypeCorrect` rests on two facts that loops of the code rely on: below the last
  breakpoint there is a first one not below the temperature (`AboveType`), and some
  answering sensor is the hottest (`HottestType`). Both come from the well-foundedness
  of the natural numbers.
- `SetpointIsCurve` and `PanicIsFullSpeed` are inductive with the types.
- `RampIsLimited` needs `RampInv`: unless overridden, the target is the clamped ramp. Its
  hypothesis, a safe floor not above the fan's maximum, is not checked by the code:
  with a safe floor of 48 in fan_control, above the maximum of 40, the property fails.
- `HeatIsAnsweredAlways` and `SetpointMovesRight` rest on the curve as a function:
  `EvaluateRises`, that a warmer temperature never asks for less, which needs that the
  flooring of an interpolation keeps the order within a segment (`DivMonotone`) and that
  segments meet (`LaterIsFaster`); and on `SmoothMovesTowards`, that the average leaves its
  old value for the side of the reading only. `HeatInv` adds that hysteresis, override
  and clamp never go below the curve's value less the up margin. Both have a hypothesis
  that nothing in the code checks: `RisingCurve`, speeds that do not fall along the
  curve (validate looks at the temperatures alone), and the second `SmoothsForward`, a
  `smoothing_alpha` that is not negative.

`WatchdogProofs`, for all periods and delays. `StallIsCaught` from `PollInv`: since the
last poll the beat has aged by what the thread has slept. `HealthyIsLeftAlone` from
`HealthyInv`, a bound on the beat's age for each point of the round, under `RoundFits`;
slow_poll shows a valid configuration that does not satisfy it.

`KeyInfoProofs`, for any keys and cache size, and with no assumption that keys do not
clash. `OwnOrRivalsInfo` from `SlotsInv`: a full slot holds what some key that looks there
would be told, so that a call gets its own key's info or a rival's; which of the two depends
on who was asked first. `NothingRefusedFalsely` follows from the same invariant for a key
whose rivals are like it (`Alone`). A sensor that ends in "d" or "t" is not like the modes or
Ftst (`SensorMeetsMode` in MCKeyInfo).

`RoundTripRingProofs`, for every capacity and set of records: `RingKeepsRecent` from
`RingInv`, by which the next slot is the count as long as the ring is not full, and from the
same invariant `RecentIsTheTail`: the start that `recent(n)` finds for itself, for any n.

`SelftestProofs`, for any number of fans, iterations, samples and speeds, and any ring.
`SelftestKeepsLog` maps every step to a push or a stutter. `Loop` ties the count of the
ring to the loop's counters at each step; on it rest `Told`, which says of each record still
in the ring which write it is of (`SelftestRecordsTell`), and `Exits`
(`SelftestExitCodeTells`). `Released` says what the release loop has done
(`SelftestLeavesFansAuto`). `SelftestPassNeedsReadings` needs `Counted`, that what a fan's
samples add up to is what the loop has taken, and three lemmas about the median as a
rank: were half of a mode's samples 0, the median would be 0 or the mean with a 0 in it.
`SelftestStepsCountDown` is `Finishes` without its fairness: `StepsLeft` falls with each
step of the program.

`ResearchProofs`, for any number of processes. The two ownership theorems need to know at
each step of each command which keys it owes (`Owes`), by which every alteration is
followed to the write that undoes it; `PidIsTheHolders` needs that whoever is behind
`TryLock` is the holder.

`ConfigProofs`, for every configuration. `AcceptedCurvesRise`: validate compares
neighbours, FanControl assumes any two breakpoints in order; a least counterexample
closes the gap. `AcceptedFansDiffer` is what lets FanControl speak of one fan alone.

Only model-checked: `DecisionSettles`, `TermEndsProcess`, `TeardownEnds` and `Finishes`
(liveness is out of the prover's reach; of the last two the bound is proved), that the
median by rank is the median of the sorted samples and what else MCSelftest, MCFanControl
and MCKeyInfo evaluate (inductions over data), and the violations.

## 6. Divergences without a run

Seen while modelling, and left in the models as the code has them:

- `fand set --dry-run` acquires a session, whose drop writes the release checklist;
  `docs/schemas/dry-run-v1.json:103` says that it performs no actual writes.
- `run_selftest` never calls `begin_diagnostic_unlock`: no Ftst, no watchdog, and its
  heartbeats do nothing. Exit code 4 is not reachable, nor is a FAIL by
  classification, because the first unverified write aborts the test with code 1.
  `--fan` is checked and then ignored. A speed that cannot be read counts as 0, so that a
  fan may pass for which half of the reads failed.
- `call_struct` retries once for each kind of transient error, that is, up to twice in a
  row.
- `hysteresis_up`, `smoothing_alpha` and `panic_temp_c` are not validated, and a
  `hysteresis_down` of NaN passes. After a curve that is too short the rest of a fan is
  not reported, although `config/validate.rs:9-11` says that everything is.
- `actual_dt` leaves out the sleep, so that in punctual ticks the ramp takes off far less
  than `ramp_down_rpm_per_s`; and for the same reason a tick is taken for a wake when its
  own work, not the sleep before it, was long.
- A slot of the key-info cache does not record its key. `smc/ffi.rs:1007` promises the info
  "for a given fourcc", and a release write to `F0md` may be refused with SizeMismatch when a
  sensor that ends in "d" was read first on the same connection. The keys of key_info contain
  such a sensor, and the properties say what is left of the promise.
- A main thread that loses `tear_down_once` takes the checklist for done
  (`smc/write_session.rs:587`, "already ran") when it may have just begun, and ends
  the process under it. A first SIGTERM during main's own teardown is taken for a "second
  signal" (`smc/signal.rs:207`). Both are in `SignalExitReleases`, but not in the trace of signal_race.
- When the signal handlers cannot be registered, `smc/signal.rs:155-156` says that the program
  exits; only the thread returns, and the session goes on without anybody to take a SIGTERM.
  `TermEndsProcess` speaks of a registered handler only.
- Two tools at once: the second `force-rpm` or `probe` reads the floor the first one has raised,
  and restores that. `probe` leaves its path after a raise that was answered with an error and
  may be done. Both are in `lost`, and so outside `RaisedHasOwner`.
- SIGHUP sets a flag that nothing reads; `reload_config` has no caller.

## 7. Not modelled

The values of targets beyond "accepted or not", the text of logs and reports, the parsing of
numbers, the listings of `keys` and `curve` that only read, fan enumeration beyond its
outcome, panics of the signal and watchdog threads, the setting of the wall clock, a
negative `hysteresis_up` in FanControl, `fand run --dry-run` (it writes nothing and has
none of the pipeline's state), the rate limiter of `log.rs` (no code calls it), the
detection of other tools, and the stubs.
