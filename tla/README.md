# TLA+ models of the Shadow guest-process core (`src/main/host/process.c`)

This directory holds the model-checking project for the guest-process lifecycle core of the
simulator. A `Process` launches a native guest program on the simulator's virtual timeline.
It also stops the program, suspends it on blocking syscalls and resumes it. Lines 1–633 of
`process.c` implement this core. Lines 635–935 of the same file are an unrelated Python
build script.

## 1. Inventory

### Components

| Component | State it keeps | Operations (code) | Modelled in |
|---|---|---|---|
| **Process** | `referenceCount`, `mainThread`, `threadIDCounter`, `startTime`/`stopTime`, `interposeMethod`, `plugin.isExecuting`, `didLogReturnCode`, `stdoutFD`/`stderrFD`, `totalRunTime` | `process_new` 358, `process_schedule` 316, `_process_runStartTask`/`_process_runStopTask` 308–314, `_process_start` 176, `process_continue` 245, `process_stop` 279, `_process_check` 148, `_process_logReturnCode` 128, `process_isRunning` 340, `process_ref`/`process_unref`/`_process_free` 405–465 | `Process` (all), `ProcessLifecycle` (abstract), `Host` (several processes) |
| **Waiter** | `thread`, `timer`, `timerListener`, `descriptor`, `descriptorListener`, `referenceCount` | `process_listenForStatus` 561, `_process_notifyStatusChanged` 524, `_process_unrefWaiter` 477 | `Process` |
| **CPU accounting** | host CPU delay, tracker time, `totalRunTime` | `_process_handleTimerResult` 120 | `Process` (bursts counted), `Host` (host CPU delay per timed section; real-valued time abstracted) |
| **Thread** (ptrace / preload; not in `src/`) | running / exited / terminated, exit code, reference count | run, resume, terminate, isRunning, getReturnCode, ref/unref | `Process`, modelled from spec 4.2 |
| **Descriptor listener layer** (not in `src/`) | the descriptor's attached listeners, listener reference count and monitor mask | new, setMonitorStatus, addListener, removeListener, unref | `Process`, modelled from spec 6 |
| **Scheduler and host** (not in `src/`) | pending tasks by due time, current virtual time, the host's reference | scheduleTask, run the earliest task, simulation end | `Process`, `Host`, modelled from spec 5 |
| **Worker active-process slot** (several processes per host) | the process whose guest code runs | `worker_setActiveProcess` at 224, 235, 256, 272, 284, 300 | `Host` |
| Getters, `process_wantsNotify` (a stub that returns FALSE) | none | none | not modelled (no state) |
| Build script (lines 635–935) | none | none | not modelled (pure I/O) |

### Interactions

- The scheduler runs the start and stop tasks. Each task holds one process reference and
  drops it when the task is freed after it runs.
- `_process_start` creates the main Thread and runs the guest.
- When the guest blocks, the syscall layer calls `process_listenForStatus` while still
  inside `thread_run`/`thread_resume`. That call creates a Waiter and attaches one listener
  to the timer, the descriptor, or each of them.
- Each listener holds a reference to the process and one to the waiter. The waiter holds a
  reference to the thread.
- When a timer expires or a descriptor reaches its status, the descriptor calls
  `_process_notifyStatusChanged`. That function:
  1. detaches both listeners;
  2. resumes the guest through `process_continue`, which may arm a new waiter;
  3. unrefs both listeners, and the last unref frees the waiter.
- Every handler ends with `_process_check`. It collects an exited thread, logs its return
  code once and releases it.

### What is hard

Everything runs on one event loop, so there is no data race. The difficulty lies in
ordering and ownership:

- The timer and the descriptor of one waiter can race.
- The resumed guest re-enters `process_listenForStatus` while the previous waiter is
  still being dismantled.
- A waiter can fire after `process_stop`.
- Start and stop tasks can be due in the same tick.
- Four reference counts (process, waiter, listener, thread) are released through free
  callbacks. Counting one holder wrong is a use-after-free or a leak, and a unit test
  rarely sees either.

### Properties that make each component correct

- **Process:** its reference count equals its holders and it is freed exactly when none
  remains. It starts once and never runs after stop. An exit is logged once. It refines
  the spec's lifecycle.
- **Waiter:** it fires at most once, whatever the race. It is never used after it is freed.
  Its count equals its live listeners.
- **Thread:** its count equals `mainThread` plus the live waiters that hold it.
- **Timer and descriptor:** the references waiters take equal the live waiters armed with
  them. Once the host lets go of a process, no listener still holds it.
- **isExecuting:** it is TRUE only while guest code runs.
- **CPU accounting:** the host's CPU delay is the time its guests' timed sections took,
  each counted once (spec 4.4, 8).
- **Active-process slot:** it names the process whose guest makes each intercepted syscall.
- **Progress:** a running process with a stop time is eventually stopped, and a running
  guest blocked on a waiter with a timeout eventually runs again.

## 2. Modules and how they correspond to the code

### `Process.tla`

This module models one process together with its threads, waiters, listeners and tasks.

**Variables**

- `proc`: the `Process` struct fields, plus the worker state the code writes:
  - the active-process slot and the plugin-error counter;
  - `hostRef`, the host's initial reference;
  - `scheduled`, set once the host has called `process_schedule`.
- `threads`, `waiters`, `listener`: the objects and their reference counts.
- `tasks`: the scheduler's pending tasks for this process.
- `descRef`: the references this process's waiters hold on each timer and descriptor.
- `now`: the current virtual time.
- `shutdown`: the simulation has ended.
- `fires`, `stopFired`, `uaf`: history variables that only properties read.

**How handlers are written.** Each C function is a helper that maps a "world" record to its
successor, in the code's call order. For example, `Start` composes the steps of
`_process_start`: open the files, `ThreadNew`, raise `isExecuting`, `RunBurst`,
`HandleTimerResult`, clear the active slot, `Check`. A handler is one action, because it
runs to completion on the event loop.

**The guest's burst is an input** (`Outcomes`): the guest either exits with a code, or
blocks and arms a waiter with a timer, a descriptor, both, or neither. The "neither" case
is the no-op early return at line 565.

**Actions**

- `ScheduleProcess`: the host calls `process_schedule` once.
- `RunTask`: the event loop runs the earliest task and then frees it.
- `FireListener(w, d)`: an attached, monitoring listener is notified.
- `Shutdown`: the simulation ends. Pending tasks are freed and the host unrefs the process.

### `ProcessLifecycle.tla`

This is the abstract specification of spec 4.1. `life` is one of NEW, SCHEDULED, BLOCKED,
STOPPED or FREED. `armed` is the set of waiters that can wake the process, and `used` is the
set of waiters ever armed.

RUNNING never appears between handlers, so a start or a wake-up goes straight to BLOCKED
or STOPPED. The abstract spec promises four things:

- at most one fresh waiter is armed, and only at a yield;
- a wake-up of a stopped process resumes nothing;
- a process is freed only when nothing is armed;
- a process that never started may be freed when the simulation ends.

`Process` maps its state onto this spec with `LifeOf`, `ArmedOf` and `UsedOf`, and checks
`RefinesLifecycle == Lifecycle!Spec`.

### `Host.tla`

This module composes several processes of one host on one worker. Its variable `worlds`
maps each process to a world record of `Process`. `Proc(p) == INSTANCE Process WITH ...`
substitutes process `p`'s part of the host state for the variables of `Process`. The
handlers are the helpers of `Process` applied to that world.

The processes share:

- the clock `now` and the end of the simulation;
- the task queue: `HostRunTask(p)` runs `p`'s task only if no other process has an
  earlier one;
- descriptors: a syscall of `p`'s guest may make descriptor `d` ready;
- the worker's active-process slot.

**Nested wake-up** (`Handle`). When a syscall of `p`'s guest makes `d` ready, the
descriptor synchronously calls an attached listener of a waiter of another process `q`
(spec 5: listener callbacks are delivered synchronously). So `q`'s
`_process_notifyStatusChanged` runs inside `p`'s burst. If `q` is running, its
`process_continue` sets the slot to `q` and then to `NULL` (lines 256, 272). `p`'s guest
then goes on, and its blocking syscall is intercepted with the slot no longer naming `p`.
The history variable `misrouted` records this. Every handler ends with the slot `NULL`, so
the slot needs no variable between handlers.

**CPU delay** (`AccountCpu`, `cpuDelay`). After each timed section, `_process_handleTimerResult`
adds what the process's `cpuDelayTimer` measured to the host's CPU delay (line 123). In the
model a section's own code takes one unit of time. A nested section of `q` runs while `p`'s
timer is still running, so `p`'s measurement includes `q`'s unit. The property
`CpuDelayIsTimeSpent` compares `cpuDelay` with the sum of the processes' `runBursts`, which
counts each section once.

Only one level of nesting is modelled: the nested guest's own status changes are not.
Only `_process_start` and `process_continue` run guest code, so only they can nest;
`process_stop` cannot.

### `MCProcess.tla`

The model-checking module sets the constants:

- one timer `t1` and one descriptor `d1`, so the timer-versus-descriptor race happens;
- exit codes `{0, 7}`;
- start, stop and boot times in `0..4`;
- one thread id (the code has only a `mainThread`);
- up to 3 waiters per run.

With these times, start and stop may be due now, one tick ahead or several ticks ahead,
equal to each other (so no start is posted), in the past at boot (clamped to one tick by
`process_schedule`), or absent (`stopTime = 0`). Times up to 4 leave a gap of more than
one tick between boot, start and stop, so the clamp and the plain delay are both exercised.
Three waiters allow a block, a wake-up, a second block and a wake-up after stop. A passing
run explores about 66,000 states, in under 30 s.

### `MCHost.tla`

- two processes `p1`, `p2`, with symmetry, since they are interchangeable;
- the same timer and descriptor, shared by both processes;
- times `0..1`, 2 waiters per process, one interposition method.

These bounds let one process block on `d1` while the other starts or resumes and makes
`d1` ready. Each violation run finds its trace in a few seconds.

`Host` has only violation runs. Each process's world moves only by the transitions of
`Process`, and a nested wake-up is the same `Notify` under the same guard as a direct
fire. So the reference counts, single fire and stop liveness of one process, checked
in `MCProcess`, carry over unchanged to the composition. What the composition adds is
state that processes share: the active-process slot and the host's CPU delay. Both runs
are about that shared state.

`CHECK_DEADLOCK FALSE`: after the simulation ends, the event loop really does run nothing
more.

## 3. Runs

| Run | cfg | Expect | What it shows |
|---|---|---|---|
| `refcounts` | `MCProcessRefs.cfg` | pass | `ProcessRefsSound`, `WaiterRefsSound`, `ThreadRefsSound`, `DescRefsSound`: each count (of the process, the waiters, the thread, and the references waiters hold on timers and descriptors) equals the number of its holders across tasks, listeners, waiters and `mainThread`, so nothing is freed while referenced and nothing leaks |
| `wakeup_lifecycle` | `MCProcessWakeup.cfg` | pass | `SingleFire`, `StopIsFinal`, `ExitLoggedOnce`, and the refinement `RefinesLifecycle` |
| `liveness` | `MCProcessLive.cfg` | pass | `StopEventuallyHalts`: a running process with a stop time is eventually not running. `BlockedGuestResumes`: a running guest blocked on a live waiter armed with a timeout runs again (one more timed burst), unless it stops running or the simulation ends first. Both hold under the fairness below. The fairness only says an armed timer fires. That the guest then resumes depends on the code: the listener must be attached with its monitor on (lines 603–608), and the callback must resume the waiter's thread (line 550) |
| `cpu_double_count` | `MCHostCpu.cfg` | violation | `CpuDelayIsTimeSpent`: a `process_continue` nested inside another process's guest burst is timed by its own timer, while the outer process's timer is still running. Its time is added to the host's CPU delay twice (line 123), contrary to spec 4.4 and 8 |
| `listener_outlives_host` | `MCProcessCycle.cfg` | violation | `NoListenerOutlivesHost`: a process that is blocked when the host releases it is still held by its attached listeners. `process_stop` and `_process_free` never detach an armed waiter (hazard at line 584) |
| `active_slot_nesting` | `MCHostSlot.cfg` | violation | `SlotNamesRunningGuest`: the nested `process_continue` of the woken process clears the slot (line 272) while the outer guest still runs, so its blocking syscall is intercepted with the slot `NULL` |
| `start_stop_same_tick` | `MCProcessSameTick.cfg` | violation | `StartStrictlyBeforeStop`: with `startTime = 1`, `stopTime = 2` and boot at time 1, both tasks are due at time 2, contrary to spec 8. The start still runs first, because ties keep insertion order, so `StopIsFinal` holds |
| `isexecuting_latch` | `MCProcessLatch.cfg` | violation | `_process_start` leaves `isExecuting` TRUE after `thread_run` returns (line 229), contrary to spec 3 |
| `waiter_use_after_free` | `MCProcessWaiterUAF.cfg` | violation | `_process_notifyStatusChanged` reads `waiter->descriptorListener` (line 556) after the unref at line 554 has freed a timer-only waiter |

Every property of a passing run has a mutant in `PROJECT.json`. Each mutant is a plausible
slip in the mapped code, and TLC finds it:

- a missing `process_ref`;
- a missing waiter count;
- a `mainThread` that is not cleared;
- a descriptor listener that is not detached;
- a delay of zero for a task due now;
- a missing trailing `_process_check`;
- a missing early return in `process_continue`;
- a listener unreferenced twice;
- a listener attached with its monitor disabled;
- a stop time already past at boot not being scheduled;
- a descriptor reference a freed waiter does not release.

## 4. Assumptions and what is not modelled

**Fairness** (`Process!Fairness`, used by `LiveSpec`):

- `WF_vars(RunTask)`: the worker's event loop runs every task that is due;
- weak fairness on the firing of each timer listener: an armed timer expires at its time.

Neither the simulation end (`Shutdown`) nor descriptor status changes get fairness,
because they depend on the rest of the simulation. The liveness properties therefore
allow "unless the simulation ends first".

For timer firing, weak fairness is written
out as `<>[]G => []<><<A>>_vars`, where `G` is the action's guard. This is equivalent to
`WF`, because the guest can always exit, so an action is enabled exactly when its guard
holds. TLC's evaluation of `ENABLED` on the callback's nested helpers is too slow to use
`WF_` directly.

**Descriptor listener layer.** A listener attached to a descriptor holds one reference,
which `removeListener` drops. This follows the usual add/remove contract of spec 6.
The references a waiter takes on its timer and descriptor (lines 581–586) and releases
when it is freed (lines 484–489) are modelled in `descRef`. The descriptor table's own
reference and descriptor close live outside `src/` and are not modelled. This is why
`listener_outlives_host` is a spec gap: neither `process.c` nor spec 6 says who detaches
the listeners of a process that is blocked when it is released.

**Thread.** A thread stays running until a burst exits or it is terminated. Signals from
outside are not modelled.

**CPU time.** Real-valued times are abstracted. Each timed section is counted in
`runBursts`, and in `Host` it costs one unit of wall time. Three things are not modelled,
because the model has no real-valued clock:

- the conversion `(SimulationTime)(elapsedTimeSec * SIMTIME_ONE_SECOND)`, which truncates
  a double;
- `totalRunTime`, a double;
- the tracker's copy of the delay, which is the same value as the CPU delay.

Spec 8's monotonicity of these counters holds by construction, since only additions of
non-negative values reach them. The property worth checking is the one that relates the
delay to the time spent: `CpuDelayIsTimeSpent`.

**Fatal errors.** Failures to open a file and unknown interposition methods abort the
simulator and are not modelled.

**Several processes.** `Host` models one level of nesting, and uses two processes in its
runs. Ties between tasks of different processes due at the same time run in either order.
The code runs them in insertion order, so the model over-approximates it here.

## 5. State of the project and what remains

Modelled:

- every state-changing operation of `process.c` lines 1–633: the lifecycle, waiters and
  their listeners, reference counts, scheduling, CPU accounting per timed section;
- the composition of several processes on one worker (`Host.tla`), with nested wake-ups;
- liveness under event-loop fairness, for one process;
- refinement of the abstract lifecycle.

Not modelled, and why:

- **Real-valued CPU time.** The truncating conversion of elapsed seconds and the double
  `totalRunTime` need a real-valued clock. TLC has none, and the model's unit-time sections
  already show the double count. This component therefore stays `partly`.
- **Thread interposers, the descriptor layer and the scheduler.** They are not under
  `src/`. They are modelled only as far as spec 4.2, 5 and 6 describe the contract that
  `process.c` uses, so they stay `partly`.
- **Deeper nesting.** A nested guest's own syscalls making further descriptors ready are
  not modelled. One level already shows both findings in `Host`, and each further level
  multiplies the state space.
- **The build script** (lines 635–935). It is pure I/O around cmake and make.
