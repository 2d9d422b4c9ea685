# Verification of phone-controll

TLA+ specifications of the core of
`packages/phone-controll/src/mcp_phone_controll` (the MCP server that lets
agents drive phones and Flutter apps), TLC instances of them, and TLAPS proofs.
Paths below are relative to that directory unless they start with `packages/`,
`docs/`, `examples/` or `CHANGELOG.md`.

## 1. The system

One MCP server process serves one agent over stdio. It is a single asyncio
loop: requests are tasks, and a task gives way to another one only at an
`await` that leaves the process (adb, WDA, `flutter run`, a VM service, git).
Several servers run on one machine, one per agent; they share the phones, the
lock files and the debug-session store under `~/.mcp_phone_controll`, and the
projects they work on.

```
agent --MCP--> ToolDispatcher -- coercion, builder -- use case -- repositories -- adb / WDA / flutter
   ^             |   ^        \                          |          |
   | hints,      |   | steps   middleware chain:         |          | device locks (files)
   | examples,   +---+ batch,  rate limiter, Patrol      |          | debug sessions (registry + store file)
   | paths             replay  guard, trace recorder     |          | UI cache, WDA sessions, paused helpers
   |                           -> skill library          v
   +---------------------------------- audits, release readiness, plans, patches, advice
```

### Inventory

| component | state | operations | what is hard | what makes it correct |
|---|---|---|---|---|
| Cross-process device locks (`data/repositories/filesystem_device_lock_repository.py`, `domain/usecases/devices.py`) | a file per device; the selected serial per session | acquire, force acquire, release, force release, lock lookup, list, exit hook | processes interleave between read, unlink, create and write; a process dies at any of them | one holder per device; the holder is the one on disk; stale locks go away |
| Rate limiter and breaker (`presentation/rate_limiter.py`) | call times, failures in a row and the time the breaker opens until, per tool | check, record | a check and its record are separated by the call; refusals are recorded too | a bound on executions per window; a cooldown after failures in a row |
| Dispatcher, middleware, batch (`presentation/tool_registry.py`, `middleware.py`, `mcp_server.py`) | the Patrol guard; the dispatches under way | dispatch, batch, the hooks around a call | calls inside calls; overlapping requests; a failing step; an exception past every hook | the trace is true; the guard keeps taps out; nesting is bounded |
| Trace and skill library (`in_memory_session_trace_repository.py`, `domain/usecases/skill_library.py`) | the ring of calls; skills and their use counts | record, promote, replay | a skill is cut out of what other tasks append to | a skill repeats what was done |
| Debug sessions (`flutter_debug_session_repository.py`, `infrastructure/debug_session_store.py`) | registry, default session, records loaded at start; a JSON file | start, attach, stop, list, exit hook | awaits inside an operation, several processes writing one file, restart | every daemon has an owner; live sessions survive a restart; dead records are pruned |
| Client of the flutter daemon (`infrastructure/flutter_machine_client.py`) | pending requests, ring of log entries, app id | start, send, restart, stop, read loop, `tail_log` | late, lost or reordered answers; a daemon that hangs; a ring that overflows | own answers, calls end, no process is left, tails find their line |
| UI tools, dump cache, routing (`domain/usecases/ui_*.py`, `caching_ui_repository.py`, `composite/`) | a dump per device with its time; the platforms known | tap, gestures, dump, find, wait, verify | a dump in flight while an action runs | no dump from before one's own action; an ok tells that it landed |
| iOS driver (`infrastructure/wda_factory.py`, `wda_ui_repository.py`) | a WDA session per device, a lock, the simctl answer | get, invalidate, retry once | two callers refresh one session; a retry of what took effect | a dead session heals unseen |
| Android driver (`uiautomator2_ui_repository.py`, `ui_automation_pause.py`) | the manufacturer, helper packages on the device | tap by adb and uiautomator2, pause, resume | failure between two ways or two packages | a bound on taps; a resume undoes a pause |
| Tool schemas, coercion, parameter builders (`tool_registry.py`, `argument_coercion.py`, `descriptors/`) | none: two tables of 140 tools | coerce, build, example of a refusal | the tables are written by hand in different files | what a client means is what the use case gets; a refusal's example is accepted |
| Static audits (`domain/usecases/audit_*.py`) | none: rules over a project | audit, autofix preview | following a hint may bring up another finding; a list cut before it is graded | hints converge; the worst finding decides |
| Release readiness and reports (`audit_release_readiness.py`, `ingest_*.py`) | none | audit the domains, weigh, decide | a domain that fails, a mean that hides | no unfit release ships |
| Test advice (`recommend_test_path.py`, `propose_test_scenarios.py`) | none: tables of tool calls | recommend, propose | calls nobody runs as a whole | a path runs, and closes what it opens |
| Plan executor (`yaml_plan_executor.py`, `domain/usecases/plan.py`) | outcomes of phases | validate, run with retries | recovery of a failed phase, early end | no run passes falsely; a phase runs after one it needs |
| patch_apply_safe (`domain/usecases/patch_safe.py`) | a git working tree, a pending file | check, apply, gate, roll back | git that fails or a gate that raises; edits of others | the answer tells the tree; nothing lands after its call |
| Virtual devices, recordings (`virtual_device_manager.py`, `adb_observation_repository.py`) | emulators, `screenrecord` processes | start, stop | check before an await | one claim per emulator, no lost recording |
| Artifacts and retention, image capping, envelopes, command line, HTTP adapter, process runner, build and test repositories, parsers, vision, memory, RAG | none, or files and caches of one call | | | about texts, pixels and commands |

`PROJECT.json` lists the components with every source and the reason where one
is not modelled, and under `hazards` each place where the code can go wrong in
a way that is hard to test, with the properties that would show it.

## 2. The modules

| module | models |
|---|---|
| `DeviceLocks` | the lock files, the processes, the use cases on top |
| `LockService` | what the locks promise their callers: the abstract specification `DeviceLocks` implements |
| `RateLimiter` | check and record for one tool, overlapping callers, time |
| `ToolDispatch` | dispatch as a stack per request, batch, replay, promote, trace, guard |
| `DebugSessions` | registries of all processes, the store file, apps and daemons |
| `SessionService` | what the sessions of one server promise its agent across restarts: the abstract specification `DebugSessions` implements for one process |
| `FlutterMachine` | one daemon, its client, the calls of its session |
| `UiCalls` | the UI tools as sequences of repository operations; extended by the drivers |
| `WdaUi`, `AndroidUi` | the drivers of the two platforms below the tools |
| `DeviceUi` | tools, cache, routing and both drivers together |
| `UiService` | what a UI tool promises: the abstract specification `DeviceUi` implements |
| `ToolSchemas`, `ParamBuilders` | the two tables: what each tool declares, and how it reads each argument |
| `ToolCalls` | a client, the dispatcher's coercion, the builders and their refusals |
| `TestPaths`, `TestScenarios` | the recommended paths and the proposed scenarios |
| `GuidedAgent` | a client of `ToolCalls` that walks the paths and asks for scenarios |
| `Findings` | what the audits share: findings, threshold, cut, weights |
| `SeniorityAudit`, `SecurityAudit`, `PerformanceAudit`, `TestQualityAudit`, `DependencyAudit`, `LocalizationAudit`, `WebAppAudit`, `ScreenAudits` (flows and accessibility) | the rules of each audit, where their hints lead, and the grade |
| `ProjectAudits` | a team that edits a project and follows the hints of an audit |
| `ReleaseReadiness` | the reports taken in (JUnit and JSON of flows, Lighthouse measures), the domains of a run, their grades and the verdict |
| `PlanExecutor` | phases, tool calls, retries, verdict, and the check of a plan that is not run |
| `PatchSafe` | overlapping calls on a git tree that others edit |
| `DeviceLocksProofs`, `RateLimiterProofs`, `ToolDispatchProofs`, `DebugSessionsProofs`, `FlutterMachineProofs`, `DeviceUiProofs`, `PlanExecutorProofs`, `GateProofs` | theorems and their proofs |
| `MC*` | inputs and symmetry for TLC, where a `.cfg` cannot express them |

The components meet at narrow interfaces. Where two of them interact they are
composed (`DeviceUi`, `GuidedAgent`, `ProjectAudits`, `ReleaseReadiness`).
Elsewhere each is modelled with the other side as its environment:
`ToolDispatch!Begin` lets the limiter refuse any call;
a start of `DebugSessions` that the device lock refuses is one that does not
begin (the registry reads the lock once, before the launch); it sees a start and
a stop of a client as `StartDone`, `StartTimeout`, `StopDone` and `Cancel`,
which `FlutterMachine` shows to end; a tool that `PlanExecutor` or `GuidedAgent`
calls succeeds, fails or raises.

### DeviceLocks

State: `file[d]` (owner, and whether the content has been written: `acquire`
creates with `O_EXCL` and writes afterwards), `live`, and `op[s]`, the operation
a process is in and what it has read. The actions are the file-system calls:
`AcquireRead/Judge/Unlink/Create/Write` for `acquire`, `ReleaseRead/Unlink`,
`ForceRelease`, `LockFor` (what debug sessions ask), `ScanRead/Judge/Unlink`
for the list of locks, which reclaims stale ones, `ExitBegin/Read/Unlink/End`
for the exit hook (`container.py`), `Crash`. Inside a process the repository has
no suspension point, so a process is in one operation at a time.

`suspect` is the exception the properties make, a history variable: a device
becomes suspect when a force or the end of a process interferes with it
(another operation may by then have read the dead holder), and stops being
suspect as soon as nothing in flight can act on an old reading and the file
agrees with what the callers were told. `held` is what the callers were told.

### RateLimiter

Time is discrete and kept as ages: for each age, how many of the recorded calls
and of the executions are at most that old, which is all the window asks.
`Start` is an admitted check, `Refuse` a
refused one (recorded as a failed call, because dispatch walks the post hooks of
the middleware that refused), `Finish` the record when the tool has answered,
`Raise` an exception or cancellation that no hook sees. Tools do not interact;
one tool is modelled.

### ToolDispatch

`task[t]` is the stack of dispatches request `t` is inside of: `Begin` is the
pre-dispatch chain, `Finish` the post-dispatch chain (guard, trace), `Deliver`
what the outcome does to the batch or replay that made the call. The actions are
finer than the event loop (which switches tasks only while a use case waits for
the device), so the model has more interleavings, never fewer. `Deliver` lets an
outcome of a screenshot or of logs pass when the dispatch that called for it has
failed already (`Diagnosis`): those are the batch's own diagnostics. The same
call as a step of a skill counts like any other step.

### DebugSessions

A session id stands for its record. `registry` is the memory of each process;
`writing` is what it loaded from the store and has not renamed yet, and other
processes act between the two. `Cancel` is a request that is cancelled at its
await, by the agent or by a graceful exit: `FlutterMachineClient.start` stops its
subprocess at a timeout only, so the daemon, and the app, may live on. `Rename`
may fail: `_write` swallows an OSError. `ListNext` may fail the probe of an app
that runs: `_probe` gives an error as well when the websockets library is
missing, the connection breaks or there is no isolate yet, and the record is
pruned all the same. `Crash` takes any of the children along and leaves the
others. Three history variables remember this: `cut` the daemons that a
cancelled request or a killed server left, `missed` the records a failed write
or probe did not keep or erase, `stopped` the sessions somebody asked to stop.
Abstractions: a probe and what follows it are one step; `attach` is one step; an
app that ended does not come back; the stop of the exit hook is one step; a
client whose stop raises counts as stopped.

`SessionService` is what an agent may count on while it has one server: what is
open stays open until the agent asks to stop it or the server ends, what is asleep
waits for the next list, and a record is lost only of a session somebody asked to
stop, whose app ended, or for which a write or a probe failed (`lapsed`). The
refinement maps a registered session to an open one, as soon as its record is no
longer on its way into the file, any other record in the file to one asleep, and an
id that is given out and neither to a spent one. `StartDone` and `Attach` are thus
no steps of the service: the session opens when the write of its record is over,
and the answer to the agent comes after that. A stopped session that a list puts
back into the registry (section 3) is open again, which is the service's `Return`.

### FlutterMachine

One client from spawn to end. A call is suspended in `call[t].pc`: waiting for
app.started, for the VM service, for a reply, for the death of the process
after SIGTERM, or between two polls of a tail. `pending`, `nextId` and `log`
are the client's fields. The daemon is the environment: it answers any request
in any order or never, reports events, hangs (and then ignores SIGTERM) or dies.
`Overrun` is a line beyond asyncio's 64 KiB limit: `readline` raises, and the
reader ends for good while the session goes on showing RUNNING. `Cancel` is a
request the agent or the exit cancels; only `finally` blocks run then.
Two things hang on the pipe and are not in the model: `drain()` is assumed not
to wait (requests are small), and stderr, which nobody reads, can block the
daemon when it is full, which the model sees as a daemon that hangs.

### DeviceUi

One device, whose `screen` is a version number that every action which lands
raises. A tool is a list of repository operations (`UiCalls!Steps`); `Enter`
takes the next one through the cache and the routing, the driver carries it out
(`WdaUi`, `AndroidUi`, one action per await), `Leave` stores a fresh dump and
lets the tool go on or answer (`Verdict`). The transport may fail before or
after an operation took effect; the WDA server comes and goes, and a session is
dead once the server runs under another incarnation. An Android call that finds no
helper package may make uiautomator2 install one, enabled (`Install`). `raced`,
`calm`, `own`, `quiet` and `anew` (what was installed since the last pause) are
history: what the properties except from their promise.

### ToolCalls and GuidedAgent

A value is its JSON kind and what the conversions tell apart of it. The client
calls each tool with well typed arguments, with each argument in each loose form
models use (numbers and booleans in texts, lists in texts, and so on), with one
missing, and with one of any other kind, infinities, NaN, integers of hundreds of
digits and the home of an unknown user among them. `Dispatch` is coercion, then the
builder, then the answer; the arguments of a batch are not coerced (`Received`). `GuidedAgent` adds the walk along a recommended path:
a step opens and closes devices, sessions, profiles and the like (`Opens`,
`Closes`, `Needs`), and may fail.

### Audits and release readiness

A project gives each place in it the set of traits the patterns of an audit tell
apart. A rule has a severity, a tier, what fires it and the texts its hint leads
to; a hint that may be followed without its rule noticing has the text itself among
them. `ProjectAudits` is a team: `EditPlace` toggles one trait at a place, which may
add or remove a line of those the score is divided by, `Follow` does what a shown
hint says, `Autofix` applies a proposed edit. A request of the security audit may
name `paths`, which narrow what is scanned but not the look at the repository.
`ReleaseReadiness` audits the included domains one after the other while others
change what they would find, and concludes.

### PlanExecutor and PatchSafe

`PlanExecutor` runs a plan call by call; `ended` keeps how each phase went, which
the reported `outcomes` blur. `PatchSafe` has one action per git command and one
for the gate. A change is an edit of a tracked file, a new file, or one to a file
that git ignores: a patch may bring any of them, and of an ignored one git neither
reports, restores nor cleans anything. `apart` has the calls that no other call ran
beside, `blind` the git commands of each call that failed unseen, `before` what it
found.

## 3. The runs

Each finishes within four minutes on two cores.

| run | instance | shows |
|---|---|---|
| `lock_service` | 2 sessions, 2 devices, one session survives; 188 212 states | `Exclusive`, `HolderOnDisk`, `SelectedHeld`; the refinement of `LockService`; `StaleReclaimed` |
| `double_reclaim` | 3 sessions, 1 device, no force | `ReclaimExclusive` is violated |
| `limits` | 3 callers, 3 calls in 3 ticks, threshold 3, cooldown 4; 335 501 states | `BurstBound`, `CooldownServed` |
| `dispatch_flat` | 2 tasks, 3 requests, a ring of 5, one skill; 2 005 492 states | `BatchHonest`, `TapsInFlight`, `FlowKept` |
| `sessions_one` | 1 process that crashes and restarts, 2 tasks, 2 ids, requests cancelled, writes and probes that fail; 488 991 states | `DefaultTarget`, `OrphansWereCut`, `SurvivesRestart`, `DeadPruned`; the refinement of `SessionService` (`KeepsSessions`) |
| `machine_calls` | 2 calls, 2 requests, a ring of 2, 1 line in the pipe; 891 223 states | `OwnAnswer`, `NotStuck`, `NoStray`, `TailFinds`, `CallsEnd` |
| `device_ui` | 2 clients with 2 calls and 1, each platform, 2 faults on Android and 1 on iOS, 2 incarnations of WDA; 1 867 305 states | `NeverBeforeOwnAction`, `SelfHeals`, `PauseResume`; the refinement of `UiService` (`KeepsPromise`) |
| `audit_hints` | 9 audits, up to 3 projects each, 1 000 lines, 2 free edits, lists cut at 2, security with and without paths; 161 345 states | `WorstAlwaysCounts`, `HintsConverge`, `HintsNeverCostMore`, `MoreIsNeverBetter` |
| `release` | 9 domains in two runs, up to 9 inputs each, 1 edit; 271 808 states | `NeverShipsUnfit`, `WorseNeverShips` |
| `catalogue` | every tool, every argument; every path; projects with no feature, one and all; 28 527 states | `MeantIsBuilt`, `ExampleHeals`, `RaisesAreKnown`, `UrgentProposed`, `PathsRun` |
| `plans` | the templates of `examples/templates` and ten plans more, 2 retries; 2 168 states | `VerdictIsTrue`, `PrerequisiteRan`, `PlanEnds` |
| `patch` | 2 calls, a patch that edits, one that adds and one to an ignored file, 2 changes of others; 7 867 298 states | `AnswerTellsTree`, `LandsInTime` |

Why the bounds suffice: three sessions are what a double reclaim needs (a dead
holder and two that judge it), two devices what a scan needs; a limiter with
three callers has one that checks while another finishes and a third is in
flight, and ages reach beyond window and cooldown; in the dispatcher a request
that promotes, one that replays and one that acts overlap, a ring of five holds
a batch with its steps and drops entries in other behaviours; two ids are what a
default session that moves needs; with two requests out at once the daemon
answers in the wrong order or too late, and a ring of two drops an entry while a
tail looks on. One client that acts and then looks, beside one that acts, is
what a stale dump needs; two faults are what a tap needs to go all three ways on
Android, one what the retry on iOS needs. A list cut at two of three severities
loses findings. Two edits make any two traits of a sound project wrong. Three
patches and two changes of others make every pair of an edit, a new and an
ignored file that matters.
The catalogue is not a sample: it has every tool, argument and path there is.
`audit_hints` leaves secrets in `.env` files out (`EnvSecrets`), see below; a thousand
lines put two blockers right at the bound between two grades.

`MaxRaised`, `MaxRequests`, `MaxNesting`, `MaxOut`, `MaxDropped`, `MaxCancelled`,
`MaxFaults`, `MaxEpoch`, `MaxEdits` and `Quota` bound the environment, not the
program: the failures, requests, lines, cancellations and edits that happen. The
program has no such limits. `MaxNesting` cuts nothing in `dispatch_flat`, whose agent
puts no replay into a batch: then dispatches nest at most three deep (`NestingBound`,
a theorem and therefore no property of a run).
`SurvivesRestart` and `KeepsSessions` are checked for one process; with two they do
not hold (see below).

`CHECK_DEADLOCK FALSE` stands where the system may stop: all processes have
ended, or the bounded requests are used up.

### What the violated property shows

`double_reclaim`: the reclaim of a stale lock unlinks a path, not the lock it
has read. Two sessions that read the same stale lock can both be told they
hold the device.

### Other disagreements met on the way

No run is about these; the properties state what does hold beside them.

Locks, limiter, dispatcher:

* A process killed between the creation of the lock file and the write of its
  content leaves an empty file that no `acquire`, forced or not, ever removes.
* `rate_limiter.py:9`: the breaker opens on failures; refusals count as
  failures, so a burst of good calls opens it. `rate_limiter.py:14-15` tells of a
  per-call timeout in the dispatcher; there is none. `rate_limiter.py:5`: the
  limit per window is exceeded by overlapping requests; the bound the code gives
  is `BurstBound`. A caller that waits `retry_after_s` may be refused again.
* A call that is refused is not in the trace, which `tool_registry.py:3861` says
  records every call. `middleware.py:26` says the call is stored sanitised; the
  recorder's hook runs before those that sanitise.
* `promote_sequence` skips the entries that recall the library
  (`skill_library.py:84`), but looks at the tool of an entry only: a batch with a
  `replay_skill` step is kept, and promoted over the name it replays, the skill
  contains its own replay and nests without end.
* The Patrol guard tests `system` as it came (`middleware.py:97-99`), the use case
  gets it converted (`tool_registry.py:3939`): a tap with `system` "false", "0" or
  "no" passes the guard as a tap at the system and is carried out as one at the
  app. `TapsInFlight` counts the taps the guard sees as taps at the app
  (`Guarded`), and only those are bounded.
* `replay_skill` answers ok when a step failed, so a batch with `stop_on_error`
  goes on. Promoting a trace with a successful batch in it repeats the steps of
  the batch.

Debug sessions and the daemon:

* Two servers rewrite the store from what each has loaded, and one loses the
  other's record (`debug_session_store.py:77`).
* A debug session stopped while a list awaits the probe of its record is put
  into the registry again. The device lock is not read again after a launch
  that may take minutes.
* A launch that is cancelled leaves its `flutter run` behind
  (`flutter_machine_client.py:122` catches the timeout only), the exit hook does
  not reach it, and a server that is killed leaves all of its own, as
  `__main__.py:11-13` says. `OrphansWereCut` excepts these, and no others.
* A probe that fails of an app that runs prunes the record of a live session
  (`flutter_debug_session_repository.py:334-342`), and a record whose write failed
  is lost while the call answers ok (`debug_session_store.py:98-100`).
  `SurvivesRestart` and `KeepsSessions` except the ids these happened to (`missed`).
* `tail_log` uses the length of a ring as a position in it
  (`flutter_debug_session_repository.py:410`): once the ring is full no new line
  is ever looked at. `TailFinds` says what it does find.
* A line beyond 64 KiB ends the reader while the session goes on as RUNNING.

UI:

* A resume after a pause that failed half way answers ok without enabling the
  helper: the package is searched by substring (`ui_automation_pause.py:298`).
  `PauseResume` speaks of what is left from the next pause on that runs alone: that
  one mends it.
* A pause does not keep the helpers away: one that finds none answers ok, and the
  next UI call makes uiautomator2 install and enable one
  (`ui_automation_pause.py:5-11`). When it installs only the second package the
  resume takes the first, still disabled, for enabled. `PauseResume` names both
  (`anew`).
* `NeverBeforeOwnAction` excepts a dump that was in flight while an action landed
  (`raced`): what it shows is stored, and a later look may be given it
  (`caching_ui_repository.py:70`).
* simctl is asked once in the life of the process, so a simulator that boots
  later stays unreachable; `SelfHeals` names it.

Tool calls and advice:

* Not every call gets an envelope. `_to_int` raises OverflowError on "inf" or 1e999
  and ValueError on NaN (`argument_coercion.py:92`, `:97`), `_to_float` OverflowError
  on an integer of hundreds of digits (`:107`), all before the try of the dispatcher
  (`tool_registry.py:3939`); and `expanduser` raises RuntimeError on "~nosuchuser/x"
  (`_param_builders.py:269`), which the dispatcher does not catch. `RaisesAreKnown`
  names these four and says that nothing else does.
* A batch runs before coercion (`tool_registry.py:3922`), so "false" for
  `stop_on_error` or `capture_on_failure` counts as true (`:3989`); it refuses an
  empty list of steps, which its schema admits; and a text for the `bounds` of a tap
  that holds no four numbers is dropped without a word (`_param_builders.py:333`).
  `MeantIsBuilt` names these three.
* Schemas and builders differ where no call of a client shows it:
  `tap_and_verify` reads `capture_on_failure`, and release readiness
  `weight_web_app` and `weight_web_vitals`, which their schemas do not declare, while
  every declared argument is read (`MeantIsBuilt`);
  the example `[]` for `zoom_screenshot` does not fit its own schema; an explicit
  null is refused where an absent argument is not. Over stdio the MCP library
  checks arguments against the schema before the dispatcher sees them, so the
  coercion serves batches, replays and the HTTP adapter only.
* Paths are "sequenced runnable" plans (`recommend_test_path.py:10`), yet
  `dart_format` is advised with arguments it does not read and without the one it
  needs, `select_device` without a serial, `prepare_for_test` without a package
  and `capture_release_screenshot` without a label; nightly and pre_release never
  lock a device (`:31` promises locked devices) and run the plan whose verdict is
  always skipped. pre_release does not ask for the categories of some P0
  scenarios, and unknown focus areas give an empty proposal.

Plans:

* A planned decline ends the plan at the gate, before the phase that states its
  verdict, so `ump_decline.yaml` can never pass (`docs/architecture.md:64`,
  `static_capabilities_provider.py:101` promise VERDICT_DECLINED).
* A phase that recovers at its second retry stays failed, against the comment at
  `yaml_plan_executor.py:156-161`. `VerdictIsTrue` takes neither of the two for right:
  it says what a passing run must have and which runs must pass, and leaves out runs
  with such a phase and runs that end in a planned decline.
* UNDER_TEST "must" find the device locked (`plan.py:17`), yet PRE_FLIGHT alone, which
  locks none, satisfies it. A recovered gate does not end the plan; a
  blocked plan leaves its debug session running; a plan is run without being
  validated, and validation passes unknown phases and missing packages; a
  `VERDICT_BLOCKED` that the plan states and that fails does not count.

Audits and release:

* `HintsConverge` fails for secrets in `.env` files: the hint of one rule
  leads to the other (`audit_security.py:656`); the run therefore has none.
* Four hints may be followed in a way that leaves the finding (`DeafRules`): a masked
  value is still a print of its name, a clipboard cleared later is still written
  (`audit_security.py:535`, `542`), an `android:permission` counts only on the line of
  `exported` (`:380-382`, `591-604`), and `Semantics(enabled: false)` is what the
  accessibility audit already sees. `HintsConverge` says that every other hint
  answers its finding, and that a team which tries the other way of these four ends.
* Findings are weighed against the lines of the project after the list was cut, so
  with a full list one more finding on one more line makes the grade better: two
  blockers in 1 000 lines and a cap of 2 score 20, needs_review; with one more print
  they score 19.98, junior (`audit_code_seniority.py:250-266`). `MoreIsNeverBetter`
  excepts an edit that adds more lines than findings the list has room for.
* `run_security_audit` with `paths` that hold no file to scan answers `secure` beside
  a BLOCKER for a `.env` file in git, which is looked for whatever the paths are
  (`audit_security.py:199`, `253-256`, `731-732`). `WorstAlwaysCounts` speaks of
  requests that scan something. Paths of the other audits are not modelled.
  `HintsNeverCostMore` excepts autofix and two steps of localization (see the
  comments there).
* `max_findings` is described as a "Cap on findings returned"
  (`presentation/tool_registry.py:3072`), yet the grade is computed of the list that
  was cut, so a cap of 0 gives the best grade whatever was found, and a negative
  one, which `int(...)` lets pass too, cuts from the end of the list. The theorem
  `WorstIsNeverCut` has the hypothesis that nobody asks for 0; negative caps are
  not modelled (`TeamAssumption`).
* The dependency audit has no rule of severity BLOCKER, so its grade "blocked" is
  unreachable; a manifest that cannot be parsed gives no finding; a project
  without files gets the best grade; accessibility finds nothing in an iOS dump.
* Release readiness says it removes duplicates and does not; an audit that fails
  drops out of mean and blockers; the threshold hides junior blockers; a JUnit
  case with a failure and a rerunFailure counts as flaky.

patch_apply_safe:

* A git status that fails counts as a clean tree, and the exit codes of the
  rollback are ignored, so "all changes rolled back" may be untrue, as it is of a
  patch to a file that git ignores: the status does not report it, `checkout`
  does not restore it, and `git clean -fd` without `-x` keeps it
  (`patch_safe.py:175-176`). `AnswerTellsTree` names these. A forced rollback takes
  other changes with it; a gate that raises rolls nothing back; overlapping calls
  share one pending file and may apply each other's patch; edits made during the
  gate are lost; `files_changed` omits new files.

### Fairness

* `DeviceLocks`: a running process finishes the operation it is in (it has no
  suspension point), and a surviving agent asks again, without force, as the
  `DeviceBusy` envelope tells it to. Asking needs an idle process, again and
  again, hence strong fairness.
* `DebugSessions`: launches, probes and stops have timeouts; the operator starts
  a server that went down again, and its agent lists the sessions again and
  again, and does not cancel every list before it is through (hence strong
  fairness). `DeadPruned` is under the condition that servers stop ending, and
  speaks of records whose writes did not fail.
* `FlutterMachine`: each wait of a call is inside `asyncio.wait_for` or a loop
  with a deadline, so what is due happens. Nothing is assumed of the daemon or
  the reader.
* `DeviceUi`: driver calls run in threads or subprocesses that return, and
  asyncio.Lock serves its waiters in order, so a call that is started goes on.
  Nothing is assumed of time, the WDA server or the clients.
* `ProjectAudits`: the team goes on following hints while it is shown any; that
  is what the hints are for. Which hint it follows is open, but it does not for ever
  follow one of the four above in the way that leaves the finding.
* `GuidedAgent`: the dispatcher answers, and a refused client copies the example
  (the behaviour `argument_coercion.py` describes).
* `PlanExecutor`: tool calls end, each has a timeout of its own.
* The other modules are checked for safety only.

## 4. The proofs

The eight `*Proofs` modules prove, for every value of the constants, what the
runs show on small ones. In each the theorem follows from an inductive invariant
(`IInv`, or the one named below), with one lemma per action, or one lemma that
says what any step of a component may change (`Effect`) and from which each
property follows.

* `DeviceLocksProofs`: `Exclusive`, `HolderOnDisk`, `SelectedHeld`, the type
  invariant, and that every step of the file protocol is a step of `LockService`
  or changes nothing its callers see (`Refinement`). `Exclusive` is not
  inductive: a step that tells `s` it holds `d` is safe only because of what is
  on disk and of what others have read. `IInv` adds, for every device that is not
  suspect (`Sound`), that whoever was told it holds the device is the one its
  file names (`HoldersNamed`), that the file belongs to a live session
  (`OwnerLive`), and what each operation at that device may still do with its old
  reading (`OpSound`: one about to write or to unlink for a release or an exit
  owns the file, one that judges has read a live session, and none is about to
  unlink what it reclaims). `Departed` says that a dead session is idle and that
  one which exits was told it holds nothing, `OnDevice` that pending operations
  are at a device. Assumption: `ConstantsOK`.
* `RateLimiterProofs`: the type invariant (the failure counter stays below the
  threshold), `CooldownServed` and `BurstBound`. `Covered` ties the limiter's
  state to the last executions that all failed. Counted from any of them on,
  either the breaker has not opened since, and then the failure counter holds them
  all (refusals and late answers only add to it), or it has, and its remaining
  cooldown together with the age of that execution makes up the whole cooldown.
  `BurstBound` is about the whole window and is not inductive, because a tick
  drops the oldest calls: the invariant states it of every age (`Bounded`), with
  an account of the executions begun since (`Accounted`: each is recorded, in
  flight or raised, unless the window is full, and then none begins) and with
  counts that only grow with the age (`Cumulative`). Assumption: `ConfigOK`.
* `ToolDispatchProofs`: `BatchHonest`, `FlowKept`, `TapsInFlight`, `NestingBound`,
  for any calls, requests and skills. All rest on the shape of a request
  (`Shaped`): only a batch or a replay has a dispatch on top of it, a batch no
  batch and a replay no replay, and a skill holds no replay at its top level.
  - `NestingBound` follows at once, under the hypothesis `Plain`: the agent puts no
    replay into a batch. Without it a skill may replay itself, see section 3.
  - `TapsInFlight`: while the guard is on, the guarded taps that succeeded since it
    was switched on and those still in flight are together fewer than the requests
    (`Watched`); it is the bound on the sum that a tap which answers leaves as it is.
  - `BatchHonest`: as long as all went well in a batch, the trace holds the steps it
    has made, in order, and its list holds the rest (`Teller`); below a dispatch in
    flight, that step stands between the two.
  - `FlowKept`: the acts among the promotable entries that are ok are at all times
    the acts that were done (`Flowing`), so promoting can write nothing else.
  Both speak of a trace that has dropped nothing. `Only`, what is left of a
  sequence in a set, is a recursive function; what the proofs need of it (an
  element appended, the same set on the elements, elements are of the sequence)
  is shown by induction over a set of natural numbers (`Least`, `Ind`). Assumptions:
  `TaskAssumption`, `GuardAssumption`, `EntriesAssumption`, `CallAssumption`.
* `DebugSessionsProofs`: `DefaultTarget`, `OrphansWereCut`, `SurvivesRestart` and
  `KeepsSessions`. The first two are for any number of processes that share the
  store, crash and restart. The first is inductive with types alone (`DInv`); what
  it needs is what entering and leaving the registry does to a sequence. The second
  needs that ids are fresh (`InUse`), that a
  record still to be probed is no session of a client or a launch, or a list would
  forget a client (`Apart`), that what a process has in hand no other process
  spawned, or a crash elsewhere would matter (`Ours`), and that a process which
  ended holds nothing (`Down`). `SurvivesRestart` is proved for one server process
  (`Single`): two that load the store and rename their own version of it lose each
  other's records. Its invariant `SInv` says that what the server has registered
  or is yet to probe is in the file, or, while a write is in flight, in the content
  about to be renamed (`Stored`), and that a launch is of an app no other record
  talks to (`Fresh`), or a record of an app that ended could come to life again.
  `KeepsSessions` is the whole refinement of `SessionService`, also for one server.
  `LInv` adds to `SInv` that a launch has an id that is in no file (`Unwritten`),
  that a write in flight adds one registered session or removes one that was
  stopped, missed or whose app is gone (`Awaits`), and that the registry holds an id
  once (`Unique`). Then the end of a write opens or closes at most one session, a
  probe of the list wakes one or brings one back, a stop asks, the end of the server
  puts all of them to sleep, and every other step is one of the world's or a stutter.
  Assumption: `NullsOK`.
* `FlutterMachineProofs`: `OwnAnswer`, `NotStuck`, `NoStray`, `TailFinds`. Every
  request that is out is one whose call still waits, or nobody does (`Known`): a
  future is dropped before its call goes on, and ids are never used twice.
  `TailFinds`, with `RInv`: while the ring has dropped nothing, each tail looks past
  a place that the log has reached, and an entry it is owed lies behind that place.
  Assumption: `ConfigOK`.
* `DeviceUiProofs`: `NeverBeforeOwnAction`, `SelfHeals`, `PauseResume`, and the
  safety half of the refinement (`Spec => Promise!Safety`), for any number of
  clients, calls, faults and incarnations of the server, on both platforms. A step
  of a driver changes the call it works for, so each action is first reduced to
  what it makes of that call. `IInv` has four parts. `Calls`: where a call can be and
  how often its action landed by then; the bounds on landings follow. `Switches`:
  while one pause or resume is under way undisturbed, which helper packages it has
  dealt with, but for those installed meanwhile; `PauseResume` speaks only of its
  end. `Dumps`: whatever a dump in
  flight or in the cache shows is at least what every client left on the screen,
  unless an action flew at the time; an action's invalidation alone is not enough,
  because a dump begun before it is stored after it. `Sessions`: who shakes hands
  holds the lock, and a calm tap that found a broken session works with one of the
  running server from then on; without that, its only retry could meet another
  dead session.
* `PlanExecutorProofs`: `PrerequisiteRan` and `VerdictIsTrue`. As long as a plan has
  not ended, all phases behind it went well (`AllWent`), because a failed one ends
  it; the static check says that a needed phase is among them. For the verdict,
  `Tells` relates the reported outcomes to how the phases went by the number of
  attempts: a retried phase has left its failure and the reflection at the end of
  the list (`Reported`), and only the last failure is marked as recovered, so
  after one retry the verdict can be saved and after two it cannot. That is more
  than `VerdictIsTrue` says, and less than the code's comment wants. Assumptions:
  `RetriesAssumption`, `PlansAssumption` (plans are sequences of phases).
* `GateProofs`, about three components that hold something back:
  - `PatchSafe`: `AnswerTellsTree` and `LandsInTime`. For the answer the invariant
    follows a call that no other ran beside through its steps: what has become of
    its patch at each of its places, what it has taken away, and which of its
    commands were blind (`AsMade`), and that a pending file belongs to a call
    between writing and unlinking it (`Attended`), which is all `LandsInTime`
    needs. Assumptions: `ChangesAssumption`, `IgnoredAssumption`.
  - `ReleaseReadiness`: `NeverShipsUnfit` and `WorseNeverShips`, for any requests,
    inputs and changes. The invariant is short (`RunInv`: a verdict is that of what
    was looked at); the work is in the arithmetic below it. A domain's score is at
    most 100 and its blockers are counted, so a run blocks exactly when something
    unfit is among its inputs. For the second, heavier findings give no better grade
    (for every grade function, as a lemma of its own), a worse grade no higher score,
    and the weighted sum, a recursive function, grows with each of its terms (`Ind`
    once more), so the mean does. Assumptions: `RequestsAssumption`,
    `InputsAssumption`.
  - `ProjectAudits`: `MoreIsNeverBetter` and `WorstAlwaysCounts`, for any projects,
    lines, paths, thresholds and caps, over all rules of the nine audits. `TeamInv` says that an
    audit answers about the project as it is. A finding is determined by its rule
    and its place, and its severity by its rule (`Sound`, one lemma per audit), so
    when every finding has one of its kind after an edit there is an injection, and
    no severity has fewer findings (`CountsGrow`). Cutting a sorted list keeps that
    order (`CutGrows`), and so does each grade: a finding more weighs at least one,
    so a score that reached a bound still does when each line more brings one
    (`ScoreGrows`). `MoreIsNeverBetter` is an action
    property: no single state shows it. `WorstAlwaysCounts` is a theorem under
    `0 \notin MaxFindings`, which the run's instance satisfies and section 3 explains.
    Assumption: `TeamAssumption`.

The type invariants of `DeviceLocks` and `RateLimiter` are theorems, those of the
other modules are conjuncts of their invariants. Proving found two mistakes the
runs had passed: `TapsInFlight` once counted taps of earlier periods of the guard,
which is false of runs with more requests than the instance has, and `Deliver` once
forgave a failing look inside a skill, which `replay_skill` does not.

Only model-checked: everything under fairness, which is out of the prover's reach
(`StaleReclaimed`, `DeadPruned`, `CallsEnd`, `HintsConverge`, `ExampleHeals`, `PlanEnds`
and the liveness half of `KeepsPromise`); `HintsNeverCostMore`, which compares the
penalties before and after each hint rule by rule, over pairs of rules rather
than one; and of the catalogue and the advice `MeantIsBuilt`,
`RaisesAreKnown`, `UrgentProposed` and `PathsRun`, which are about fixed tables
that the run goes through as a whole, or nearly.

## 5. What is left

Virtual devices and recordings: claims made before an await
(`virtual_device_manager.py:78`, `adb_observation_repository.py:62`).

Not modelled: `design_test_plan`, the session summary and the doctor, report and
log parsers (text in, text out); image processing, vision, memory and frame
statistics (numbers of one request); the wrappers of single commands for build,
install, lifecycle and Patrol; artifacts and retention, where age and size
of files decide; envelopes (truncation, narration); command line, HTTP adapter
and wiring. They keep no state between calls, or none that another call can see
half done. The in-memory lock repository stands in for the file one in tests.
