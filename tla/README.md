# niri-battery-keeper in TLA+

A model of the daemon that throttles or freezes unfocused applications (what it
remembers, what it has done to the kernel's cgroups, and why) and of what is
around it: niri and the clipboard, tray and GUI, the energy meter, the power
limits, the installation. Paths are relative to the repository; `mod.rs` is
`src/daemon/mod.rs`.

## The system

One process, `niri-battery-keeper daemon`, whose main thread takes one message
at a time from a channel (`run`, mod.rs:442-622). Reader threads feed the
channel: niri's event stream, the Wayland clipboard watcher, the IPC socket and
the tray. Another process, the GUI, talks to it over the socket; a third,
`nbk-set-rapl`, is run as root by the GUI.

| Component | Keeps | Operations | Hard to test | Correct when |
|---|---|---|---|---|
| Throttler, `daemon/throttle.rs` | `applied`: unit -> last profile; the kernel and systemd keep the limits themselves | apply, reset, reset_all, force_clear | each systemctl call can fail, apply makes two; SIGKILL leaves limits without memory | it can undo what it did; nothing is left after a stop; the recorded profile is in force |
| Governor, `daemon/mod.rs` | windows, focus, apps with their scopes, deadlines, clipboard owner, configuration | one handler per message, process_pending on timeout, start, SIGHUP, shutdown | messages in any order, shared scopes, handlers of many steps, lost streams, kill switch by four routes | every restriction and deadline has a reason; grace is respected; no app is forgotten |
| Configuration, `config.rs` | the record and `config.toml` | load, save, resolve_profile | failed or torn saves, foreign edits, dangling preset names | a restart comes back with what was in force |
| niri feed, `daemon/niri.rs` | stream process, backoff | fetch, read, respawn | loss between events, bootstrap against stream | the governor's view catches up |
| Clipboard watcher, `daemon/clipboard.rs` | `got_initial` | selection events, respawn | a copy is attributed when handled, not when made | the owner is the app that copied |
| Unit resolution, `daemon/cgroup.rs`, `proctree.rs` | pid -> unit cache | lookup, invalidate, walk of the tree | reused pids, moved processes, protected processes that join later | no protected process is ever touched |
| IPC, `daemon/ipc.rs`, `proto.rs` | a reply channel per connection | accept, request, reply | the client gives up after 5 s, the request is applied later | every request is answered once |
| Tray, `daemon/tray.rs` | copy of mode, modes, kill switch | menu callbacks, pushes | optimistic copy against late push | it shows the daemon's state in the end |
| GUI, `gui/mod.rs` | draft configuration, dirty flag | poll, edit, apply, kill switch | a dirty draft applied over a change from the tray | no change is lost silently |
| TDP tab and helper, `gui/tdp.rs`, `rapl_helper.rs` | slider drafts; the RAPL registers | probe, apply | two registers written in sequence | limits reported as set are in force, burst never below sustained |
| Energy meter, `daemon/energy.rs` | session, integrals, persisted file | sample, save, load | restarts, suspend, counters that wrap or vanish | energy and time are counted once, also over restarts |
| Installation, `bootstrap.rs` | files, unit state | install, enable, remove | a step fails half way; a package comes and goes | what it reports is so; the package is not shadowed |
| Battery, system scan, CPU topology, `main.rs` | nothing | read and format | | |

They interact through the channel (every message is handled to its end before
the next), through `applied` (read by the governor as `is_throttled`), through
`config.toml` (written by the daemon, edited by the user) and through the
kernel, which outlives all of them.

## Modules

| Module | Models |
|---|---|
| `Profile` | the enum `Profile`; throttle profiles are a set of values, `PinOnly` are those that set only `AllowedCPUs=` |
| `Throttler` | `throttle.rs`, the startup sweep (mod.rs:531-559) and what `system_scan.rs` can see; also the abstract specification of what the governor may do to scopes |
| `Config` | the configuration record, its defaults, `load_or_default`, `resolve_profile` |
| `Governor` | the main loop: composes `Throttler` and `Config` (EXTENDS) and adds windows, focus, deadlines, owner and file |
| `GovernorGrace` | `Governor` with a history variable for the grace period, and its liveness |
| `Feed` | compositor, event stream, clipboard watcher, bootstrap fetch, and the handlers that keep the window table |
| `Units` | processes, the walk of a window's tree, the pid cache, protected processes |
| `Settings` | abstract specification: what the daemon promises to those who change its configuration |
| `Desk` | daemon, tray and GUI as three holders of the configuration, with IPC and its timeout; implements `Settings` |
| `Meter` | the energy meter, its persisted session, one RAPL counter |
| `Tdp` | the TDP tab of several windows, the root helper, its installation |
| `Setup` | installation, enabling, removal and restart of the user service |
| `ThrottlerProofs`, `ConfigProofs`, `GovernorProofs`, `FeedProofs`, `DeskProofs`, `MeterProofs`, `TdpProofs`, `SetupProofs` | theorems about the modules of those names; `GovernorProofs` also about `GovernorGrace` and builds on the first two, `DeskProofs` on `ConfigProofs` |
| `MCThrottler`, `MCGovernor`, `MCGrace`, `MCFeed`, `MCUnits`, `MCDesk`, `MCMeter`, `MCTdp`, `MCSetup` | instances for TLC |

Composition: `Governor` contains `Throttler` and `Config`. What `Feed` shows (the
daemon's window table becomes the compositor's) is what `Governor` takes as its
inputs (any event at any moment); what `Units` finds is `Governor`'s constant
`Reach`; `Desk` and `Governor` share `Config`, the one for who changes the
configuration and the other for what a change does to scopes. They are separate
because their product is out of TLC's reach and the handlers do not look across.

### State and code

* `unit[s].applied` is the entry of `Throttler::applied`; `unit[s].frozen` and
  `.props` are the kernel's. `unit[s].lost` is a history variable, set when a
  reset whose call failed or the sweep drops the daemon's knowledge of a limit that
  is still there, and cleared when the scope is free again.
* `winApp`, `winFocused` are `State::windows`; `focusedId`, `owner`, `pending`
  and `scopes` are the fields of the same meaning, the last one
  `AppEntry::scopes`. `appFocused` are the apps with `AppEntry::focused`. An
  app has an `AppEntry` exactly while it has a window (`Live`).
* `pending[a]` abstracts an `Instant`: no entry, not reached, reached. Time
  passes by `GraceElapses`, at any moment.
* A short handler is one action. `apply_snapshot`, `reconcile` and
  `process_pending` are walks: the action of the message sets `phase` and `todo`
  and one action per window or app does the work, in any order because the code
  walks a `HashMap`. No message is taken before `phase = "idle"`, but the daemon
  may be killed between any two steps.
* A handler that changes the configuration puts it in force and truncates
  `config.toml` in its first action (`Adopt`, `Opened`), and writes the file in the
  next (`Saved`, or `Killed` for the kill switch; phases "save" and "engage"). Either
  half may fail, which the code only logs, and the daemon may be killed in between,
  which leaves an empty file. An empty file does not parse (`Unparsable`).
* `Retrack` is the common effect of `upsert_window`, `detach_window_from_app`,
  `forget_window` and `refresh_app_scopes`: the window table changes, apps
  without windows are dropped with deadline and scopes, some apps' scopes are
  resolved anew, and every scope an app loses is reset.
* A handler's calls on several scopes are one step; which of them fail is chosen
  per step from `Failures`. A kill in the middle of such a batch is not
  distinguished from one before or after it. Where a batch has several calls on
  one scope (a window changes app, both apps lose the scope), the second finds
  nothing recorded and does nothing, so one call is made.
* What the process tree and the cgroups say is an input: any member of `Reach[a]`
  each time app `a` is resolved.
* `SetMode`, `EngageKillSwitch` and `ReleaseKillSwitch` stand for the IPC request
  and for the tray action of the same effect (mod.rs:645-679 and 765-812).
  Windows of the GUI itself are filtered before anything else and are no input.
* Operators named after a plausible mistake (`TeardownWithoutThaw`,
  `ReloadWithoutReconcile`, ...) are not part of the specification. Each stands
  before the definition it is a variant of; put in its place it makes TLC find
  the property of PROJECT.json's list violated, which shows that the property
  depends on that line of the code.

These are `Throttler` and `Governor`. In the others:

* `Feed`: pipe, reader thread, channel and forwarder of a source are one FIFO
  queue (`events`, `clips`); the two are in no order. `EndStream` drops any suffix of
  what was not read and puts `StreamLost` behind the rest; `Reconnect` starts with a
  snapshot, as niri does. `watcher = "deaf"` is a connection whose device has
  finished. `daemon` has the fields of `State` concerned. niri may tell a change of
  focus by a focus event or only by an upsert of the window that has it, which by its
  contract means that all others lost it (`FocusTold`, `Open`). History variables:
  `marked`, the windows that lost the focus with no focus event since; `taken`, the
  windows taken over by the GUI's app_id, whose upserts mod.rs:738 ignores; `known`,
  whether the last copy could be attributed.
* `Units`: `cache` is `UnitCache` with `Unseen` for an absent key and `NoUnit` for a
  remembered `None`. An event is handled while the processes stand still.
* `Desk`: `config` and `file` are the daemon's; `loop = "save"` is between adopting a
  configuration and the end of `save_to`, `loop = "push"` between a handler and
  `push_tray_state`; `owed`, that the answer to the request being saved is still to be
  sent; `sound` (history), that the last save succeeded; `tray` is `TrayState`; `gui.server`, `gui.draft` are `App`'s.
  `client::send` is `Send`, then `ReceiveAnswer` or `TimeOut`; while it waits the GUI
  does nothing else, having one thread. `ipcQ` entries keep whether anybody still
  `waited`. `EditResults` are all changes a frame can make to the draft.
  `gui.unsaved` is history.
* `Meter`: `sample()` is a pipeline of functions in the order of the code (integrate,
  accrue, aggregate, close the bucket, periodic save, transition and its save).
  Time is in seconds, energy in joules; `truth` is history. A restart is a crash,
  because nothing is saved at shutdown.
* `Tdp`: `rapl` are the two registers, `tab[w]` a window's `TdpState` with its helper
  process (`job`), `todo` the rest of the installation script, during which the
  window that waits for it does not draw. `torn` is history.
* `Setup`: an operation is the list of its calls (`Steps`); `ServiceStep` does one,
  which succeeds or fails with any outcome a failed call can leave (a file
  untouched, truncated or written). `service` is what systemd knows. `shell` has
  the window's caches, which `PollService` refreshes.

## Runs

| Run | Shows | Distinct states |
|---|---|---|
| `throttler_fail` | two scopes, a quota profile and a pin-only profile, any one or two calls per scope failing: types, `UndoKnown`, `CleanAfterStop` | 865 |
| `governor_separate` | two apps in scopes of their own, one with a helper scope that comes and goes: reasons, whole profiles, no app forgotten, a configuration that survives a kill outside a save, exact profiles, grace, and `EventuallyRestricted` | 302 492 |
| `governor_files` | one app, calls on one scope fail, saves fail or are cut short, `config.toml` is deleted, broken or edited: the kernel limits nothing without a reason except what a failed call left behind, and `ThrottlerSpec`, the refinement | 137 765 |
| `feed` | two windows of two apps, either of which may become the GUI's; focus told by an event or by an upsert alone; a stream or watcher that ends: `TableFollows`, `OwnerKnown`, `CatchesUp` | 1 949 671 |
| `desk` | edits, clicks, one request that times out, one save that fails, one stop of the daemon, perhaps inside a save: copies agree, no edit is lost, presets stay defined, no late request, `KeepsItsPromise` | 1 786 049 |
| `meter` | two daemons one after the other, ticks of 2 and 3 s, failed saves: counters, timeline, what a crash loses, counter wrap | 685 428 |
| `tdp` | two windows, two clicks on Apply, an installation that may stop half way, a window opened again | 999 616 |
| `setup` | three machines, four clicks, a package that comes and goes: `SuccessIsTrue`, `PackageNotShadowed`, `RemoveLeavesNoDaemon` | 22 883 |

Bounds, and why they are enough:

* Governor: two apps, two windows and two or three scopes are the least that has
  what matters: a window that changes app, an app with several windows, a scope an
  app loses while another keeps it, one call of a batch failing and not another.
  The profiles are those of the built-in modes plus one per-app rule that makes the
  two apps' profiles differ; `KilledMix` is a configuration sent by `SetConfig` with
  the kill switch on. Nothing counts, so no counter is capped. Apps that share a
  scope are in two violation runs below and in the theorems.
* `feed`: `MaxActs = 3`, `MaxLosses = 1`. Three acts are a copy with a change before
  and after it, a focus told by an upsert alone and what follows it, or a window
  opened, focused and closed around a loss; the queues are bounded by them.
* `desk`: `MaxEdits = 3` (an edit, an Apply and one thing more), and one tray click,
  timeout, failed save and stop each, of the last three at most two in a behaviour
  (`MaxFaults`): a failed save and then a stop, or a timeout and either, are the
  combinations that say something; one app whose rule names a preset that can be
  renamed.
* `meter`: buckets of 3 s, a save every 2 buckets, at most 2 samples kept, a suspend
  gap of 2 s, deltas of a tick over `CapW = 1` discarded: every limit is crossed within
  `MaxClock = 9`. Readings: on battery, on
  battery with nothing readable, charging, and on AC while discharging. The
  behaviour ends at `MaxClock`, hence no deadlock check.
* `tdp`: limits 0 to 2 with sliders up to 1, so registers may hold more than the
  slider goes to; `MaxApplies = 2` lets two helpers overlap.
* `setup`: a fresh machine, an older installation, a packaged one; `MaxClicks = 4` is
  install, reopen, remove and one more; `MaxPackages = 2` lets a package come and go.

Four runs end in a violation, each of something a document or comment of the
repository says:

| Run | Said | The code |
|---|---|---|
| `focused_shared` | README.md:297, shared scopes are not managed while any app in them is focused | profiles are applied per app; `skip_shared_scopes` is never read |
| `killswitch_fail` | README.md:173, the kill switch clears every scope | `reset` forgets a scope whose call failed |
| `desk_killswitch` | README.md:173, no new restrictions "until you flip it back" | Apply sends the whole draft; one made before the tray engaged the switch releases it |
| `units_cache` | README.md:274, a scope with a protected process in it is skipped | a pid looked up once is not looked up again, so its scope is taken up whatever has joined it |

Other differences met while modelling, seen in the model but without a run: the
clipboard owner is exempt from Pause only, deliberately (mod.rs:213-216), where
CHANGELOG.md:128 says it is never throttled; the sweep does not see a scope that is
only pinned to CPUs (mod.rs:531-534); in a shared scope the grace of
config.example.toml:58 is skipped, since a scope restricted for another app is
reapplied at once (mod.rs:246); after a restart both energy sessions may be under
way where proto.rs:101-108 says one is `None`; the comment at energy.rs:134-136 has
the two resets of the counters the other way round; after a failed installation
with the unit written, or a removal next to a package, the banner is gone until
another window is opened from elsewhere (gui/mod.rs:445-448 says one click); a
finished clipboard device is logged with "watcher will respawn" and does not
(clipboard.rs:162). README.md:176-177 says that the state persists in `config.toml`
across restarts: a daemon killed inside a save, or a write that fails there, leaves
an empty file, and the next one runs on defaults with the kill switch off. And when
niri tells a change of focus by an upsert alone, two windows stay marked as focused
and `focused_id` may be the old one's until the next focus event, so that both apps
count as focused and a copy may be taken for the other app's (mod.rs:147-160).

### Fairness

`GraceFairSpec` (and `FairSpec` of `Governor`) assumes weak fairness of the
handler's steps (the loop never stops in the middle of a handler), of `Reconnect`
(the stream thread respawns niri's stream for ever, and niri begins each with the
list of windows) and of `GraceElapses` (time passes). `Timeout` gets strong
fairness: `recv_timeout` reports a timeout only after a silence of at least 10 ms
and at most 1 s (mod.rs:286-291 and 576), so it is taken only if the traffic has
such pauses again and again. Under a stream of messages without them no deadline
is ever processed: that is how the code is, and the assumption says so. Crashes
and restarts are not fair; `EventuallyRestricted` speaks of apps that ought to be
restricted from some time on, hence of a daemon that stays up.

`Feed!FairSpec`: the main loop takes what is queued, and the two respawn loops never
give up (their backoff ends at 30 s). `Desk!FairSpec`: the main loop handles, ends its
saves and pushes, a daemon that stopped is started again, the GUI polls. The unit has
`Restart=on-failure`, so that after a clean stop it is the user or the session who
starts it: `EventuallyAgree` says nothing of a daemon that stays stopped. That `accept` succeeds is assumed: the accept loop ends on its first
error, and after that nobody is answered. Users and failures are never fair.

### Refinements

* `Governor` implements `ThrottlerSpec`: TLC in `governor_files`, TLAPS for all
  constants. Whatever the handlers do, the scopes see only applies, resets,
  complete sweeps and stops.
* `Desk` implements `Settings` (`KeepsItsPromise`): the value is the daemon's
  configuration, or the file's while there is no daemon; what was asked is in the two
  queues; what is stored is what the file would be read as. A request the GUI gave up
  on is still one request; a stop loses requests. What `Settings` promises of the
  value is conditional, because the code is: it outlives the daemon if it was
  stored, and a save that fails or is cut short leaves what was stored before or
  the defaults, until a later save succeeds.

## Proofs

Every type invariant, safety invariant and action property of the passing runs, and
both refinements, are theorems for every value of the constants. The assumptions
are those of the modules (`ProfileAssumption` ... `MeterAssumption`): types of the
constants, that marker values are no data, that what is divided by is not 0. Each
argument is an inductive invariant `IInv` with `Init => IInv`, `IInv /\ [Next]_vars
=> IInv'` and `IInv => Inv`; where the property itself is not inductive, what had to
be added says why the code is right:

**Throttler.** `ThrottlerTypeCorrect`, `ThrottlerUndo`, `ThrottlerExact`: per unit and
per call first (`ApplyKnown`, `ResetFrees`, `SweepFrees`, `ApplyExact`), by cases on
what is recorded and what is to be applied; then per action. `UndoKnown` and
`CleanAfterStop` are inductive together: a stop is clean because each reset undoes
what is known. `ThrottlerLoses` bounds the exception they make: a limit is lost only on
a scope on which a call can fail or whose cpuset a sweep can overlook.

**Governor.**

* `GovernorTypeCorrect` needs `FocusedKnown`, that a window marked focused is in the
  table, since the focus flags are recomputed from the marks. `ConfigProofs` has the
  types of what is loaded and resolved.
* `GovernorImplementsThrottler`: every step of the governor is a step of
  `ThrottlerNext` or leaves the throttler be (`StepImplements`), so that
  `GovernorUndo` follows from `ThrottlerUndo`.
* `GovernorReasons`, `GovernorDeadlines`: `RestrictedForAReason` speaks of what the kernel
  holds, with `LostByFailure` as the exception; the proof goes by way of what is
  recorded (`RestrictedInv`) and comes back with `UndoKnown` and `ThrottlerLoses`.
  A handler changes focus or policy first and visits the apps afterwards.
  `GovernorInv` weakens "ought to be restricted" to `Justified`: or has still to be visited, or a snapshot is being applied or the
  configuration saved; and adds
  that apps without windows have neither scopes nor deadlines (`OnlyLive`) and are
  not visited (`WalkLive`). `RetrackOwned` says that no scope stays restricted after
  its app has lost it, `ReconcileCovers` that a reconcile of all live apps justifies
  whatever there is, `VisitStep` that each visit keeps it so.
* `GovernorWhole`, `GovernorForgetsNone`: `SettledInv`, that each app the walk under
  way has not still to visit is whole and not forgotten. `StepsFromUp` sorts the
  steps: those that leave nothing settled begin a walk of all live apps, a
  visit settles one app and (its scopes being private) disturbs none.
* `GraceRespected`: `QuietInv`, that an app that is focused or within its grace has
  nothing on its scopes and no deadline that is due, or was just focused and is
  still to be released. `DueWalk`: `process_pending` visits only apps whose deadline
  is over, which is why a stale list does not matter. The property excepts apps that
  share scopes (`Apart`): the first attempt at this proof showed that two apps in
  one scope need not each have a grace (see the differences listed above).
* `GovernorDurable`: a save under way is the only time at which the file differs, and
  its end writes what was put in force; every other step loads or touches neither.
  A kill inside a save is the exception the property makes.

**Feed.** `TableCatchesUp`: no event needs to be true when it is handled, since the
bootstrap fetch overtakes events and a lost stream swallows them. `Arrives` says
instead that for each window the *last* queued event that speaks of its app (its
focus, the focused id) says what is so, and that where none does the table is right
already. `FeedTypeCorrect` has `Tidy` beside the types: a closed window has no focus.
Windows in `marked` may be marked as focused beside the one that is, since no event
took the mark from them; windows in `taken` may keep their old app. For all others the
argument needs no assumption about which events niri sends with an upsert.
`CopiesAreAttributed` adds `CopyArrives` and `CaughtUp`: as long as a copy is `known`,
what is on its way changes nothing in the table. A copy is `known` only if `marked` was
empty and its window not `taken`: `focused_id` is certain then and not otherwise.

**Desk.**

* `TrayCatchesUp`: the invariant speaks of a loop that still has to push.
* `NothingComesLate`: `QueueInv`, that a waiting GUI without an answer is the last in
  the queue, and after an answer the queue is empty. A GUI that gave up remembers it
  (`failed`) until its next success, which queues behind what it gave up on.
* `EditsAreKept`: `EditsInv`, that an unsaved draft differs from the state received.
  The proof did not go through at first, because a click on the kill switch may
  bring the two together: the history variable `unsaved` was wrong there and has
  been corrected; the code was right.
* `ActiveModeStays`, `RenamingIsNeutral`: `AllDefined` follows the configuration
  through both queues, the answer and the draft. They have the hypothesis that the
  first configuration names one of its presets, as the built-in one does and every
  one saved after it; a file written by hand need not.
* `SavedSurvives`: outside a save, and if the last one succeeded, the file would be read
  as the configuration in force.
* `DeskImplementsSettings`: each step is one step of `Settings` or none; what is asked
  is what the queues hold, so a request leaves the sequence when it is handled,
  not when its sender gives up. A stop, inside a save or not, is
  `Lose`; the start after it changes nothing, since the value is the file's already.

**Tdp.** `SuccessIsInForce`, `LimitsStayOrdered`: `HelperInv`, how far each helper is and
what it has put in force if it runs alone; its arguments are in order before it is
started, whatever the sliders show later. `InstallIsWhole`: `InstallInv`, what the
calls of the script behind the current one have put in place.

**Setup.** `SetupInv`: how far the operation under way is (`Progress`, with what holds
after each of its calls), and that a window that looked after the last change of
the package knows of it (`Knows`). `ReportedInstallIsReal` and `CleanRemoval` are what
`Progress` says at the last call, `PackageStaysInFront` what `Knows` says at any.

**Meter.** A tick is a pipeline of seven steps; `SampleTicks` splits it into named
relations between the meter before, with the counters added, with the bucket
closed, and after the transition (`Tick`), and every part of `MeterInv` is proved
from those.

* `WrapsAreExact`: `CounterInv`, that the counter is what it was at the last reading and
  what was used since, less whole ranges; `OneWrap` is the arithmetic.
* `TimelineStaysInOrder`: the bucket in progress was opened after every point, so that a
  new point is newer than all; the file's timeline is in order too, for a restart.
* `CrashesAreCheap`: `UnsavedInv`, that only the newest `sinceSave % SaveEvery` points may
  be newer than the last attempt to save.
* `AveragesArePlausible`: the bucket in progress is plausible; sums of plausible
  energies are (`PlausibleSum`).
* `CountersAreHonest`: `FileCounted`, that the file is behind what flowed for each side
  whose start it holds and no crash has made doubtful; the tick's three outcomes
  of saving (`TickFile`) are the cases. `SessionInv` is what makes the counters equal
  without a restart: the side the machine is on always has a session.

`AverageIsPlausible` and `CrashLosesLittle` are stated so that they mean something for any
constants (bounds of all readings; a number of points), not by way of a minimum or a
recursive filter.

Only model-checked: `EventuallyRestricted`, `CatchesUp` and `EventuallyAgree` (liveness
under fairness is out of the prover's reach), and the four violations. `Units` has no
theorem: what it states is what the code violates.

## Not modelled, and the plan

Left out of the models:

* A `config.toml` longer than what one write call stores: a save is two steps, so that
  a torn file is an empty one. Nobody else edits the file inside a save, and in
  `Desk` it is not deleted (`Governor` has both edits and deletion).
* `Desk`: `Reload`, SIGHUP and hand edits (they are in `Governor`), an accept loop that
  fails, several GUI windows.
* `Feed`: what the events do to scopes (`Governor`), the primary selection.
* `Units`: processes that change during one walk, several apps, the list of names.
* `Tdp`: firmware that ignores a write, unreadable registers, a helper left behind by
  a window that was closed, another window that runs the binary being replaced.
* `Meter`: a wall clock that jumps, the clock that stands still in suspend (a long
  tick stands for a stalled loop), the psys twin of the package counter, values that
  are only shown. After a RAPL read that failed, the next result divides the
  energy of two intervals by one; `WrapIsExact` is about the energy only.
* `Setup`: service operations and the TDP installation wait on one thread; each is
  modelled as if the other were not running.
* Icons, layout and wording, argv dispatch, battery and CPU topology readers, the
  listing of `system_scan.rs`: they keep no state that decides anything.

Plan:

1. `Units`: what does hold of the cache (a pid resolved when no protected process was
   there), as an invariant and a theorem.
2. Lemmas about the operators `Governor` and `Desk` share (`ResolveProfile` under edits of
   presets and rules), stated once in `ConfigProofs`.
