# Cargopit in TLA+

TLA+ models of cargopit: the host program that reads a racing simulator's telemetry
and drives wheels, pedals, shift lights, fans and shakers with it, the daemon and the
files it depends on, and the TUI that configures, starts and stops it. The models are
translated from the Rust code. TLC checks them on small instances; TLAPS proves the
main safety properties of the loop, its telemetry, the scheduler, the control socket,
the loading of a profile, what devices show, the start of simd, the TUI's stop protocol,
its view of the games that run and its editors for every value of the constants.

Paths are those of the repository. `main.rs`, `devices.rs`, `games.rs` and so on
without a directory are under `crates/cargopit/src/`; `serial.rs`, `usb.rs`, `haptic.rs`,
`sound.rs`, `transport.rs`, `lua_host.rs` under `crates/cargopit-devices/src/`; `config.rs`,
`libconfig.rs`, `names.rs`, `simd_config.rs` under `crates/cargopit-config/src/`;
`app.rs`, `form.rs`, `schema.rs`, `process.rs`, `simapi_shm.rs`, `seat_sweep.rs`,
`tui_state.rs` under `tui/src/`.

    tlc -workers 2 -config MCPlayLoop.cfg MCPlayLoop
    tlapm TelemetryProofs.tla

Sections: 1 the system, 2 the modules, 3 the runs, 4 the proofs, 5 where code and
documentation disagree, 6 what the properties leave open, 7 what is not modelled,
8 what is left to do.

## 1. The system

### Processes and threads

* A **session** is one process, `cargopit play`. Almost all of it is one thread:
  `run_play` (main.rs) makes sure the daemon `simd` runs, installs the signal handlers,
  opens the control socket, and calls `poll_once` until that says exit. After every
  poll it sleeps `wait_ms`: 1000 ms while searching, 2000 ms after a mapping began, a
  few ms while mapping SIMAPI telemetry, 1000 ms for UDP.
* The **PulseAudio main loop** runs on a thread of its own, with the write callbacks of
  the sound devices.
* A **test**, `cargopit test`, is a process that plays made-up telemetry into devices.
* The **calibration**, `cargopit config tachometer`, writes a table file.
* The **TUI** is a process with a status thread and a watcher thread. It edits the
  configuration, starts, asks, reloads and stops sessions, through the control socket
  or by signals, starts tests and calibrations, and stops simd.
* **simd** is an external daemon, also a systemd unit, that feeds
  `/dev/shm/SIMAPI.DAT`. A simulator, or one of the C mappers of the external simapi
  library run by the session, writes the same record.
* No locks are shared between processes. Two sessions and a TUI may run at once.

### Components, their state and what makes them correct

| component | state | operations | hard part | what must hold |
|---|---|---|---|---|
| play loop (main.rs, games.rs) | phase, releasing, user_stopped, use_udp, map API, open devices, pending load | observe, apply_quit, apply_control, search, begin_mapping, mapping_tick, release, exit | what is seen or decided at the start of a poll is used after a key, a signal and a command were taken in the same poll | devices are held only while mapping and let go whole; a pause survives all but a reload; stop and signal end it; no history leaves it stuck |
| scheduler (scheduler.rs) | timers with due time, period, sequence | push, poll, clear | polls are late and uneven, timers are added with an old clock | no backlog, no burst, config order at equal deadlines |
| control socket (control.rs, tui/src/control.rs) | the path, a listener, queued connections | start, accept, serve, effect; request | several processes at one path, killed processes, callers that give up | an owner keeps the path; a told caller got what it asked for, once; nobody hangs |
| UDP path (udp.rs, acr.rs) | requested port, socket, queue | request, bind, receive, route | one packet per poll, a port that changes or does not bind | a mapping listens to the right port |
| SIMAPI session (simapi-sys/src/session.rs) | the view of the record (a descriptor and an address), the live frame | open, map, publish, hide and restore the view, clear | the C library may close and reopen the view whenever it is called | no copy to an address that cannot be written |
| profile (devices.rs) | open devices, shared serial ports, HID handles | open_profile, refuse, release | each part may fail to open; devices share a port | a port is open for its users, and counted right |
| sound streams (sound_host.rs, transport.rs) | a stream and a voice per device | connect, wait, render, free | the callback runs on another thread while the stream is set up, changed or freed | no callback meets a freed stream |
| device outputs (devices.rs, usb.rs, serial.rs, lua_host.rs) | per device what it last sent | tick, release | a report may be lost; some drivers send only what changed | the driver knows what the device shows; release leaves nothing on |
| haptic effects (haptic.rs, sound.rs) | filters, envelopes, decay | play, render | hits and fades run over frames | quiet when the car does not roll |
| tachometer calibration (tach.rs, cargopit-config/src/tach.rs) | the wizard, the table file | capture, write, read | two crates agree on points by arithmetic | the needle stands where it was put |
| simd start-up (simd.rs) | pid file, processes | ensure | check, remove and start race between sessions, systemd and the TUI | a live simd keeps its file; everybody ends |
| tyre check (tyres.rs, tui/src/tyres.rs) | attempts, the diameters file | load, measure, append, edit | read, extend and write over in place | no car twice; a write keeps the cars measured before |
| test mode (testmode.rs) | its plan | run | an effect shows only if the frames made for it reach it | each device shows its effect |
| configuration (config.rs, libconfig.rs) | the file | load, save | killed or cut off in the middle of a save; a hand-written file | always whole and readable; settings kept |
| TUI process control (process.rs, app.rs) | what it believes of the sessions, child, status thread | start, stop, restart, reload | a stop times out and escalates; answers are late and of another session | who lets go in time is not killed with its devices; restarts do not overlap; an old session's answer is not taken for the new one's |
| TUI games (simapi_shm.rs, app.rs) | mapping of SIMAPI.DAT, table of simulators, flow | watch, sample, bind | file, processes and telemetry agree only after a while | live means flow; settings follow the game |
| TUI editors (app.rs, seat_sweep.rs, tui_state.rs) | config in memory, cursors, one screen | every key of the screens | ticks, sweeps and sessions move what an open editor points to | unsaved edits go only where the user sends them |
| device form (form.rs, schema.rs) | one entry | change class, type, fields | form and host read an entry by code of their own | the host opens the kind, the serial port and the sink that the form shows |

### Interactions

    simulator, simd --> SIMAPI.DAT, UDP --> observe --+
    terminal (q) ------------------------> quit ------+--> phase --> load, tick, release
    TUI, service manager -- SIGTERM -----> quit ------+     |           |
    TUI, socat -- control socket --------> control ---+     |     ports, streams, reports
                                                            +--> scheduler
    session -- start() --> the path <-- start() -- another session
    session -- ensure() --> simd, its pid file <-- systemd, TUI stop_all
    session -- tyre check --> diameters.config <-- TUI
    TUI -- save_file --> cargopit.config --> session, test
    TUI -- arguments --> session, test, calibration --> table file --> session

## 2. Modules

Every specification has a small instance, in a module `MC...` and its `.cfg`, or in a
`.cfg` alone where only constants get values.
Definitions named `Fault...` are deliberately wrong variants of a definition
below them, a bug one could plausibly write there; no specification uses them. Each
property is seen to fail when such a variant takes the definition's place.

| module | what | code |
|---|---|---|
| `DeviceHold` | abstract: what a session promises about the hardware | |
| `PlayLoop`, proved about in `TelemetryProofs` | the play loop, one action per call of `poll_once`; it implements `DeviceHold` | main.rs, devices.rs, games.rs, udp.rs |
| `Telemetry`, `TelemetryProofs` = `PlayLoop` + `UdpPath` + `PublishMap` + `TyreStore` | the loop with the socket, the shared record and the diameters file it works on | udp.rs, session.rs, tyres.rs, tui/src/tyres.rs |
| `Scheduler`, `SchedulerProofs` | the timers | scheduler.rs |
| `ControlSocket`, proved about in `SessionStartProofs` | sessions and callers at one socket path | control.rs, tui/src/control.rs |
| `ProfileOpen`, `ProfileOpenProofs` = `SerialPorts` + `PulseStreams` + opening | a profile's devices opened one by one and let go | devices.rs, transport.rs |
| `DeviceOutput`, `DeviceOutputProofs` over `DeviceReports`, `MozaWheel`, `HapticEffects`, `LuaScript`, `ShakerBoard`, `TachWizard` | what a device of any kind shows after ticks, losses and release | devices.rs, usb.rs, serial.rs, haptic.rs, sound.rs, lua_host.rs, tach.rs |
| `PlaySessions`, `PlaySessionsProofs` | the TUI's starts, stops and reloads against sessions, with a clock | process.rs, app.rs, main.rs |
| `SimdStart`, `SessionStartProofs` | ensure() of two sessions, systemd, the TUI's stop | simd.rs, process.rs |
| `LiveGames`, proved about in `TuiProofs` | the TUI's view of SIMAPI.DAT, the processes and the game table | simapi_shm.rs, app.rs, simd_config.rs |
| `Editors`, `EditorsProofs` over `TestRun`, `HostArgs` | the screens, what they save, the tests they start | app.rs, seat_sweep.rs, tui_state.rs, testmode.rs, process.rs, cli.rs |
| `DeviceForm` over `HostEntry`, `ShakerBoard`, proved about in `TuiProofs` | the device form against the host's reading of the entry | form.rs, schema.rs, devices.rs, sound_host.rs, names.rs |
| `ConfigStore` over `ConfigFile`, proved about in `SessionStartProofs` | the parser and renderer, and the save with crashes | libconfig.rs, config.rs |

How state and actions correspond to the code, module by module:

**PlayLoop.** `pc` names the call of `poll_once` that comes next: `observe` (detection,
stale record, ACR bridge), `quit` (simfree_on_exit, then apply_quit), `control`
(try_accept and apply_control), `act` (what the phase does), `exit`. The struct's
fields are variables of the same names; `seen` and `simfree` are locals; `loaded`,
`timers`, `tyreTimer`, `tyreActive`, `pending` are DeviceLoop; `streams` the Pulse
session; `requested`, `socket`, `published` the UDP port, its socket and whether the
shared record holds a live frame. The environment (`SendSignal`, `TypeKey`, `Call`) acts
between any two steps; a simulator comes, goes or changes at every `Observe`. Any subset
of a profile's devices opens. PlayLoop refines DeviceHold by `held <- loaded, paused <-
userStopped, live <- pc # "gone"`; `ControlSocket` has what happens inside `Control`.

**Telemetry.** Each step of PlayLoop conjoined with what it does to the socket's
queue, to the view of SIMAPI.DAT, and to the tyre check, beside a TUI that edits and
writes the diameters file and packets that arrive. Every call of the C library, at a
detection, a mapping or a clearing, may leave the view as it was or replace
descriptor and address by ones of its own (`Left`), also while the address is hidden
from it; `Restored` then puts the old address beside whatever descriptor it left. The
library has the whole frame in its hands at each of those calls, so whether the frame
has tyre diameters when they are looked at is an input, never something kept. A car's
name is what the game gives as bytes, `Lossy` the text that is saved of it.

**Scheduler.** The struct's fields and four of history that only the properties read.
`Poll` reads the clock once, returns what is overdue in the sorted order and re-arms
it; the sort is modelled by what it yields. `Clear` keeps the sequence counter, as the
code does.

**ControlSocket.** `start()` is four actions because it is four system calls: `Probe`,
`CheckPath`, `RemovePath`, `Bind`. A probe's own connection is later served as an empty
command, as in the code. `Accept`, `Drop` or `Answer`, and `Act` are one poll's service;
`Quit` is possible only between them, since a signal is looked at once per poll and
does not interrupt the blocking read. `Kill` is SIGKILL or a crash anywhere.

**ProfileOpen.** The entries are considered in order, each kind with its own
conditions and ways to be refused; `SerialPorts` is the table of slots with its counts
and the files that are open, `PulseStreams` the context, the streams, the lock of the
main loop, the callback thread. What the hardware and the sound server answer is
open at every step.

**DeviceOutput.** `mem` is the driver's memory of one device, `shows` what each of
its channels shows, or `Unknown` after a lost report. `Tick` is the writer of the
device's kind, `Release` what `LoadedDevices::release` sends; the calibration runs
between loads.

**PlaySessions.** A session is its phase, the time left of what it does, its signal,
its configuration and how it is fed (frames or UDP); the TUI is what it does (calling,
polling a child, settling), with a deadline. Everything in time is a wait of the code,
in ticks; which of two waits is the longer is left open by the module's assumption. The
status thread asks and forwards on its own; an answer remembers whether the TUI has
put another session in the answering one's place since (`stale`). Two histories serve
the properties: `before`, the sessions the TUI is about to replace, and `needs`, for
how long a session that the TUI tells to end may go on holding devices.

**SimdStart.** `pc` of a session is a step of ensure(); `simd[p]` the process that p
(a session or the unit) launched; `stopper` and `cleaner` are the TUI's stop_all and its
removal of stale files, system call by system call.

**LiveGames.** The file is its content; `mapping` the content the TUI has mapped;
`events` what the watcher has seen and the TUI has not. A tick is one step. A list of
games is a set of games with their places, as only its order and its first matter.

**Editors.** One action per key that changes state, on the screens where it is
accepted; `data` (config, files), `settings` (flags by game), `place` (screen and
cursor), `editing` (form, draft), `sweep`, `processes`. `HostArgs` builds the
command line and parses it, without a `--config-index` for the dashboard's test
(`DefaultScope`), as the code does; `TestRun` is the test's plan with the profile it
falls back to, the frames, and which loaded devices they reach.

**DeviceForm.** The entry is a function from the keys it has. The form's operations
change it as form.rs does; `HostEntry` says which kind, port, stream and settings the
host makes of it.

**ConfigStore.** Tokens, tree, profiles; the renderer is a recursive function on values
that nest up to `MaxDepth`, the parser one on the places of a text, as the code's cursor
is; then load, edit, save step by step (make the temporary file, write, sync, rename),
a full disk, a kill, and a power failure that cuts off anywhere what was not synced.

## 3. Runs

| run | configuration | distinct states | properties |
|---|---|---|---|
| `play_loop` | MCPlayLoop | 608,868 | HeldIsDriven, PauseKept, HoldSpec, ExitsAsTold, EventuallyDrives |
| `scheduler` | MCScheduler | 574,717 | NoBacklog, FramesAreSpaced, ConfigOrder |
| `control_socket` | ControlSocket | 153,284 | UnracedStarts, ToldIsDone, NothingHangs |
| `profile_open` | MCProfileOpen | 8,137 | PortsAreCounted, PointersAreLive, HeldByLoaded, LoadEnds |
| `device_output` | MCDeviceOutput | 130,615 | DriversKnow, NeedleAsCalibrated, QuietWhenNotRolling, BlankAfterRelease |
| `stop_protocol` | MCPlaySessions | 5,904,931 | LetGoBeforeKill, ReplacedIsGone, OldAnswerDropped |
| `editors` | MCEditors | 1,173,637 | TestPlaysSaved, EditsSurvive |
| `telemetry` | MCTelemetry | 4,738,635 | CopiesWhereWritable, NoTwins, KeepsMeasured, SearchBindsPort |
| `device_form` | MCDeviceForm | 174,832 | OpenedAsShown, OutputsAsShown, NothingFallsBack |
| `simd_start` | SimdStart | 417,724 | StopLeavesNothing, PidFileKept, EnsureEnds |
| `live_games` | MCLiveGames | 231,936 | LiveMeansFlow, BoundGameRuns, SettingsFollowGames, FileIsMapped |
| `config_store` | MCConfigStore | 37,146 | FileIsWhole, SettingsKept |

All hold. Deadlock is checked where a system never stops (play_loop, profile_open,
device_output, stop_protocol, telemetry, editors: an ended process stutters or is
started again); elsewhere all may come to an end, or a clock or a count of changes
stops.

Bounds, and why they are enough:

* **play_loop**: five sightings, one per kind of simulator (in its menu, fed by simd,
  mapped directly, by UDP, Assetto Corsa Rally with a blank segment); one port, to have
  a socket bound, missing and kept; an ordinary and a sound device. `MaxTyped = 1`, as
  one byte is read in a poll; `MaxCalls = 2`, so that a stop waits behind another call.
* **scheduler**: a second of a few ms: intervals of 1 and 3 ms, repeated checks of 2 and
  4, polls up to 3 ms apart, so that a timer is on time, late, and late by more than
  a period; `MaxTime = 6` and three adds let timers drift apart and meet again.
* **control_socket**: two sessions, so that a start meets a running, starting, ended
  or killed one; two callers, so that one is served while the other waits.
* **profile_open**: eight profiles of four entries, in which every kind occurs and
  ports are shared, refused and reused, over a table of two slots (the code's is
  larger; what matters is that it fills) and three ports, one under two spellings; two
  polls of a settling stream.
* **device_output**: one device of any kind, all frames in any order; one lost report
  (`MaxLost`), one key and one run of the calibration; hits of two blocks and fades of
  two (`HitLength`, `FadeLength`). A driver compares only with what it sent last, so one
  loss at any place shows what it can do.
* **stop_protocol**: two sessions, two profiles. A tick is a third of a second:
  `SearchWait` 3 and `StartWait` 6 are 1000 and 2000 ms, `StopWait` 3 is the TUI's
  1000 ms, `CallTimeout` 2 its 500 ms rounded up. A mapping of frames sleeps for
  `PollTime` 1, one by UDP for `SearchWait`. A load takes up to `LoadTime` 3, the wait
  for one sound stream, with devices of the profile already held, and a release up to
  `ReleaseTime` 1. So a session may be told to end when it needs anything from none to
  all of the TUI's wait and more (4 ticks of a load and a release against 3), and the
  SIGKILL is seen to meet devices. Sessions and profiles are symmetric, and the
  properties safety.
* **editors**: two profiles, three changes (`MaxChanges`), which is what it takes to
  edit a draft, be moved by something else, and save it. `View` leaves out what
  nothing reads any more: a closed form, a screen no question goes back to, what an
  ended TUI had in memory.
* **telemetry**: one device that needs diameters, four sightings, one packet in the
  queue, one edit of the TUI, two cars, of which one has a name that is no UTF-8 and
  is saved as another. Signals and keys are play_loop's. `MCView` leaves out what
  nothing reads any more, and tells views of the record apart only by what can follow
  from them.
* **device_form**: entries after up to four edits of the fields that decide kind, port,
  speakers and modulation (`EditedFields`), from new entries and from hand-written ones,
  among them boards with motors at a position there is none of.
* **simd_start**: two sessions, one unit, one TUI, two polls of the wait for simd.
* **live_games**: two games, one started by wine; two events under way (`MaxEvents`),
  two rows, a hold and a refresh of one unit each. Frames are such that one may be
  taken for the other.
* **config_store**: one device and one edit more than the file has, and files as users
  write them: empty, with settings the TUI does not know at every level and of every
  kind, with keys that come twice, with an api that is no string. Values nest six deep
  (`MaxDepth`), which is deeper than any the run's files and edits make.

### Fairness

* `PlayLoop!FairSpec`: weak fairness of the loop's own step; one thread whose sleeps are
  bounded. Nothing is assumed of the simulator, the user or callers.
* `ControlSocket!FairSpec`: weak fairness of a running session's steps, and of a
  connected caller's `Speak` and `ReadReply`. That a caller speaks or closes is an
  assumption the code does not enforce: the accepted stream blocks without a timeout, so
  a silent caller holds the session, and signals with it. `request_at` sends at once.
* `ProfileOpen!FairSpec`: the host goes on, and gets the main loop's lock in the end
  (strong fairness, since the callback thread takes it again and again); the sound
  server answers a stream or refuses it in the end, but the context may never settle
  (the 50 polls are counted).
* `SimdStart!SimdFairness`: the sessions and the TUI run; the parent that starts simd
  comes to an end. systemd need not act, simd need not live.
* `LiveGames!Fairness`: the TUI's loop goes round and the clock goes on. The watcher's
  events may be as late as they like.

## 4. Proofs

These hold for every value of the constants that satisfies the named assumption of the
module: sound devices are devices, sightings are well typed and the bridge port is a
port (`PlayLoopAssumption`); periods are positive (`SchedulerAssumption`); `Nobody` is no
session and no caller; names that stand for different things differ; the limits of
queues, files and clocks are natural numbers; every entry of a profile has a class and
an enabled flag, as the TUI's struct has (`EditorsAssumption`); devices and frames are
of the types `Device` and `Frame`, where a threshold is not below zero and a granularity
that a host entry can yield (`DeviceOutputAssumption`); a key of a number has one, and
the form opens no text for a combo (`DeviceFormAssumption`, begin_edit); the file the user
begins with can be read, as the TUI ends at once on any other (`ConfigStoreAssumption`).
`PlaySessionsAssumption` says of the waits only that they are positive: no order among them
is assumed, since the code guarantees none (a load takes up to 50 polls of 20 ms for each
sound stream, with a thousand milliseconds before the TUI's SIGKILL). `TyreStoreAssumption`:
the text saved of the empty name is empty, and simulators have positive numbers.

**TelemetryProofs, the loop.** The inductive invariant `IInv` is the conjunction of
`HeldOnlyWhileMapping`, `DrivenIsLoaded`, `PausedIsQuiet`, `ReleaseEndsWithPoll` and
`ExitDecided`. None of the first four is inductive by itself: that a paused search
holds nothing needs that a release which the key began is still to come, and that
leaving `Mapping` lets go; the exit clears the record only because `simfree`, computed
before the key was read, still agrees with phase and devices where it is used. From it
follow `TypeCorrect`, `InvCorrect`, `HeldIsDrivenCorrect`, `PauseCorrect`,
`ExitClearsCorrect`, and `HoldCorrect`: every step is an action of `DeviceHold` or
leaves `held`, `paused` and `live` alone. The interesting case of the last is
`LoadConfigured`, which may open devices only because a pending load implies that none
is held, and a mapping that none is paused.

**SchedulerProofs.** `SchedulerTypeCorrect` rests on `IntervalType`: clamped fps keep
1000 div fps positive. `BacklogCorrect` and `SpacedCorrect` come from one invariant of
each timer (`PaceInv`) and what `NextDue` guarantees: later than now, at least a period
after the old deadline, and at most a period from now if overdue. `OrderCorrect` needs
`PushOrder`: the list is sorted by sequence and devices come first with rising indices,
so breaking ties by sequence is config order.

**SessionStartProofs, the control socket.** `UnracedCorrect` strengthens `UnracedStarts` with what a start
may rely on as long as nobody else starts: no other session is in `start()`, nobody
listens, and what `CheckPath` saw is still so when it removes or binds. `ToldCorrect`
needs that a call is with one session only (`WithOneSession`) and that a session
carries out one answered call before it serves the next (`OneAtATime`).

**TelemetryProofs, what the loop works on.** `TelemetryIsPlayLoop` shows that every step with its record, packets
and tyre check is one of the loop or leaves it alone, so the theorems about `PlayLoop`
hold of it (`TelemetryHolds`) and its invariant can be used in what follows.
`CopiesCorrect` is inductive as it stands, because nothing is assumed of the view:
whatever descriptor stands beside whatever address, after a library that reopened the
view, with the address hidden from it or not, each call of a mapper shows it no address
or one that mprotect has just made writable (`DatamapSafe`). `SearchBindsCorrect` needs that the socket is bound to what was
last asked for, or not at all, between the search and the mapping it begins.
`NoTwinsCorrect` is about lists: what the host appends was not found when it last looked
(`LeastIndex`: a car that is in the list has a first place, so the search finds it),
only the TUI writes between that look and the host's own write, and the cars the TUI
writes have no number for their simulator, so they match none. It is restricted to
names whose text is the name itself (`Replaced` are the others). `KeepsMeasuredCorrect`
rests on the same invariant: the list the host read is the file's or the TUI has
written since, and then the file holds no measured car (`AppendKeepsMeasured`).

**ProfileOpenProofs.** While a profile is opened the table of ports is what the counts must
agree with (`Table`): only entries up to the one under consideration hold or opened a
port, a port is in one slot, and a port in use is in the table. `PortsCorrect` follows,
as a port is looked for in the table before it is opened, and a table without room
maps its slots one to one to ports in use. `HeldCorrect` needs what an entry may hold
before its kind has decided (`InProgress`). For that, the kinds' ways through
consider_entry are first brought to seven cases (`ConsiderCases`): the entry passes,
takes or keeps a HID device, opens, loses or keeps a port, begins a stream.
`PointersCorrect` is about the two threads: a stream is freed only while the lock is
free or the host has it, and then no callback is under way (`StreamInv`).

**SessionStartProofs, simd.** `StopCorrect` is about the last step of a stop, so it needs what holds
from its SIGTERM on: no session of before the stop is in ensure() any more, and once
simd was killed none runs (`StopInv`). `PidFileCorrect` needs to know where a file
comes from: the simd it names serves (`FileInv`), because no session starts a simd
while one of its own is there, and what a remover has read is still the file unless
it was written since.

**SessionStartProofs, the configuration file.** `FileWhole` is crash consistency for any text,
any edit, any depth: the file is left alone but for the rename, and what is renamed
is the text the save rendered, synced and parsed before it began (`StoreInv`), so a
power failure finds nothing to cut off. The parser and the renderer are opaque in it: the
code too parses what it rendered before it writes (save_file). That a rendered text
reads back as the config it was made of is in `SettingsKept`.

**PlaySessionsProofs.** `LetGoCorrect` is an argument about time that compares no two of the
waits: `needs` is how long a session that is told to end can still hold devices, as its
phase and the time left say, and `Grace` what is left of that. `Grace` never grows along
a session's own steps and shrinks with the TUI's wait (`InTime`, `KillInv`), so one that
has devices at the SIGKILL needed the whole wait when it was told, or was never told and
began since. `ReplacedCorrect` follows the session that is to be replaced through the
means the TUI has, a signal to its child, a stop by the socket, signals by name
(`ReplaceInv`). `OldAnswerCorrect` needs that no session is known while an answer is older
than a restart (`StaleInv`): the tick that takes the answer clears the status before it
lists the processes again. The conjunction `SessionsIInv` was checked by TLC first
(`SessionsInvariant`).

**TuiProofs, live games.** `LiveCorrect`: what the TUI samples and the moment at which anything
last moved are two clocks that start together or one tick apart (`FlowInv`).
`BoundCorrect`: settings are bound to the first game of `resolve_games`, so it must be
shown that every game it can return was listed, or is idle: the telemetry's game only
where it was confirmed, with the test's node or without (`ResolvedAreListed`); and
that a list with games has a first one (`FirstIs`). Between two refreshes the list
that confirms is the list the property speaks of.

**TuiProofs, the device form.** The invariant `FormInv` says what an entry looks like that the
form made (`Made`): it names a class and a type the way `apply_defaults` does, and its
settings fit them (`Fits`): hardware the class and type may have, effects and
modulations the host knows, no id in a serial entry, no speakers but in a sound one,
where mask and pan agree. The difficult step is a change of class or type, which
keeps settings of the old kind: `KeptFits` shows that those fit the new one,
because a class is entered by its first type, and the only way to a serial wheel is from
another serial type, which names no hardware. That the mask agrees with the pan
is broken and mended within an action (`ClipKept`), as a change of the number of
channels rewrites both. `OpenedTold` and `AllNamesKnown` then follow by the host's
conditions for each class (`MadeKind`, `MadePort`, `MadeQuiet`). `OutputsTold` is about
entries of a file too: host and form clip mask, pan and number of channels to the
same speakers (`SpeakersAre`), whose labels are the places of the stream
(`LayoutsAre`), and light the motors the board drives at each position
(`MotorsAre`).

**DeviceOutputProofs.** Four properties of every kind of device at once. Each proof
splits on the kind of the entry and on what it was told.
`DriversKnowCorrect` needs `KnowInv`: a driver that is closed remembers nothing, what it
remembers is what its channels show, and a wheel that lost its mask is not armed. The
difficult kind is the R9, whose tick is up to five reports any of which may be lost,
and which remembers by parts (`DriveWheelParts`, `WheelTold`, `ConcatIs`).
`QuietCorrect` is not inductive: what a pedal, a board or a voice shows is quiet because
its filter is, and that it is so after a frame of a standing car whatever hits and
fades were under way is `QuietPlays`. It rests on `DriversKnow`, as a driver that sends
only changes stays silent where it thinks its device is.
`BlankCorrect` follows each writer of `LoadedDevices::release` (`ReleaseBlanks`).
`NeedleCorrect` is the arithmetic of two crates: the wizard's i-th target, the i-th item
of the table written, read and looked up by engine speed are one (`AskedRpm`,
`ElementOfPoint`) for granularities 1 and 2. Its invariant `TachInv` says that a file that
was marked with a spacing is whole and has its items in those steps, and
`CalibratedInv` that a session that loaded it has them too.

**EditorsProofs.** `EditsSurviveCorrect` is an action property of some fifty actions that share a
cursor and a screen. `FormSurvives` needs that an open form that is not new has its
device under the cursor (`FormInv`): a save would else go nowhere and the edit be lost.
That holds because nothing moves the cursor or shortens the list while a form, its
question or a sweep that was opened from it is on the screen; for that `PlaceInv` says
where each question goes back to, `SweepInv` where a sweep does. `FlagsSurvive` needs
`FlagsInv`: off the flags' own screen and its question there is nothing unsaved.
`ConfigInv` and the lemmas about lists (`AppendIsList`, `RemoveAtIsList`, `ExceptIsList`)
carry that the config has profiles of devices throughout.
`FormTestCorrect` is the first half of `TestPlaysSaved`: the command line the TUI builds
parses back to the profile and device it was built of, whatever flags come before them
(`TestAsked`), what is under the cursor on disk is what the form held (`Committed`),
and plan and load choose that one (`TestLoaded`).

Only model-checked:

* all liveness (the prover does none under fairness, and no ENABLED): EventuallyDrives,
  NothingHangs, LoadEnds, EnsureEnds, SettingsFollowGames; `ExitsAsTold` and `FileIsMapped`
  are of that kind;
* the second half of `TestPlaysSaved`, that every effect shows by the end of a test: it is
  about a fold of a driver over the frames of a script, which is induction over lists;
* `SettingsKept`: that a rendered text reads back as itself is induction over values and
  texts.

The type invariants of the modules without proofs are in the modules and were checked
with the runs' instances, not listed among them.

## 5. Where code and documentation disagree

1. A release must clear the shared record before rediscovery
   (docs/rust-port-plan.md:178). A reload during a mapping releases without it
   (main.rs:377), so the last frame stays live in SIMAPI.DAT while the loop searches.
2. The bridge that replaces a blank Rally segment by UDP (games.rs:1094) is applied to
   the sightings of a search only (main.rs:230). The next poll of the mapping sees the
   blank segment itself and ends the session; then the search starts it again.
3. A live owner refuses a second session (games.rs:244). Two sessions that start
   together both find no listener, and the later one removes the earlier one's live
   socket (control.rs:93). `UnracedCorrect` says this is the only way.
4. A stop sent to the socket stops the session (README.md:129). The reply is written
   before the effect is returned (control.rs:124), so a caller that gave up, as the
   TUI does after 500 ms of a poll of 1000 or 2000 ms, cancels the stop it had sent.
5. A device that is refused stays out (devices.rs:6082); but its serial file stays open
   in the table (devices.rs:3837), so the next entry on that port finds it busy.
6. The TUI shows and edits the diameters the host measured
   (docs/tui-device-management.md:77); it reads the host's sim number as text
   (tui/src/tyres.rs:78), so after its save the host no longer finds the car.
7. An update loop at 60 fps (README.md:191); by UDP it is one packet per poll of
   1000 ms (udp.rs:144), and the queue fills with older ones.
8. q stops a test (HOW-TO-USE.md:27); the test's halt is always false (main.rs:1055).
   Nor does it install signal handlers (main.rs:151): stopping one kills it, and its
   devices keep what they show.
9. A table calibrated at granularity 4 (docs/tui-device-management.md:64) is read one
   point late: its first entry is 250 rpm, at index 0, but the lookup takes rpm div 250
   as the index (usb.rs tach_element, tach.rs rpm_targets).
10. The TUI's calibration (README.md:141, 171) runs with its input closed (process.rs:375),
    so it ends at once and writes nothing, and the TUI reports success. It also
    offers limits below 2000, which the host refuses with exit status 0.
11. Unknown keys of a device are kept (docs/tui-device-management.md:99); a change of
    class or type drops them.
12. Playing and testing load the one *selected* profile (docs/tui-device-management.md:39).
    The dashboard's test passes no `--config-index` (app.rs:731, process.rs:319), so the
    host tests the first profile of the file (devices.rs:1153) whichever is selected; the
    tests of a device and of a form pass it. `TestPlaysSaved` takes the profile that the
    host resolves: what it says is that this profile's saved devices are played.
13. A USB Haptic device is offered by the form, the sample configuration
    (conf/cargopit.config:157) and the manual (docs/tui-device-management.md:157), validated
    and accepted; the host has no kind for it, warns that it could not initialize a USB
    device and leaves the slot empty (devices.rs:1932). The id and the path that form and
    manual ask of a USB device are read by nothing: wheels, pedals and tachometers are
    found by vendor and product or in sysfs (devices.rs:2729, 2966-3067), which
    docs/rust-port-known-quirks.md:12 says of the id.
14. After a save the TUI reloads when the session plays the profile and restarts it
    otherwise (app.rs:713). It asks nobody which session that is: between the last status
    and the reload another session, of another profile, may have come to the socket, and
    reads its own profile again.

Not documented otherwise, and worth a maintainer's look:

* `reorder_device` (app.rs:889) panics on an index that a longer list left behind.
* Typing "a", "y" or "s" in a profile's name adds, duplicates or saves.
* Retargeting a sweep from Tune leaves the form with a stale device; a game that
  changes while the question about unsaved flags is shown keeps them for the old game.
* Adding a row to the table of simulators when the file cannot be parsed saves the
  built-in stub over it; the rows' cursor is moved by the binding between ticks.
* `reset_idle` leaves a suspension's y velocity; the MOZA slip latch's clearing threshold
  has no effect; the G29's one-LED threshold lies above that of two
  (docs/rust-port-known-quirks.md:7).
* Kinds that are not blanked on release: C12, GT Neo, R5, KS, shift lights, wind,
  CSL and P1000 and SimNet pedals, scripted strips and Arduinos. `BlankAfterRelease`
  speaks of the others.
* A shaker board drives motors 1 and 3 of the labelled positions only; M2, M4 and both
  drive nothing, and an entry without motors is shown as M1 but read as M2.
* Form and host: "unset uses 2" channels against 1; an item shown as Haptic for USB
  without a type, which the host takes for a RevBurner; a wheel that keeps the
  subtype Revburner; lower-case "usb" shown as Sound; Moza wheels offered for USB, never
  opened; a negative mask; a frequency typed negative with a maximum of 0; fps
  outside 1..1000 accepted and clamped; both devid and devpath, of which the host takes
  the first; a stream ignores the entry's amplitude.
* libconfig: of a key that comes twice a set changes the first and a get reads the last;
  `-0x10` loses its sign; an api, name or sim that is no string is lost by a save; infinite
  or undefined numbers are refused only when the saved text is read again.
* A SIGKILL of the TUI (process.rs:384-397, after 1000 ms or 20 polls of 50 ms) can meet a
  session that holds devices: one by UDP sleeps 1000 ms between polls, one at 1 fps does
  too, one that loads waits up to 50 times 20 ms for each sound stream with other devices
  open (transport.rs:833-850), and one that has begun a mapping by UDP since the signals
  were sent was never told. The model's run shows such a kill; `LetGoBeforeKill` says that
  no other is possible.
* A C mapper that reopens the view while the session hides its address loses what it
  mapped: the old address, or none, is restored over it (session.rs:225-235). The new
  mapping leaks, the descriptor is that of one file and the address that of another, and
  frames are published nowhere, or to the file that was replaced, until the next mapping
  begins. No copy faults only because the session asks mprotect at the address itself. Had the
  mapper unmapped the old address, and had something else been mapped there since, the
  copy would go to that; this the model leaves out.
* Diameters are kept in the session's frame only. The C library, which is handed the whole
  frame at each poll, may drop them; when the check is over nothing restores them until the
  devices are loaded again. What is left in the frame when the car changes (a reload does
  not clear it) is taken for the new car's and saved under its name.
* A car whose name is not UTF-8 is saved under a text with replacement characters
  (tyres.rs:335), never matches that text again (tyres.rs:273) and is appended again by the
  check of each load; so twins of it collect in the file.
* The diameters file is written in place; a TUI's save between the host's second
  reading and its write is lost; a missing or unreadable one is never saved
  to; an infinite diameter makes it unreadable; an error of a TUI save ends the TUI.

## 6. What the properties leave open

* **EventuallyDrives** counts a UDP mapping as driving though no socket could be bound.
  **FramesAreSpaced** allows two frames closer together than the interval when the first
  was late. **ToldIsDone** is one-sided: a call that was not told may have been done.
* **HeldByLoaded, PortsAreCounted** allow the refused device's file (5.5). A Pulse
  context that settles after its 50 polls is never looked at again. HID devices are
  found by vendor and product only. A tachometer whose table cannot be read is loaded
  and shows nothing.
* **LetGoBeforeKill** exempts the sessions that need the whole wait or more (section 5);
  **ReplacedIsGone** one whose release takes two waits, 2000 ms, as long as the TUI is
  ready to wait for it. **OldAnswerDropped**: an old answer is shown if a start is asked
  for before the next tick, and a status answer is forwarded at once by the status
  thread. Tests are not in PlaySessions (a launch of one lists the processes too), and a
  session started elsewhere takes no place in the middle of a restart.
* **SearchBindsPort** is about sessions found by a search (`sought`): after a reload the
  same poll goes on with the sighting of the mapping it ended, an old socket stays, and
  a UDP game gets no telemetry by it. **KeepsMeasured** is about writes that end well
  with one host; a failed one may leave the file cut off. **NoTwins** leaves out cars
  saved by the TUI with a sim as text, names that are no UTF-8, and two hosts. Whether
  the check measures a diameter that is negative is part of "coasting".
* **TestPlaysSaved** is about the profile the host resolves (5.12).
* **StopLeavesNothing** lets a simd be left that a session or systemd launched after the
  stop began (`since`): systemd restarts a killed unit. **PidFileKept** exempts a file
  written after its remover looked (`fresh`), a race of check and removal that the code
  has. The TUI does not tick while it stops everything.
* **NeedleAsCalibrated** is for the granularities 1 and 2, when the device has that of its
  table (5.9).
* **EditsSurvive** is about the config in memory: a failed save marks the form as saved too
  (app.rs:1145). Sessions elsewhere are not followed, their outcome is any; screens of
  diagnostics, Lua, tyres, simulators and the raw file are one screen ("OtherSettings");
  text cursors are left out; repeated frames of a test are one; a filter measured on
  one amplifier may be applied to another, as a refused start sets the sink too; bound
  flags are in memory only until the state file is next saved.
* **LiveMeansFlow**: flow is compared without the game's identity, as in the code, and a
  file whose content is replaced counts as flow. Truncating the mapped file in place
  would kill the TUI by SIGBUS and is left out; so is that a tick may block.
* **FileIsWhole** is for one TUI: two would share `.cfg.tmp`. The rename is durable at
  once. The simulators' table is saved without being read again. What a user changed in
  the file after the TUI loaded it is overwritten.
* **OutputsAsShown** leaves out motors of a hand-written entry beyond the last position: the
  form shows them as the first, the board drives none. **OpenedAsShown** leaves out USB
  Haptic, and of USB devices the id and path (5.13). It assumes that no
  configuration file is named "none", which the host takes for no file. Values of
  another kind than the key's read as none in both programs and are left out.
* **QuietWhenNotRolling, DriversKnow**: a negative threshold, which the host reads as it is,
  is left out; ratios are small integers, the ABS pump and the
  suspension's filter are a sense that may or may not find a hit; halves of an R9's
  colour tables are one; its corners are remembered only with button writes.
* Lua: Message outlives a call, so a script that fails sends the old text again, and a
  script may overwrite TotalLeds; the conversion limits of numbers and strings,
  scripts without the function, and the simdata table are left out.

## 7. Not modelled

* The C mappers, simd, systemd, the Lua interpreter and the PulseAudio library: external;
  only what the session sees of them.
* Bytes of USB and serial reports, of the ACR packets and of the log: they follow from
  a report's content alone, and the repository has golden files for them.
* Oscillators, noise, harmonics and other floating-point signal code.
* Drawing of the TUI, text cursors and scrolling; finding binaries and their versions.
* Terminal raw mode, paths and their expansion, usage texts.
* Arduino sketches, but for the motors the haptic one drives; packaging, analysis
  scripts and the parity harness.

## 8. What is left to do

1. Tests in PlaySessions.
2. A refinement of ProfileOpen to the `loaded`, `streams` of PlayLoop.
