# camera-box in TLA+

A verification development for the `camera-box` daemon (`src/src/*.rs`): TLA+
modules for the parts of it that are hard to test, model-checked with TLC on
small instances, and theorems about them checked by TLAPS.

`PROJECT.json` lists the runs, for every definition the lines of code it stands
for, the hazards of the code with the properties that watch them, the findings,
and for every checked property a mutation of the code's model that breaks it.

- [The system](#the-system)
- [Modules](#modules)
- [Runs](#runs)
- [Findings and known limits](#findings-and-known-limits)
- [Fairness](#fairness)
- [Proofs](#proofs)
- [Abstractions and assumptions](#abstractions-and-assumptions)
- [Not modelled](#not-modelled)
- [Plan](#plan)

## The system

One process, `camera-box`, runs three long-lived tasks on the tokio runtime,
`camera::run` (hotplug), `button::watch` and the axum server, plus a task for
every HTTP request and one supervisor for every stream. They share `AppState`.

| Component | Code | State | Operations | Hard behaviours | What makes it correct |
|---|---|---|---|---|---|
| Camera registry | `camera.rs`, `config.rs` | `AppState.cameras` (RwLock), `AppState.persist` (Mutex), `state.toml` | `handle_add`, `handle_remove`, `set_enabled`, `set_mode`, `set_stream_auth`, `reconcile`, `persist_snapshot`, `PersistState::load`/`save` | the two locks are never held together while saving; a request is dropped at an await when its client leaves; the file is written in place; ids that several nodes share | distinct, stable, sticky ports; nobody waits beside a free port; choices survive a restart |
| Stream supervisor | `stream.rs` | one task and one `ustreamer` child for each stream; `StreamRuntime`, `StreamSettings` and `Notify` shared with the registry | `spawn`, `supervise`, `stop_child` | cancellation is not awaited, so an old and a new supervisor overlap; `select!` between exit, cancel and restart; ports of children that are still dying | one supervisor for a stream; settled streams have the latest settings; the status is true; streams are served in the end |
| Hotplug monitor | `camera.rs` | netlink socket, a batch of actions | `initial_scan`, `monitor_loop`, `parse_uevent` | events before the socket is open, while a batch is applied, or too many for the socket; a node probed later than its event | the list converges to what is connected |
| V4L2 probing | `camera.rs` | none | `evaluate_path`, `inspect`, `pick_format`, `enum_modes`, `initial_settings` | failing ioctls; lists that are empty, unordered or not discrete | only USB capture nodes; first settings that `set_mode` would take, if the first size has a rate |
| Access point, network | `net.rs`, `web.rs` | `AppState.ap`, `network.toml`, files under `/etc`, processes on `wlan0` | `set_ap`, `network_hotspot`, `network_connect`, profiles, `set_hostname`, `sync_ap_config` | lock released before the settings are applied; sequences of commands that fail, are dropped or interleave | memory, files and hotspot agree; `wlan0` is what was asked of it |
| Factory reset | `net.rs`, `main.rs`, `web.rs` | the saved files | `factory_reset` | the daemon still holds and saves what was deleted; AP files written from both sides; stops between the steps | nothing of the user's is left after the reboot |
| Reset button | `button.rs` | the time held | `watch` | the interval catches up on late ticks; a read error counts as a release | a reset needs the full hold time, and a full hold resets |
| Self-update | `update.rs` | files in `/tmp`, the installed binary and its `.bak` | `run_update`, `install_atomic` | two updates at once; dropped requests whose curl goes on; a stop between the steps | the installed binary is complete, verified, newer than the process that installed it, and started |
| Login, sessions | `auth.rs`, `web.rs`, `main.rs` | `auth.toml`, credentials, session map | `login`, `validate`, `logout`, `set_credentials`, `reset-password` | file, memory and sessions change one after the other, under three locks | a change of account ends its sessions and survives restarts |
| Pure algorithms | `net.rs`, `update.rs` | none | Wi-Fi scan parser, `validate_ap_ip`, `dhcp_range_of`, `parse_ver`, `update_etc_hosts` | boundaries, missing and repeated lines | equal to reference definitions |
| Log buffer | `logs.rs` | ring of 500 records | push, read | capacity | the newest records, in order |
| System information, dashboard, configuration, scripts | `sys.rs`, `web.rs`, `config.rs`, `scripts/` | none at run time | | pure I/O, presentation | not modelled |

How they interact: the hotplug monitor calls the registry's `handle_add` and
`handle_remove`; the web handlers call the other operations; `reconcile`, inside
the registry, spawns supervisors; a supervisor reads the settings and writes the
runtime of its `ManagedCamera`; the web handlers read both. The registry saves
itself through `persist_snapshot` after every operation but a removal. The network
handlers share `AppState.ap` and then only the box itself: files under `/etc`, services,
interfaces. The factory reset, from the dashboard, the button or a shell, removes the files
of all the others, who go on holding what was in them until the reboot.

## Modules

| Module | What it is | EXTENDS |
|---|---|---|
| `CameraOps` | the registry's data and the state change of every handler, as operators | |
| `Registry` | the registry, its memory and its file as a state machine: handlers, saving, stops, boots | `CameraOps` |
| `PortLease` | what the registry promises about ports, without saying how | |
| `ReconcileLoop` | `reconcile` as the two loops it is written as | `CameraOps` |
| `Streaming` | registry handlers, supervisors, notifications and children as a state machine | `CameraOps` |
| `Hotplug` | scan, socket, event loop and kernel as a state machine | |
| `SelfUpdate` | requests, their downloads, the files and the process as a state machine | |
| `AccessPoint` | Wi-Fi requests as programs of commands over shared files, services and interfaces | |
| `Sessions` | the account, its file and the sessions; also a specification of its own | |
| `FactoryReset` | resets, the saved and held state, boots; composed with the login | `Sessions` |
| `ResetButton` | the polling task, its timer and the button | |
| `WifiScan` | the scan parser, which reads one line a step | |
| `HotspotAddress`, `Versions`, `CaptureModes`, `HostsFile` | pure functions of the code and what is right for each | |
| `Algorithms` | one call of one of these functions as a behaviour | `CaptureModes`, `WifiScan` (and instances of the others) |
| `MCRegistry`, `MCStreaming`, `MCHotplug`, `MCAccessPoint`, `MCScan` | values of the constants for TLC | the module |
| `MCAlgorithms` | the same; beside the functions it runs the loops of `reconcile`, one call of either in a behaviour | `Algorithms`, `ReconcileLoop` |
| `CameraOpsProofs` | lemmas about the operators of the registry, and about finite sets of numbers | `CameraOps` |
| `RegistryProofs`, `StreamingProofs` | theorems about these modules | the module, `CameraOpsProofs` |
| `HotplugProofs`, `SelfUpdateProofs`, `AccessPointProofs` | theorems about these modules | the module |
| `FactoryResetProofs` | theorems about the login, the reset and the button | `FactoryReset`, `ResetButton` |
| `AlgorithmsProofs` | theorems about the pure functions, the scan parser and the loops of `reconcile` | `Algorithms`, `ReconcileLoop`, `CameraOpsProofs` |

**CameraOps.** The Vec of `ManagedCamera`, which the code keeps sorted by video
index, is a partial function from node numbers to records: iteration in Vec order
is iteration in number order. `cancel.is_some()` is `streaming`. `PersistState` is a
partial function from ids to rows. `Reconcile` says without loops what the two
passes do: a waiter gets its remembered port if it is free and no lower node that
waits remembers it (pass 1); then the waiter with *k* waiters below it gets the
free port with *k* free ports below it (pass 2). `ReconcileLoop` checks that this
is what the loops compute. `Reconcile` has no recursion, so theorems can use it.
A camera has its `Advertised` modes, each a size with a rate, and its `FirstMode`: the first size with the first
of its rates or, if the driver gives no rate for that size, with the rate of `config.toml` (camera.rs:640), which is then not
advertised. Each mode of a size without rates is refused by `set_mode`, so such a size adds nothing to
`Advertised`; `NoMode` is the first mode of a camera that lists no size at all, for which any mode is accepted.

**Registry.** One action for each handler, and separate actions where the code
lets others in. A handler's critical section (write lock of `cameras`) is one
action that leaves its snapshot in `pend`; taking the `persist` mutex, inserting
the rows and opening (truncating) the file is `InsertSnapshot`; the end of the
write is `FinishSave`. In between, other handlers run, the daemon may stop
(`Crash`), opening or writing may fail (`InsertUnsaved`, `WriteFails`), and a
client may leave, which drops its handler's future where it awaits: queued for the
mutex (`Disconnect`), or inside `set_enabled(false)` at the runtime lock, after the
record was changed and before `reconcile` (`DisableDropped`). `Boot` loads what the
file yields (a torn file: any of its rows), scans and adds.
`handle_add` reads the remembered row under the mutex, so it waits for a save.

**PortLease.** Holders come and go; those that stay keep their lease; leases
are distinct; holders without a lease imply that every port is leased. `Registry`
implements it with *wants* = the enabled cameras and *lease* = the ports of streams.

**Streaming.** `sups` is the sequence of live supervisors, oldest first, each
with a `pc` at the awaits of `supervise`. `NotifyOne` is tokio's `notify_one`: it
picks the waiter that registered first, or stores a permit; a `Notified` future that
was picked and is dropped hands on its notification. `select!` takes any branch that
is ready. A child binds its port (or dies, when another process holds it), serves,
is killed, and holds its port until it is dead. `Budget` bounds the disturbances
(requests, hotplug, crashes of children, failed spawns).

**Hotplug.** `pc` follows `run`: read the directory, probe, sort, add, open the
socket, then wait, drain, apply. A node is probed when its event is read. The
kernel's queue has `QueueCap` places; overflow raises `ENOBUFS` once, which `recv`
returns before the queued events, and the kernel drops everything until the queue was
emptied. `lost` records that an event or a probe was lost.

**SelfUpdate.** A task is a request of `apply_update`; its `pc` is at the awaits of
`run_update` and at the copies of `install_atomic`, which run without an await but not in
an instant. A file on disk is the version it is of and whether all of it is there:
`bin` and `staged` and `bak` are cut off while they are written. A dropped request leaves its
curl behind (`orphans`), which goes on writing `bin`; two writers never leave a whole
file. The checksum compares what is on disk at that time with the sums that are. After the
rename, `current_exe` of the old process names no file (`replaced`). An install asks for that path once,
before it copies (`Locate`, update.rs:191): one that asks after the rename goes `astray`, and one that asked before
renames over whatever is installed by then. `Boot` may happen at any time and starts what is installed.

**AccessPoint.** A request is a sequence of steps (`Apply`, `Hotspot`, `Rename`,
`Connect`), each one command or one run of code without an await; each may fail, which
ends the request if the code uses `sh(...)?` and is passed over where it uses `sh_ok`.
Requests take their steps in turns. A client that leaves drops its request at any command it awaits
(`Drop`), a `hostnamectl` too; nothing sets `kill_on_drop` (net.rs:98-103), so that command goes on (`left`) and does
what it does at any later time, while other requests run (`Serve`). The daemon and the box restart. Files are named by the settings they were written
from, so is what hostapd and dnsmasq run with. `muddled` records that a
request on the built-in interface overlapped another or what one had left running, failed, or was cut off; a
`network_hotspot` that is undisturbed, with no such command left, ends it. `set_ap` holds the lock while it saves, which the other handlers wait for
(`Locked`).

**Sessions.** `Login` (verify) and `Insert` (open the session) are separate, as the code
takes two locks; `set_credentials` is `SaveOpen`, `Save`, `Store`, `Clear`.
`chosen` is the account whose change was confirmed last. `passed`, `crossed` and `lost` record the
exceptions the properties name.

**FactoryReset.** What is saved is seven parts and the account; of each, only whether it is the
user's own (`custom`, `memory`, `hotspot`). `Step` is the order of `factory_reset`. The daemon goes on
handling requests and hot-plug, saves from its memory, may stop, restart (`Load`, `Sync`) and write its AP
files over those of the reset. Its `AccountRequest` is the step relation of `Sessions`.

**ResetButton.** A tick is `POLL_MS`. The interval owes a reading for each tick that has passed
(tokio's default, burst); a late reading sees the line as it is when it is done.

**WifiScan.** One action for each kind of line, the closure `flush`, and the sort. A station begins with its
`BSS` line; those of its other lines that it has (`Told`) are read in any order, which is more than `iw` prints.
The parser takes every trimmed line that starts with `BSS ` for a new station, `BSS Load:` inside a block too
(`LoadLine`, net.rs:265); a name is `cut` when such a line came between those that tell of it.
Lines that match nothing change nothing, and are left out.

**Algorithms.** The inputs are all short ones around the edges: octets at 0, 99, 100, 200, 201, 254, 255, 256, 65536, with a
plus sign or no number; tags with two to five parts, whose numbers are below `Base`; drivers with no, one, two or three formats and
intervals; four lines of `/etc/hosts`. The state machine calls one function once, so that
each property is an invariant about its input and its output; the scan is the one call that takes several steps.
`MCAlgorithms` checks the loops of `reconcile` in the same run.

## Runs

| Run | Bounds | Properties | Shows |
|---|---|---|---|
| `registry_ports` | 3 cameras, 2 ports, 1 request beside the monitor, free interleaving | `PortsDistinct`, `WaitOnlyWhenExhausted`, `ImplementsPortLease` | competition for ports, sticky ports that collide, waiting |
| `registry_faults` | 2 cameras with up to 2 nodes, any cabling at boot, all faults | `StreamStateConsistent`, `RowsConsistent`, `NoPortMoved` | shared ids, torn and failed saves, dropped handlers |
| `registry_choices` | 3 cameras of which two change places in one USB port, 3 modes, a first size with and without rates, 1 credential; handlers one at a time, one node per camera, a port for everyone; stops at any point | `TypeOK`, `ChoicesDurable`, `DiskMirrorsMemory`, `ModeFitsPort` | under which conditions choices are durable, and where a mode comes from |
| `streaming` | 2 cameras, 1 port, 2 modes, 5 disturbances | `TypeOK`, `SupervisorsMatchRegistry`, `ModeAppliedWithPatience`, `StatusTrueWithPatience`, `EventuallyServed` | restarts, crashes, overlapping supervisors and a port that changes hands while its old child still holds it |
| `hotplug` | 3 gadgets, 2 nodes, queue of 2, 4 events, all faults | `TypeOK`, `ViewConverges`, `ListedUnlessLost` | scan, probe and event races |
| `self_update` | 2 requests at once, 3 in all, 3 releases | `TypeOK`, `InstalledIsWhole`, `BackupIsReplaced`, `NoDowngrade`, `UpdateStarts` | races, dropped requests, stops, failed copies, withdrawn releases |
| `access_point` | 2 requests at once, 2 settings, a dongle, 4 requests and faults in all | `TypeOK`, `HotspotAgrees`, `ModeAsAsked`, `ConnectedAsAsked` | interleaved commands, failures, dropped handlers, restarts |
| `factory_reset` | 2 account requests at once, resets from three sides, 4 requests and faults | `TypeOK`, `SessionsCurrent`, `AccountKept`, `ResetIsTotal` | a daemon that saves during a reset, stops, two resets at once |
| `reset_button` | 2 seconds to hold, 3 readings owed | `ResetNeedsHold`, `HeldButtonResets` | late readings, read errors, restarts |
| `algorithms` | the inputs described above; up to three stations with two names and two signals, each of which may be missing, up to two of them with `BSS Load:`; every registry of 4 nodes with a pool of 3 ports, remembered ports inside, below and above it | `ScanKeepsStrongest`, `GatewayIsNoLease`, `NewerIsNumeric`, `InitialSettingsWork`, `HostsKeepOthers`, `LoopComputesReconcile`, `UsedIsExact` | the pure functions at their edges, and the loops of `reconcile` |
| `scan` | up to two stations with one name | `EntriesAreStrongest` | violated: a secured network may be listed as an open one |

The bounds are the smallest with which the interesting cases happen: three
cameras on two ports are needed for one to wait and two to collide; two nodes with
one id for the first and the last to differ; four events for a queue of two to
overflow and an event to follow; five disturbances for a camera to be added, enabled,
disabled, enabled again and given another mode. Ports are real numbers just below `u16::MAX`,
so that the pool is small because it ends there, as in the code.
Four operations are enough in `access_point` for two requests to cross, one of them to fail or be
dropped, and the hotspot to be started again, and in `factory_reset` for a reset, a change that a
save brings back, and a stop. `SelfUpdate` stays small with two requests because each holds the others'
files for all of its steps. In `ResetButton` ten polls make the two seconds, and three owed
readings are enough for a burst.
`registry_choices` runs handlers one at a time, with one node for each camera and a port
for everyone: `ChoicesDurable` fails when one of these conditions is lifted.
Two of its cameras share a USB port, so that one resumes the row of the other; its mode is then one of the
other's, which is what `ModeFitsPort` says. The two properties
`...WithPatience` of `streaming` speak of the cameras outside `hasty`, those that were
never enabled before their cancelled supervisor returned; `streaming_mode` checks
`ModeApplied`, the same of all cameras.
Deadlock is checked in the `Registry` runs; the budgets of the others run out, which
is a stop of the model and not of the system.

## Findings and known limits

Two runs violate a property, each quoted from a comment:

| Run | Property | What happens |
|---|---|---|
| `streaming_mode` | `ModeApplied` | a supervisor being cancelled takes the restart meant for its successor, which keeps running with the old settings |
| `scan` | `EntriesAreStrongest` | the parser takes `BSS Load:`, inside the block of a station, for the next station (net.rs:265): the station is entered as read so far, and a later `RSN` or `WPA` line is not its own any more, so a secured network is listed as an open one |

Conditions of the passing runs that the code does not ensure; each was found as a
counterexample to the property without it:

- A handler releases `cameras` before it waits for `persist`, so an older snapshot may
  be saved after a newer one (camera.rs:434; `Overlap = TRUE` breaks `ChoicesDurable`).
- A removal may give a waiting camera a port, and nothing saves that (camera.rs:407; more
  cameras than ports break `ChoicesDurable`).
- A stop while `state.toml` is written loses choices saved before (config.rs:180). `ChoicesDurable`
  counts a stop at idle points only.
- Rows are looked up by USB port, so a new camera in a known port streams at once, and with the mode of the
  camera that sat there before, unchecked (camera.rs:345). `ModeFitsPort` speaks of the cameras of the port.
- A driver that lists a first size without rates gives a camera that size with the rate of `config.toml`
  (camera.rs:640), even when a later size has rates; `set_mode` would refuse it (camera.rs:462), against what the
  fallback is for. `InitialSettingsWork` and `ModeFitsPort` except this mode by name.
- Of a name whose block had a `BSS Load:` in between (`cut`), `ScanKeepsStrongest` says only that it is listed
  once, and not as secured when it is open.
- After the netlink socket overflowed, the monitor leaves the queued events unread and is not woken
  again (camera.rs:234): `congested` in `ListedUnlessLost`.
- Two updates at once write one download; the whole file of one may be replaced between its
  verification and its copy (update.rs:164-230). `raced` in `InstalledIsWhole`. Each has looked up its path
  before it copies (update.rs:191), so the later rename (update.rs:233) may put an older release, of an earlier query, over
  the newer one that the other installed; `NoDowngrade` promises then only a release newer than the process. A second update in
  a process that was replaced, but whose restart failed, copies to a name nothing starts (update.rs:191).
  Nothing is synced to disk: the models stop the daemon, not the power.
- A login that verified the old account opens its session after a change has ended the others
  (auth.rs:75): `passed`. Two changes that cross may leave file and memory with different accounts
  (auth.rs:103-104): `crossed`. A stop while `auth.toml` is written brings back admin / password
  (auth.rs:42): `lost`.
- Wi-Fi requests are not kept apart, so overlapping ones leave a mixture (`muddled`). The command a dropped
  request was waiting for goes on (net.rs:98-103): a `hostnamectl` may set the name after the hotspot was started with the
  old one. `HotspotAgrees` waits for an undisturbed start with no such command left. A rename starts a
  dnsmasq that was stopped, on a client interface too (net.rs:731, whose comment says "no-op if stopped"):
  `renamed`. A restart of the daemon ends the client connection without a trace in its memory.
- Something saved during a factory reset, a hot-plug of a camera for instance, survives it (`Undone`); a dashboard
  that hangs up during `hostnamectl` leaves a box that is half reset and not rebooted (`Abandon`).
- After a stall, a burst of readings may reset the box on a short press (`late`).
- `validate_ap_ip` takes octets with a plus sign, and `update_etc_hosts` takes a line of 127.0.1.10 for
  its own. A pre-release tag equals its release for `version_gt`.

Other behaviours that the models have, and that the conditions of the passing runs
are about:

- Two nodes with one id: a request changes the first node, a snapshot keeps the row
  of the last (`NodesPerCamera = 2` without `Overlap` breaks `ChoicesDurable`).
- An enabled camera waits, enabled and not streaming, when the pool is exhausted;
  what holds is `WaitOnlyWhenExhausted`.
- Two rows may remember one port, since the row of a camera that is unplugged keeps
  its port; a boot that finds both can honour one.
- A supervisor that is being cancelled may overwrite the status that its successor
  shares with it (`StatusTrueOf` fails for a camera in `hasty`).
- A camera plugged in between the scan and the opening of the socket is not listed
  (`"early"` in `Faults`, which sets `lost`).
- A disabling request that is dropped at the runtime lock frees a port that nobody is
  offered until the next reconcile (`"disconnect"` breaks `WaitOnlyWhenExhausted`).

## Fairness

Safety runs use `[][Next]_vars` alone. `Streaming` assumes weak fairness of each
supervisor's next step and of each child's start and end: the tokio runtime polls
tasks that are woken, timers fire, and the kernel starts and kills processes. It
assumes nothing of requests, crashes or hotplug. `Hotplug` assumes weak fairness of
the monitor task, again only that the runtime polls it when it is woken; `Wake` is
not enabled without a wake-up from the kernel. `SelfUpdate` assumes weak fairness of the synchronous
install of each request, which no client can interrupt, and of the restart that has been spawned; nothing
of downloads. `ResetButton` assumes that time passes and that the polling task is run when a
reading is due; the button may be pressed and released at will. `AccessPoint` and `FactoryReset`
state safety only: commands may hang, and no handler has a time limit.

## Proofs

TLC checks instances; the theorems are about every value of the constants: any finite set of video
nodes, any cameras, ids, modes, requests, settings, releases, queue lengths, budgets and faults. Each rests
on the named assumptions on the constants (`PathAssumption` and the others, which say what kind of thing a
constant is) and, where one more condition is needed, on a hypothesis in its statement. Each property
is also checked by a run, on the instance that *Runs* describes.

| Module | Theorem | States |
|---|---|---|
| `RegistryProofs` | `TypeCorrect`, `PortsStayDistinct`, `StreamsStayConsistent`, `RowsStayConsistent` | `TypeOK`, `PortsDistinct`, `StreamStateConsistent`, `RowsConsistent` |
| | `StreamsKeepPorts` | `NoPortMoved` |
| | `NobodyWaitsInVain`, `RegistryImplementsPortLease` | `WaitOnlyWhenExhausted`, `ImplementsPortLease`, if no request is dropped half-way |
| | `DiskStaysMirror` | `DiskMirrorsMemory`, if no write fails |
| | `ModesFitPorts` | `ModeFitsPort` |
| `StreamingProofs` | `StreamingTypes`, `SupervisorsStayMatched`, `ModeStaysApplied`, `StatusStaysTrue` | `TypeOK`, `SupervisorsMatchRegistry`, `ModeAppliedWithPatience`, `StatusTrueWithPatience` |
| `HotplugProofs` | `HotplugTypes`, `ViewAlwaysConverges` | `TypeOK`, `ViewConverges` |
| `SelfUpdateProofs` | `UpdateTypes`, `InstalledStaysWhole`, `BackupStaysReplaced`, `NeverDowngrades` | `TypeOK`, `InstalledIsWhole`, `BackupIsReplaced`, `NoDowngrade` |
| `AccessPointProofs` | `NetworkTypes`, `HotspotStaysAgreed`, `ModeStaysAsAsked`, `ConnectsAsAsked` | `TypeOK`, `HotspotAgrees`, `ModeAsAsked`, `ConnectedAsAsked` |
| `FactoryResetProofs` | `SessionsStayCurrent`, `AccountStaysKept`, `BoxStaysCurrent` | `SessionsCurrent`, `AccountKept`, of the login alone and of the whole box |
| | `BoxTypes`, `ResetStaysTotal` | `TypeOK`, `ResetIsTotal` |
| | `ButtonTypes`, `NoShortReset` | `ButtonOK`, `ResetNeedsHold` |
| `AlgorithmsProofs` | `LoopsComputeReconcile`, `UsedStaysExact` | `LoopComputesReconcile`, `UsedIsExact` |
| | `ScanStaysRight` | `ScanKeepsStrongest` |
| | `GatewayNeverLeased`, `NewerStaysNumeric`, `InitialSettingsStayRight`, `HostsStayKept` | `GatewayIsNoLease`, `NewerIsNumeric`, `InitialSettingsWork`, `HostsKeepOthers` |

**The hypotheses** of the registry's theorems are the conditions of the runs, for a reason each
(see *Findings and known limits*): a disabling request that is dropped frees a port nobody is offered; a
failed write leaves the file behind the memory. Without one of them the property is false, and TLC shows how.
`ChoicesStayDurable`, also in `RegistryProofs`, is a conditional result and not in the table: `ChoicesDurable` holds if
handlers run one at a time, no write fails, no request is dropped, each camera has one node and there is a port for
everyone, none of which the code ensures; and it speaks of the states in which no handler or save is under way.
What it adds is that nothing else loses a choice: overlapping saves, removals with more cameras than ports, and
cameras of several nodes each do, as do stops during a write.

**Registry.** None of the properties is inductive alone. A port is reclaimed from what a row remembers, so
`StreamStateConsistent` needs the rows in memory to agree with the pool and the flags; these come from the
file and from snapshots, whichever task inserts them and in whatever order; and snapshots come from the
registry. `IInv`, the conjunction, is inductive (`Invariance`). `CameraOpsProofs` has the lemma for each
operator. `ReconcileSound`: two waiters have different numbers of waiters below them (`RanksDiffer`), so the
ports they are offered differ. `ReconcileServes`: there is an element of every rank below the size of a finite set
(`RanksFill`), so as long as a port is free, the waiter of its rank gets it; `NobodyWaitsInVain` and the refinement
of `PortLease`, each step of which is a step of the lease or a stutter, rest on it. `ReconcileLeaves` says
that `reconcile` leaves every camera alone that does not wait, so whatever a handler did before it to one
camera, the streams of the others keep their ports. `ModesFit` and `RowsFit` say of cameras, snapshots, rows and
file alike that a mode was one of a camera of the row's port. For `ChoicesStayDurable`
(`Settling`), the only snapshot on its way is of the registry as it is, and once it is taken, so are the rows.

**The loops of `reconcile`.** `Reconcile` is stated by ranks, without loops; `LoopInv` says of each pass
that the nodes visited are the lower ones, that they are what `Reconcile` makes of them, and that `used` holds the
ports of all streams. In the second pass the lowest free port is, of the ports that were free before it, the one
with as many free ports below it as the node has waiters below it.

**Streaming.** A supervisor is tied to its camera by the cells it shares with it (`Tied`). Of two for one
camera at most one is not cancelled (`Clash`), and there are two only if the camera was enabled in haste. `Patient` says of any other camera
that its supervisor has the present settings, or has been notified and not looked yet, or that a permit
is stored for it; `pend` names the cameras whose settings a handler has changed and not notified yet, so that a
handler is proved part by part: change, `reconcile` with `Spawned`, `notify_one`.

**Hotplug.** A claim on a camera moves from the queue to the batch and from the batch to the list. `Follows`
says, from the scan on, that what the three claim together (an add claims, a later remove of its node takes back)
is what is connected, but for nodes that are still to be probed; `Phases` says what can be left to probe, queued or
batched at each `pc`. `ViewConverges` says the same of the time when the socket is open.

**Self-update.** That the file staged for a rename is whole rests on the check, the sums and the download
before it, at each step, and on there being one request at work as long as nothing raced (`Solitary`).
Every version on its way to the installed binary is above that of the process, races or not, and until the
process is replaced, that is the installed one's (`Ascending`); that an install is not of an older release than the
installed one either, once the process was replaced, needs `Solitary`, as the path it located is then still the right one.

**Access point.** `TasksOK` ties each step of a request to its program, and of a dropped request to the one
command that goes on. As long as nothing is muddled, at most one request is at work on the built-in interface, and
nothing that one has left (`Solitary`). `Resting` says that everything is right when none
is; `AtWork` says what has been made right by each step of the one that is. A hotspot that starts alone
ends the muddle, so its account (`Starting`) assumes nothing of what was before it. `Connects` is
the like for each client that connects alone on its interface.

**Login, reset, button.** While a change is between `Store` and `Clear`, sessions may be old, and so may a
login's account: `OldEnds` bounds that by `Clearing`. `FileLeads` says of the one change under way that the
file comes first, then the memory, then the confirmation. Every step of `FactoryReset` is a step of the login or
leaves it alone (`StepIsSessions`), so its invariant holds in the box. `WipedSoFar` says what a reset that nothing has
undone has removed by the step it is at, and `Forgotten` that nothing comes back after the reboot. `Counted`
relates the time the button was held to the ticks since it was last up for two of them, as long as no
reading was late.

**Pure functions.** `HighestRateFirst`: the first of the rates is one that none is above, which exists in a finite set
(`HighestExists`); `SeenBegins`: an enumeration sees a beginning of the list, up to the first entry at which it stops.
`DigitsCompare`: numbers in a base are compared by the first digit that differs.

**The scan parser.** A function that folds over lines would need an induction over data, which no
installed prover can instantiate; the parser is a state machine instead, and the induction is that of its steps.
After each line, what is entered is right for the stations before the one being read (`Best`), and of that one
all is known whose line has come (`Pending`). A `BSS Load:` may come behind the last of these lines, when the station is
entered already (`Ended`), or between them: then its name is `cut`, and what is entered explains less (`Spoiled`, `Partly`). `EnteredIsBest`: entering one more station keeps, for each name, the first of
its strongest.

**Only model-checked.** Liveness: `ListedUnlessLost`, `EventuallyServed`, `UpdateStarts`, `HeldButtonResets`. TLAPS
has neither ENABLED nor the fairness rules that they need. That the models do not deadlock where they may not is TLC's as well.

## Abstractions and assumptions

- Resolution and frame rate are one `Mode`; user and password one `Auth`. Which
  mode is a camera's first is a constant (`FirstMode`) in `CameraOps`; `CaptureModes` has how it is found.
- `base_stream_port` does not change between boots in `Registry`; `ReconcileLoop` has
  remembered ports outside the pool.
- A uevent and its handling are one action in `Registry`; `Hotplug` has what lies between.
- A torn `state.toml` may yield any subset of its rows: a prefix of TOML parses
  with the last tables missing, or not at all. Rows are atomic: a row cut in the middle
  lacks fields that are required, and the file does not parse.
- `StreamRuntime.pid` and `restarts` are left out; so is the text of errors and logs.
- SSID, passphrase and address of the hotspot are one `Setting`; one profile stands for all of them; a client with a static
  address is one with an address that is not the hotspot's. `rfkill`, link up and down and `unmask` are part of the step they
  belong to.
- A password and its salted hash are one `Account`; `random_hex` never repeats a token.
- A version is a number in `SelfUpdate`; `Versions` says how tags are compared.
- curl leaves a whole file or something else, and only when it wrote alone can it be whole. The kernel does not run a file
  that is open for writing.
- `ustreamer` is external: it binds its port, serves and exits.
- Of tokio, the order in which tasks that wait for a lock get it is left open.

## Not modelled

- The log buffer (`logs.rs`): one mutex, one critical section for each operation.
- System information (`sys.rs`), the dashboard and the status handlers: they read and present.
- Configuration: read once; its values are constants.
- Scripts and units: run outside the daemon; what they start at a boot is external.
- The checks of SSIDs, passphrases, interface and host names: they look at characters.
- A hotspot on a dongle, which the dashboard offers for any interface that can be one.

## Plan

Done: all the modules above; every safety property of the passing runs is a theorem.

Next: what of the liveness properties is safety, as theorems: the steps after which a hold can only grow (`ResetButton`), or an
installed update can only be started (`SelfUpdate`), and that from every state of `Hotplug` and `Streaming` that is not yet what
its property asks for, a step of the monitor or the supervisor leads nearer. More of `net.rs` and `web.rs`: a hotspot on a
dongle, and the status handlers, whose answers are made from several locks taken one after the other.
