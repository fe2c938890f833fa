# Krypt OS in TLA+

Krypt OS puts every application in a Xen guest ("AppVM") and ties the machine to
a USB stick: the stick opens the disk at boot, and pulling it freezes, locks or
kills the system. This directory models the parts of it that have state and
concurrency: the daemon `krypt-daemon` with its socket, its configuration and
its policy engine, the emergency program `krypt-panic`, the tool `krypt-stick`,
the initramfs hook that boots from the stick, and the GUI protocol's surfaces and
buffers. TLC checks the models on small instances, and TLAPS proves their safety
for every value of the constants.

Contents: [inventory](#inventory) · [modules](#the-modules-and-the-code) ·
[runs](#runs) · [fairness](#fairness) · [proofs](#proofs) ·
[divergences](#where-code-and-documentation-disagree) ·
[not modelled](#what-is-not-modelled) · [plan](#plan).

## Inventory

| component | state | operations | correct when | |
|---|---|---|---|---|
| IPC dispatch and VM manager (`vm-daemon/src/{main,vm,ipc}.rs`) | connection tasks; VM table (state, domain id) under one tokio `RwLock`; `xl` processes; live Xen domains outside | status, list, start, stop, forced stop, policy check | requests are atomic although each spans up to two awaited processes; the daemon leaves no id of an earlier life behind; every request answered | modelled, proved |
| IPC framing (`vm-daemon/src/ipc.rs`) | a stream in each direction, what each end has read and has yet to write | write and read a frame, request, accept with backoff | a call is dispatched at most once and answered by its own reply; every call returns | modelled, proved |
| USB monitor (`vm-daemon/src/usb.rs`) | udev socket, known serials, channel of 32 events | read, classify, send | no removal of a registered stick is lost silently | modelled, proved |
| panic trigger and fallback (`main.rs` `trigger_panic`, `freeze_running_appvms`) | select loop; one panic at a time | krypt-panic, then inline freeze and system action | the level's action follows whatever fails | modelled, proved |
| `krypt-panic` (`panic/src/main.rs`) | a process per panic | lock; list + pause + suspend; list + destroy + wipe + power-off | listed VMs first, then the system; nuke always ends off | modelled; safety proved |
| systemd unit (`init/krypt-daemon.service`) | active, failed, inactive | restart on failure, control group kill | a restart does not invent or hide state | partly |
| configuration (`vm-daemon/src/config.rs`) | a parsed file, the tables filled from it | load, validate, load the tables | accepts exactly the well-formed files; every block counts | modelled, proved |
| policy engine (`vm-daemon/src/policy.rs`) | rules, trust map; written once | check | allow only by explicit rule, no rule silently without effect, unknown VMs are Red | modelled, proved |
| `krypt-stick` (`krypt-stick/src`) | key on the stick, page cache, LUKS slots | setup, add-backup, promote, revoke, list | stick and slot agree whatever step fails | modelled, proved |
| boot hook (`initramfs/hooks/krypt`) | retry loop, timeout | try every stick, fall back | a good stick opens the device; the passphrase only after the timeout | modelled; safety proved |
| boot agent (`initramfs`) | a file in `/run` nobody reads | write the stick's serial | - | no |
| GUI surfaces and buffers (`gui-protocol/src/{main,wayland}.rs`) | windows, one shm buffer each, two threads, the Wayland socket | create, update, resize, configure, ping, release, shut down | no protocol error; a buffer fits its picture and is never in flight for good; a signal ends it | modelled; safety proved |
| GUI Xen interface (`gui-protocol/src/xen.rs`) | stubs that return nothing | poll for dirty regions | - | partly |
| GUI input routing and clipboard (`gui-protocol/src`) | a focus field | no caller yet | - | no |
| desktop clients (`dotfiles`) | none | IPC requests with a timeout | - | partly, as clients |
| installer (`installer`) | disk, LUKS, mounts, worker threads | some twenty external commands | a failed step stops the sequence | no |
| ISO build (`build`) | none | - | - | no |

How they interact. Clients connect to `/run/krypt/ipc.sock`; the daemon spawns a
task per connection, all sharing the VM table. The USB monitor and the main loop
run on one `LocalSet` and are joined by an mpsc channel. On a removal the main
loop runs `krypt-panic` as a child and waits for it; meanwhile the IPC tasks go
on. Both ends act on the same Xen domains through `xl`, which knows nothing of
the daemon's table. systemd restarts the daemon unless it exits with status 0,
and kills its children with it. `krypt-stick` and the boot hook never run at the
same time: they meet in the LUKS header and in the 64 bytes at offset 512 of a
stick. The GUI protocol talks to the compositor alone.

What is hard here: a lock held over awaited processes; check-then-act over
awaits; a process that fails between two effects; domains that outlive the
daemon and guests that end or reboot on their own; a listing that is stale when it is
acted on; a bounded channel in front of a consumer that may be busy for minutes;
events lost in the kernel, in classification or with the process; a frame that
arrives in pieces and fails in the middle; a key that is on a stick before it is
in the header; a block in the page cache when the power goes; a slot chosen by
one process and filled by another; buffers that the compositor still reads; sizes
from a guest that overflow. `PROJECT.json` lists each at its line with the
properties that watch it.

## The modules and the code

| module | what it is |
|---|---|
| `VmService` | abstract: a VM table whose requests take effect in one step between call and answer |
| `KryptDaemon` | the VM manager behind its socket, await by await; the refinement mapping to `VmService` |
| `RpcCalls` | abstract: what one connection promises its client, without frames |
| `IpcFraming` | frames byte by byte over bounded socket buffers; implements `RpcCalls` |
| `PolicyService` | abstract: one look at the file, one reading served, its verdicts; no loops, no tables |
| `KryptConfig` | from `daemon.toml` to an answer of the policy engine; implements `PolicyService` |
| `StickGuard` | abstract: one alarm per noticed pull, the guests before the machine; no tasks, no processes |
| `KillSwitch` | from the USB port to the locked, sleeping or switched-off system; implements `StickGuard` |
| `StickSlots` | `krypt-stick`: keys on sticks and in LUKS slots |
| `KeyLedger` | abstract: the life of a key, from the draw to the revoke; no slots, no caches, no ports |
| `BootHook` | the initramfs hook, composed with `StickSlots`: a system that boots from what `krypt-stick` left; implements `KeyLedger` |
| `WindowShow` | abstract: what each window shows, and when; no threads, no queues, no flags |
| `GuiSurface` | the GUI protocol's two threads and the compositor; implements `WindowShow` |
| `Queues` | how many elements of a queue are in a set |
| `KryptDaemonProofs`, `KryptDaemonRefinement`, `IpcFramingProofs`, `KryptConfigProofs`, `KillSwitchProofs`, `BootHookProofs`, `GuiSurfaceProofs` | the inductive invariants and the theorems about the module each is named after |
| `QueueProofs` | lemmas about `Append`, `Tail` and `Count`, used for the daemon, the kill switch and the GUI |
| `MCKryptDaemon`, `MCKillSwitch`, `MCKryptConfig`, `MCGuiSurface`, `MCIpcFraming` | symmetry sets and constants for TLC; the `.cfg` files give the rest (`BootHook` needs none) |

**KryptDaemon.** One step is what a task runs between two awaits that another
task can observe. `Recv` is `conn.recv` and the entry into the lock's FIFO queue
(tokio's `RwLock` is fair); `Granted` takes the queue's head when no writer
holds the lock. `Query` answers status and list. A mutating request is either
`Refuse`d at once (unknown name, state guard, unwritable configuration file) or
begins its first `xl` (`BeginXl`) and keeps `writer`; `CreateDone`, `DomidDone`,
`DomidFails`, `ShutdownDone`, `DestroyDone`, `XlFails` are the returns of the
awaited processes with everything `vm.rs` does after each. `dom` is Xen's own
view: `xl create` fails for a name in use, `xl shutdown` succeeds before the
guest has ended, `GuestExit` may happen at any time. `watch` is the process that
`xl create` leaves behind for a guest: the configuration of `vm.rs:84-93` sets no
`on_reboot`, so it restarts a guest that reboots. `GuestReboots` ends the domain,
`GuestReturns` creates it anew under the same name and the next id, or fails to; in
between a guest is `Alive` although Xen lists no domain of it. The daemon is told
nothing, so its table keeps the id that `start` looked up. `Stop` ends the process
at any await, and what waits for guests with it, since systemd kills the control
group; `Start` registers all VMs as Halted. `lost` is a history variable: the
guests the daemon has stopped accounting for, until they end for good. The states Paused and
Crashed of `vm.rs` are never assigned by the code and are left out. The domain id
in a reply is the one of `VmStartResponse`; status and list answers copy the
table's, which `DomidCurrent` constrains: it is the live domain's id, or an older one
if the guest rebooted.

**KillSwitch.** `Plug` and `Unplug` put a uevent on the socket or lose it
(`Notify`); `MonitorRead` classifies it, and the serial may be unreadable after
the device left; `MonitorSend` waits for room. `MainReceives` begins a panic and
spawns `krypt-panic`, whose steps are `LockSessions`, `Hyprlock`, `ListVms`,
`StopVms` (one listed domain each), `WriteState`, `Wipe`, `PowerOff`.
`PrimaryReturns` looks at its exit status; `FallbackList`, `FallbackPause`,
`FallbackAct` are the inline path. `systemctl suspend` returns when systemd has queued
the job (`queued`); `Sleeps` is the job, which may run at any later time, during the
next panic for instance, or fail. `Signal` is SIGTERM, for the daemon alone or
for its whole control group; `Die` is the end of the process with all it owned;
`Start` is systemd's or the administrator's. `VmStarts` and `VmEnds` stand for
the VM manager and the guests, those that reboot and come back included. `born` and
`missed` remember which domains of the panic under way were created after its listing
and which a listing or a loop failed on, and keep that while a suspend it asked for is
still queued; `pulled`, `fired`, `dropped` count removals.

**IpcFraming.** A byte is a "cell" that remembers the message it belongs to, so that
a slipped frame is visible. `Request` is `IpcConn::request` up to its first
write; `ClientWrites` and `ClientReads` move one cell, `ClientHasHeader` and
`ClientHasReply` are what `read_frame` decides on, `ClientFails` is EPIPE or the
end of the stream, `Leave` a client that gives up (`krypt-vms.py` has a timeout) or
is killed. The daemon's side: `Accept` and `AcceptFails` (the doubling delay),
`TaskReads`, `TaskHasHeader`, `Dispatch`, `Reply`, `TaskWrites`, `TaskFails`. Both
sides refuse a body beyond `MAX_FRAME`, but a client of `Unchecked` sends it all
the same. What `KryptDaemon` does with a request is one step here. A
client uses one connection at a time, which is what the repository's clients do.

**KryptConfig.** `Load` reads the file as it is at that moment. The three loops of
`validate` run entry by entry (`CheckVm`, `CheckStick`, `CheckRule`), each with
its return at the first fault; `VmsChecked`, `SticksChecked`, `RulesChecked` pass to
the next one and reset or refill the one `seen` set. `LoadTables` fills trust
map, rules, VM table and known sticks, of two entries with one key the later one
staying. `PolicyCheck` is `PolicyEngine::check`. `EditFile` is the administrator's
editor, at any time; `Stop` and `Crash` end the process. `pc = "failed"` is an
error exit, after which systemd starts the unit again; `"down"` is a clean one.

**StickSlots.** `CheckGpt` and `Confirm` are setup's check and its prompt,
`AddBackup` the path without them; both draw a key and write it into the page
cache (`DrawAndWrite`). `Sync` is the fsync, `PickSlot` the `luksDump` that names a
free slot, `AddKey` the `luksAddKey` that refuses a slot in use, `Report` the exit
with status 0. `BeginRevoke` and `KillSlot` are the two ends of a revoke. Any run
may `Fail` at any step, and any number of runs interleave. `WriteBack`, `Plug`,
`Unplug` and `PowerLoss` are the kernel, the hands and the power; `media` is what
is durable, `cache` what is not yet. A key is a number that is drawn once:
`/dev/urandom` is taken not to repeat itself in 64 bytes. `told`, `written_over`,
`revoked` and `home` are history.

**BootHook.** `Glob` is the beginning of `_krypt_try_open`: without the LUKS device
(`disk`) the turn ends before any stick is looked at, with the mapper open it
succeeds, and otherwise the `for` over `/dev/disk/by-id/usb-*` is expanded, once.
`TryStick` is one round of it; in `ToolFails` `dd` or `cryptsetup` fails on a stick that
would have opened the device, and may have opened it all the same. `NoneOpened`,
`Wait` and `Fallback` are the end of a turn, `Prompt` the encrypt hook's passphrase.
`DiskComesOrGoes` is the LUKS device. `Tool` runs `krypt-stick` once the
system is up, `Hands` moves sticks at any time, `Off` takes the power and boots
again. `steady` remembers which sticks stayed in their port since the glob while the
LUKS device was there and no tool failed on them.

**GuiSurface.** The Wayland thread is one program counter: `Connect`; `BeginCreate`,
`EndCreate` or `CreateFails` for each window; then frame by frame `BeginFrame`,
for each window `UpdatePixels`, `UpdateWithoutBuffer`, `UpdateFails` or `Skip`, and
the roundtrip `BeginDispatch`, `EndDispatch`, `DispatchFails`. `HandleEvent` is
`Dispatch` for configure, ping, release and the roundtrip's callback, which only
run inside a roundtrip. `Resize` and `ResizeFails` are `resize_surface`, part of
the API although nothing calls it yet. `Signal`, `Join` are the main thread, `Leave`
the exit the flag causes. `ShmSize` and `FrameFits` are the two size checks, in
integers of `U32Max` and `I32Max`. The compositor (`Serve`, `FirstConfigure`, `Ping`,
`ReleaseBuffer`, `Disconnect`) is external: it does what the client relies on.

**The abstract modules.** Each says in one page what a component promises whoever
uses it, and its component is shown to keep that promise through a mapping written
at the end of the component's own module:

| abstract | implemented by | through | property |
|---|---|---|---|
| `VmService` | `KryptDaemon` | `Phase`: a request is answered by the step that ends its last `xl` | `AtomicService` |
| `RpcCalls` | `IpcFraming` | which call is made, served and answered, whatever part of a frame is where | `CallsAreOnce` |
| `PolicyService` | `KryptConfig` | `Phase` and `Policy`: the loops are one judgement, the tables are the file they came from | `ServesOneReading` |
| `StickGuard` | `KillSwitch` | `PanicStage`, `Stage`, `Owed`: what krypt-panic or the inline path has still to do; pulls are counted from socket, monitor and channel | `OneAlarmPerPull` |
| `KeyLedger` | `BootHook` | `Life` and `CopyOf`: where a key is, over all runs, slots, caches and sticks | `KeysLiveOnce` |
| `WindowShow` | `GuiSurface` | `Link` and `Stage`: the further of what client and compositor know of a window; its pictures are the commits under way | `EachWindowItsShow` |

The first two have the history the mapping needs in their own variables. The others
need no history: in `KryptConfig` the file taken is kept as the parsed `cfg`; a
pull is lost, in `StickGuard`, whenever socket, classification or process lose it; a
key of `KeyLedger` whose run failed is void; and a picture of `WindowShow` may be
shown again, since the compositor is handed the same buffer more than once.

Operators named `X_Y` are variants of `X` with a plausible fault. No
specification uses them; each, put in the place of `X`, makes one property fail.

## Runs

| run | constants | states | shows |
|---|---|---|---|
| `daemon_safety` | 2 connections, 2 VMs, 2 domain ids | 385,607 | TypeOK, GuardStillHolds, DomidCurrent, NoSharedDomain, LossAccounted, AtomicService, WaitersQueued |
| `daemon_liveness` | 2 connections, 1 VM, 1 domain id | 39,043 | EveryRequestAnswered |
| `daemon_force_stop` | 2 connections, 1 VM, 2 ids | | ForceStopKills is violated |
| `ipc_framing` | 5 kinds of request, header and buffers of 2, 3 calls | 56,516 | TypeOK, CallsAreOnce, CallsReturn, TasksEnd |
| `krypt_config` | some 700 files, 3 names, 3 serials | 24,693 | TypeOK, EveryBlockCounts, AcceptsExactlyWellFormed, RepairedFileServes, ServesOneReading |
| `killswitch_safety` | 1 stick, 2 VMs, channel 1, socket 1, 2 pulls, all levels | 349,551 | TypeOK, ListedVmsFirst, OneAlarmPerPull |
| `killswitch_liveness` | 1 stick, 1 other device, 1 VM, channel 1, socket 1, 2 pulls, all levels | 392,666 | RemovalsAccounted, RemovalsHandled, NukeEndsOff |
| `killswitch_all_frozen` | 1 stick, 2 VMs, suspend | | AllVmsFrozen is violated |
| `killswitch_suspend` | 1 stick, 1 VM, suspend | | SuspendSuspends is violated |
| `killswitch_spare_stick` | 2 sticks, 1 VM | | PanicNeedsNoStick is violated |
| `stick_boot` | 2 sticks, 2 runs, slots 0 and 1, 2 keys, timeouts 0 and 1 | 488,380 | TypeOK, NoDeadSlot, ReportedStickOpens, RevokedStaysOut, GivesUpRightly, GoodStickBoots, KeysLiveOnce |
| `gui_surface` | 2 windows, 4 sizes, a u32 of 5 bits, 1 event | 345,507 | TypeOK, NoProtocolError, BufferHoldsPicture, ShownIsPainted, InFlightIsOutstanding, WindowsAppear, PingsAnswered, ShutdownEnds, OneCallback, EachWindowItsShow |

Why the bounds are enough.

- The daemon. Two connections give every pair of overlapping requests, one queued
  behind the other; two ids give a name a second life, through a second start or a
  reboot, which is what a stale id needs; two VMs distinguish "the same VM" from
  "another". A third connection adds only a longer queue, and the theorems below cover every number. With three ids,
  for a guest that reboots twice or is restarted after a reboot, the run was also made
  (1,471,218 states); it shows nothing else.
- The framing. A header, a buffer and a frame of two cells each can all be split in
  the middle, and a frame does not fit a buffer; three calls let two follow a
  broken one. The five requests are one of each kind: answered, answered by a
  reply that is too long, not JSON, refused by its sender, too long and sent.
- The configuration. Every list of up to three VMs out of seven entries, of up to
  two sticks out of four and of up to three rules out of five, each with every
  fault `validate` looks for, at every position; two names and one foreign one.
- The kill switch. One place in the channel and one in the socket already fill
  while the main loop is in a panic, the case a capacity of 32 makes rare; two
  pulls are the least for a removal that arrives during the panic of the one
  before; two VMs let one succeed and one fail in the same loop, and the account of
  removals, which has nothing to do with the guests, is checked with one VM and a
  device that is not registered instead. With both at once the safety properties were
  also checked (2,346,600 states). `MaxDomid` and
  `MaxPull` bound counters, in `CreateDone`, `GuestReturns` and `Unplug`.
- Sticks and boot. Two runs race for one free slot beside the passphrase's; two
  keys let one write over the other's stick or follow it in its slot; the
  timeouts are "never" and the least positive one. `MaxKey` bounds the keys drawn.
- The GUI. Two windows give one a frame while the other is created or dead; the
  sizes are one as large as a frame may be, one only a buffer holds, one whose
  stride overflows and an empty one. `Events` bounds failing writes, resizes and
  pings together; the safety properties were also checked with two of them
  (8,958,339 states), which takes too long for a regular run.

Deadlock is checked for the daemon, the framing, the configuration and the boot.
The kill-switch and GUI configurations turn it off: a system that is switched off
and a program that has ended stop.

## Fairness

`KryptDaemon!FairSpec`: weak fairness of every connection task. tokio runs a
runnable task, its `RwLock` is first-in first-out, and every `xl` process is
taken to exit; the code has no timeout for one that does not. Nothing is assumed
of clients, guests, what restarts them, or whoever stops the daemon. One weak fairness per task is
enough: a task that has reached the head of the queue stays enabled.

`KillSwitch!FairSpec`: weak fairness of the monitor task, of the main loop and of
the `krypt-panic` process, whose spawned commands are taken to exit. Nothing is
assumed of users, guests, signals, the wake-up or systemd: a suspend it queued may wait
for ever.

`IpcFraming!FairSpec`: weak fairness of the client's step, of the task's step and
of `Accept`, since a process that waits for a descriptor gets one in the end.
Nobody need make a call, leave or connect.

`KryptConfig!FairSpec`: weak fairness of the start-up, unless the unit was stopped.
The unit has `Restart=on-failure` and `RestartSec=5s`; at one start per five
seconds systemd's default start limit (five in ten seconds) is never reached.
Nothing is assumed of the administrator.

`BootHook!FairSpec`: weak fairness of the hook's loop. `GoodStickBoots` is stated
for behaviours in which from some point on the power stays on and `dd` and
`cryptsetup` do not fail on a good stick, and promises nothing while the LUKS device is
missing: the hook tries no stick then, and with `krypt_timeout=0` it loops until the
device appears. Nobody need plug a stick in, answer the prompt or run the tool, and
the device need not come.

`GuiSurface!FairSpec`: weak fairness of the Wayland thread and of the join, and of the
compositor's serving the socket and sending a first configure to each new
window. It need not release a buffer or ping, and nothing need resize. Failing
writes are finitely many (`Events`): a window whose every write fails never shows.

## Proofs

Every safety property that a passing run checks, invariant or action property, and
the refinements of all six abstract modules are theorems, for every value of the
constants. All of them follow one argument: an inductive invariant that TLC checked first, one lemma per action or
family of actions, and a theorem per property that reads it off the invariant.

**The daemon.** For every set of connections and of VMs and every `MaxDomid`, from
the three named assumptions of `KryptDaemon` (`NoClient` is no connection, `Unknown` is no
VM, `MaxDomid` is a natural number).

`TypeOK` and the run's invariants are not inductive one by one. The inductive
invariant `IInv` of `KryptDaemonProofs` adds what the code relies on silently:

- `Holder`: the task inside an `xl` step is exactly the one `writer` names, and
  its request is for a registered VM;
- `XlMatches`: which `xl` process runs follows from the request, so `domid` only
  occurs in a start;
- `FreshIds`: ids in Xen, in the table and in answers were handed out before; the
  domain whose id a start is about to look up is not a lost one, and no answer names
  it yet;
- `Between`: a guest that is being restarted has no domain meanwhile.

`GuardStillHolds` then follows because only the holder writes the table;
`DomidCurrent` because a domain can be created only when the name is free, and the
table's entry of a running VM was set by the one start that created it, so that only a
restart by `xl`, with an id younger than all in the table, can come in between;
`NoSharedDomain` from `FreshIds`. `QuietStep` and `FinishStep` are the two shapes
a step can have: it leaves the table and the domains alone, or it is the last
step of the holder. `Invariance` joins one step lemma per action; the theorems
`TypeCorrect`, `XlIsExclusive`, `GuardIsStable`, `DomidIsCurrent`,
`DomainNotShared` and `LossIsAccounted` read their property off it.

`LockNeverStuck` is the safety half of `EveryRequestAnswered`. It adds one fact to
`IInv`, that queue and waiting tasks are the same set and nobody queues twice;
`QueueJoined` and `QueueLeft` say what a receive does at the end of the queue and a
grant at its head, and `QueueStep` that no other step touches it, a hang-up of the
client included. That the guard is not kept outside an `xl` call is `Holder`.

`KryptDaemonRefinement!Refinement` proves `Spec => AtomicService`: the last step
of a request is the atomic effect, earlier ones stutter. It needs the invariant
(the guard still holds when the effect is applied) and `Routed` (which requests
can be at which point).

**The kill switch.** For every set of devices and of VMs, every capacity of the
channel and of the socket and every `MaxPull`, from `KillSwitch`'s assumptions:
the registered sticks are devices, a level is lock, suspend or nuke (what
`config.rs` lets through), the capacities are positive. `IInv` of
`KillSwitchProofs` has four parts, which lean on one another:

- `TypeOK`, whose bound on `fired` and `dropped` follows from the account;
- `RemovalsAccounted`, inductive once the monitor's `held` is known to be empty
  exactly when it is not sending; `QueueProofs` says what `Append` and `Tail` do to
  the number of removals in a queue (`CountAppend`, `CountTail`);
- `Control`: who is active together with whom, at which level, and that a stopped
  unit has kept nothing. It is why the inline path never overlaps `krypt-panic`;
- `Listed`: phase by phase, what a panic still owes: each running domain (at
  nuke, each live one) is on its list, was created since, or was failed on; and
  nobody is left on the list when the system action comes. What a queued suspend found
  done stays done until it runs: a guest that runs then was created, or failed on, since.

The steps fall into families (at the port and in the monitor, the end of the
process, the receive, the panic and the guests, the restart), and
`InvStep` joins one lemma per family. `KillSwitchTypeCorrect` and
`KillSwitchAccounts` read the invariant; `KillSwitchLockSparesVms` and
`KillSwitchListedVmsFirst` single out the few actions that pause a domain or
change `sys` and show that the invariant holds their guards to the property.

`KillSwitchGuards` is the refinement of `StickGuard`. The pulls under way are a sum
over socket, monitor and channel, so each step of the port's side is shown to move
it by what `Notice`, `Lose` and `Raise` say (`UsbGuards`, `EndGuards`, `ReceiveGuards`,
over `RemovalsAccounted` and `Balance`); the steps of krypt-panic and of the inline
path map to the same abstract steps (`ListGuards`, `HandleGuards`, `ActGuards`),
krypt-panic's failure to `Falter`. `KillSwitchNeverStuck` is the safety half of
`RemovalsHandled`; beside `Control` it needs `Awaited`: whom the main loop waits for
is running or left a status.

**The framing.** For every set of calls, every length of a request, a reply, a header
and a frame, every buffer, every number of calls. The difficulty is not a step but
where the bytes are: `IInv` is `Tally` (the three histories), `Buffers` (types and
bounds) and `Stage`, one of six stages a connection can be in: `Quiet` (no call),
`OnWay` (the request's frame), `Cut` (the task is over and the caller does not know),
`Serving`, `Replying` (the reply's frame), `Abandoned` (a reply nobody reads). In
`OnWay` and `Replying` what one end has read, what the socket holds and what the other
end has yet to write are, in this order, the rest of one frame and nothing else.
`FramingImplementsCalls` maps each step to a step of `RpcCalls` or a stutter;
`FramingTypeCorrect` reads the types off. `FramingNeverGridlocks` is the safety half
of `CallsReturn`: because the three pieces are exactly the whole frame while its
caller stays, an end that waits for bytes finds them in the socket or still to be
written, and an end that cannot write has filled a buffer somebody reads.

**The configuration.** For every set of names, serials and files. `IInv` is `TypeOK`,
`Loops` and `Loaded`. `Loops` is the loop invariant of each of `validate`'s three
loops: the entries before `i` are good, given those before them, and `seen` is just
their names; the loops already left guarantee their whole list. `Loaded` says that
nothing writes the tables after they are filled. `ConfigAcceptsExactly` needs both
directions of it; `ConfigEveryBlockCounts` follows because a well-formed list has
no two entries with one key; `ConfigContactNeedsRule` and `ConfigNoSilentRule`
because an answer is `Decision` over the loaded tables, and there is
a first matching rule because the order of the naturals is well-founded.
`ConfigServesOneReading` is the refinement of `PolicyService`: `LoopsJudge` makes the
three loops one judgement, `DecisionIsVerdict` the look-up in the rules and in the
trust map the verdict the file states, and an edit of the file maps to `Edit`, which
touches nothing a running daemon has taken.

**Sticks and boot.** For every set of sticks and of runs, every number of slots and
keys, every set of timeouts. `SInv` is the type invariant of `StickSlots` with
`Shape` (what a run's record holds at each point), `Drawn` (a key that is anywhere
was drawn for the stick it is on), `Single` (a key has one run and one slot) and `Held`: a
key whose run is past the fsync is durable or written over, before that a read
returns it, and a reported key is in a slot or revoked. `Held` is why the order
"stick, fsync, slot" matters: only a durable key can reach the header.
`SlotsNeverDead`, `ReportedSticksOpen` and `RevokedKeysStayOut` follow. `BInv` adds
`Knows`: while the disk is closed, a stick that stayed in its port since the glob, the
LUKS device there and no tool failing on it, and that is not on the hook's list any
more does not open, which is what `HookGivesUpRightly` needs, and `Opened`: the disk is
open while the system is up (it may be open before, if `cryptsetup` failed late).
`KeysLiveTheirLife` is the refinement of `KeyLedger`. A write maps to the draw of the
key with all those it is written over (`WriteLedger`), a flush to `Store`
(`FlushLedger`), the `luksAddKey` to `Enroll`, which needs `Held`, a run that ends in
any other way to `Void` (`LostLedger`), and the loss of power to all of them at once.

**The GUI.** For every number of windows, every table of sizes, every width of the
integers, every bound `Events`. `IInv` is the types, the three buffer properties of the
run and

- `Order`: in the queue of requests a commit follows its window's acknowledgement,
  which follows its creation; a window not yet begun has nothing in either queue.
  `GuiKeepsProtocol` is its consequence;
- `Buffers`: nothing in a queue, in a surface or in the compositor's hands names a
  buffer that is not made, and `made` is bounded by the windows and the events used;
- `Fits`: a surface's buffer, and each commit under way, has the size of its own
  picture;
- `Pings`: open pings are exactly the pings and pongs in the two queues (`Count`);
- `Offline`: no connection, no messages.

The actions fall into those that leave the picture alone, those that end the
connection, the allocations, the requests, the events and the compositor's `Serve`,
with one lemma each. `GuiBufferFits`, `GuiShowsWholePictures` and
`GuiAccountsForBuffers` read their property off it.

The refinement of `WindowShow`, `GuiShowsEachWindow`, needs three facts more
(`JInv`): `OwnPicture`, that no picture is in two windows; `Newer`, that a window's commits are on their way in the
order their buffers were made, the newest being the one it holds; and `Told`, that a
configure event under way is of a placed window and an acknowledgement under way of
an agreed one. Its lemmas are per family as well (`CalmShow`, `DownShow`,
`AllocateShow`, `EventShow`, `ServeShow`, ...). `GuiOwnPictures` reads `OwnPicture` off.
`GuiOneCallback` counts callbacks asked for and callbacks sent in the two queues:
a roundtrip has just one. It is the safety half of `ShutdownEnds` and `PingsAnswered`,
which would fail in a roundtrip that waits for a callback nobody sends.

Some theorems state a consequence of a property that a run checks, and no run names
them: `XlIsExclusive` (from `WaitersQueued`), `ConfigContactNeedsRule` and
`ConfigNoSilentRule` (from `ServesOneReading`), `KillSwitchLockSparesVms` (from
`OneAlarmPerPull`), `GuiOwnPictures` (from `EachWindowItsShow`); and
`FramingNeverGridlocks` and `KillSwitchNeverStuck`, the safety halves of `CallsReturn`
and `RemovalsHandled`.

Only model-checked: what must eventually happen (`EveryRequestAnswered`,
`RemovalsHandled`, `NukeEndsOff`, `RepairedFileServes`, `GoodStickBoots`,
`WindowsAppear`, `PingsAnswered`, `ShutdownEnds`, `CallsReturn`, `TasksEnd`), since
liveness under fairness is beyond this prover, and the four properties that the
code violates. Of the liveness properties the part that a proof can reach is proved
beside them: `LockNeverStuck`, `FramingNeverGridlocks`, `KillSwitchNeverStuck` and
`GuiOneCallback` say that somebody can always go on, written out as guards and not
with ENABLED; that they then do is what TLC checks under fairness. The modules use no RECURSIVE operators.

## Where code and documentation disagree

With a run that shows it:

- `vm.rs:163` says a Halted VM needs no `xl destroy`. A VM can be Halted in the
  table and alive in Xen (`daemon_force_stop`); the forced stop is then confirmed
  and does nothing.
- The README promises that pulling the stick freezes all VMs at once. One started
  during the panic is not frozen (`killswitch_all_frozen`).
- `krypt-panic --level=suspend` ignores the error of the write that suspends, and
  under the shipped unit (`ProtectKernelTunables=yes`) that write always fails;
  it reports success, so the fallback is not taken (`killswitch_suspend`).
- `daemon.toml.example` says one of the registered sticks must be plugged in.
  Pulling any of them starts the panic (`killswitch_spare_stick`).

Also seen while modelling, without a run of its own:

- `vm.rs:62` calls `domain_id` the Xen domain's id. A guest that reboots is restarted
  under a new one by the process `xl create` (`vm.rs:110`) leaves behind, since the
  configuration of `vm.rs:84-93` sets no `on_reboot`; the table, and with it every status
  and list answer, goes on naming a domain that is gone. `DomidIsCurrent` proves what
  holds: the second disjunct of `DomidCurrent` is this case.
- `daemon.toml.example:20` puts `xl pause` after `systemctl suspend` ("danach xl pause").
  Both paths pause first and suspend then, and nobody is paused afterwards; the theorem
  `KillSwitchListedVmsFirst` proves the code's order, so what `ListedVmsFirst` checks is
  not what that file says.
- `main.rs:331-332` and the warning at `main.rs:357-359` say that the inline path does no
  VM freeze. It pauses every running guest at levels suspend and nuke (`FallbackPause`),
  which is what the comment at `main.rs:365-368` says; `ListedVmsFirst` and
  `OneAlarmPerPull` (through `StickGuard`) hold the code to the latter.
- `panic/src/main.rs:8` says that level lock suspends the VMs;
  `docs/usb-kill-switch.md` and the code say it does not, and the theorem
  `KillSwitchLockSparesVms` proves the latter.
- `krypt-stick/src/backup.rs:3` calls `add` the identical flow to setup; it has no
  GPT check (`AddBackup` has no guard on what the stick holds).
- `config.rs:208` says a stick's serial holds no quotes; `is_valid_serial` lets through every
  printable ASCII character, quotes included.
- `docs/known-issues.md:153` says the boot hook has no passphrase fallback; it has
  one when `krypt_timeout` is positive, as line 268 of the same file says.
- `docs/architecture.md:148` says a lower trust level can never contact a higher
  one. An explicit rule allows it (`ConfigContactNeedsRule` proves what holds).
- `docs/known-issues.md` and the installer (`installer/steps/usb.py:143`) run
  `krypt-stick` with `--luks-dev /dev/mapper/krypt-root`, the opened volume; the LUKS
  header is on the partition behind it.
- `gui-protocol/src/main.rs:162` says `ShmBuf::new` fails anyway for a picture over
  256 MiB. It fails beyond `i32::MAX` bytes: in between, a window shows an empty file
  (`ShownIsPainted` excepts these pictures).
- `buffer_released` (`wayland.rs:393`) is documented per frame. The release of an earlier
  commit sets the flag while a later one of the same buffer is in flight;
  `InFlightIsOutstanding` states the direction that holds.
- If the Wayland thread ends with an error, the main thread waits on for a signal.
- `initramfs/krypt-boot-agent.sh:6` says it reports the boot stick's serial to the
  daemon over IPC. It writes a file that nothing reads, and the device it names is the
  disk behind the volume, not the stick whose key opened it.

## What is not modelled

Left out of the modelled parts:

- wording: formatting of answers and of the `xl` configuration, logging, the JSON
  text (a body is the message it stands for, or is garbled), the character classes
  of names and serials (symbols that are accepted or not), colours and titles;
- the socket's permissions, and connections that one client holds side by side:
  `IpcFraming` has one, `KryptDaemon` any number of them without frames;
- `krypt-panic`'s escalation of an unknown level, which the daemon never passes;
  `PolicyEngine::load_from_toml`, which nothing calls; the shell that a missing
  `krypt_luks_uuid` opens; configure events after a window's first;
- domain ids that wrap around and are handed out again; the waiting `xl` of a rebooting
  guest whose name a new start took meanwhile (its own create fails then, and it exits); a
  file of the administrator (`xl_cfg`) that sets another `on_reboot` takes away steps;
- `xl create` that is killed half-way is either done or not; resource limits of Xen
  are the nondeterministic failure of `xl`;
- a stick's device node that is given to another stick between two system calls of one
  run, and a turn of the boot hook that takes longer than its second (`elapsed`
  counts turns, in the code as in the model).

Components without a module:

- The boot agent is one pass over sysfs, and nothing reads its result.
- Input routing and clipboard have no caller yet; the Xen interface of the GUI is
  stubs. There is no state over time to check.
- The installer's state is a disk that some twenty external programs change, and
  their success is what a model would have to assume. It does have orders worth a
  model: Escape leaves `InstallScreen` or `VmsScreen` while the worker thread started in
  `install.py:70` or `vms.py:79` runs on (`installer/main.py:117`), and the way forward
  starts a second one; a retry skips a disk image whose `luksFormat` failed because
  the file exists (`vms.py:137`); the stick chosen in `usb.py:99` is an index into a list
  that is read anew. See the plan.
- The ISO build makes files and keeps no state.

## Plan

Done: the daemon, the framing, the configuration and the policy engine, the kill
switch, sticks and boot, the GUI's surfaces and buffers, each with an abstract
specification and the proof that it implements it.

Left, in this order:

1. the composition of `StickGuard` with `VmService`: VMs paused or destroyed behind the
   daemon's back, and what a start or a stop does to them then;
2. `Installer`: the screens, their worker threads and the commands as steps that may
   fail, with a retry that finds what an earlier try left;
3. input routing, once it has a caller.
