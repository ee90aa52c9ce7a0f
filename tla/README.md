# stormdrive in TLA+

Specifications, model checks and proofs of the parts of stormdrive that are
hard to test: several tasks that each read the inventory under a lock, await
the engine, a drive or the apiserver, and write back under another lock; state
files saved at different moments; drives and an engine that go on by
themselves when the daemon dies; apiserver objects that change while a pass
works on a list of them.

    tlc -workers 2 -config WorkerOps.cfg MCWorker.tla     check a run
    tlapm FleetProofs.tla                                 check the proofs

`PROJECT.json` lists every run, which lines of the source each definition
stands for (`map`), one mutated definition per property that the run must
find (`mutants`), the disagreements between code and docs (`findings`), the
hazards of the code and the properties aimed at each (`hazards`).

## 1. Inventory

| component | state it keeps | operations | hard about it | what makes it correct |
|---|---|---|---|---|
| fleet (`fleet.rs`) | per drive: membership, `drain`, what was pushed; the engine's own lists | join, auto-add, leave, drain, cancel; the tick: health, heat, label and overcommit pushes, poll, retry, retire | every step is read – await engine – write; lost answers; engine restarts forget | only what was asked to leave leaves; failing drives are drained; record and engine come to agree |
| engine client (`stormblock.rs`, `engine.rs`, `retry/`) | cached token | one call: tries, backoff, token read again | which calls may be repeated, under one deadline | nothing that may not be repeated is done twice; an answer tells the truth |
| REST API (`api/mod.rs`, `api/kube.rs`) | uploads, watches | checks a copy of the record, calls fleet, worker, format, test, shelf | check and write are apart | a check still holds when its request writes; a watch misses nothing |
| gate (`kubeauth.rs`) | kept answers of the apiserver | review, decide, ask afresh | an older answer overtakes a newer one | nobody acts longer on a permission than the cache allows |
| monitor loop (`monitor.rs`, `hotplug.rs`, `discovery/`, `topology.rs`, `megaraid.rs`, `hba.rs`) | the inventory; probe cache; wakes | wake, scan, merge, reconcile, persist | kernel names that move, controllers that do not answer, events during a pass | each drive once, where it is; no event without a pass after it |
| health loop, damper, poller (`monitor.rs`, `poller.rs`) | damper streaks, due times, permits, running reads | due, acquire, answer, time out, judge, supervise | reads that never return; a loop that dies | bad news believed when repeated, never lost; one drive never stalls the rest |
| thermal (`thermal.rs`) | level per component, limits, history | pass, levels, replacement, what is asked of the engine | flapping, limits edited, sources that change | hot is said, nothing flaps, the engine is told |
| worker (`worker.rs`, `format.rs`, `erase.rs`, `drivetest.rs`) | jobs, lanes; `jobs.json` | submit, cancel, resume, run_drive, recover, watch | restarts between two saves; two jobs on a drive; a password that must outlive the process | nothing destructive repeated unasked; no drive locked without its password on record |
| firmware, IOM firmware (`firmware.rs`, `iomfw.rs`) | runs, lock | preflight, gate, download, reset, watch | redundancy read before it is used | never both sides of a redundancy at once |
| shelves (`ses.rs`, `shelfview.rs`) | last report | locate, fault LED, power | status page read, control page sent, nothing locked | one indicator at a time; recorded LEDs are lit |
| kube (`controller.rs`, `policy.rs`, `shelfobj.rs`) | object status, finalizers, records | passes over operations, policies, shelves, drives | snapshots of lists, lost status writes, two nodes | one job per operation and generation; objects tell what is there |
| state files (`inventory.rs`, `events.rs`, `history.rs`) | `inventory.json`, `events.json`, drive journals | write_atomic, load, number, append, prune | crashes between file, rename and sync | whole and not older than settled; numbers go on |
| offers and usage (`components.rs`, `drive.rs`, `inuse.rs`, `usage.rs`, `placement.rs`) | none | what a drive offers, its usage | offered from an older record | what destroys takes only what is free |
| decoding (`scsi.rs`, `smart/`, `pi.rs`, `gpt.rs`) | none | pure functions | boundaries | input–output relations, unit-tested |

How they interact: the inventory (`RwLock`) is the shared record of all; a
handler clones what it needs, drops the lock, awaits, and takes the lock again.
The fleet tick and the monitor pass are one task, the health loop another, the
controller and the thermal loop another each, and each request, job drive,
format run, update and sample one of its own. Whoever persists saves
everybody's record. The engine and the apiserver are called over HTTP; an answer
may be lost after the call took effect. Drives and shelves are called through
ioctls that may hang or be refused.

## 2. Modules

| module | stands for | composed or checked in |
|---|---|---|
| `Fleet`, `FleetProofs` | fleet.rs, the fleet half of api/mod.rs, merge and reconcile | `MCFleet` |
| `Worker`, `WorkerInv`, `WorkerProofs` | worker.rs, with format.rs, erase.rs, drivetest.rs as its steps | `MCWorker` |
| `Health`, `HealthProofs` | poller.rs, the health loop and damper | `MCHealth` |
| `Thermal`, `ThermalProofs` | thermal.rs, the limits endpoint, the thermal push | `MCThermal` |
| `Controller` (uses `Policy`), `ControllerProofs` | DriveOperations and DrivePolicies: controller.rs, policy.rs, the worker's interface | `MCController` |
| `Objects` (uses `Ses`) | Shelf and Drive objects of two nodes: controller.rs, shelfobj.rs | `MCObjects` |
| `Enclosure` (uses `Ses`) | LEDs and bay power of a shelf, and all their writers | `Hardware` |
| `Firmware`, `IomFirmware` | firmware.rs; iomfw.rs | `Hardware` |
| `Hardware`, `HardwareProofs` | the three before it side by side | `MCHardware` |
| `Store` | inventory.rs, events.rs, persist, start and stop of main.rs | `Services` |
| `Register` | abstract: what a state file promises | implemented by `Store` |
| `Journal` | history.rs | `Services` |
| `Images` | firmware image uploads of api/mod.rs | `Services` |
| `Gate` | kubeauth.rs, guard | `Services` |
| `EngineCall` | stormblock.rs, retry/ | `Services` |
| `Services`, `ServicesProofs` | the five before it side by side | `MCServices` |
| `Discovery` | tick, discovery/mod.rs, topology.rs | `Drives` |
| `Raid` | megaraid.rs, hba.rs, merge of shelves and HBAs | `Drives` |
| `Hotplug` | hotplug.rs and the wakes of monitor.rs | `Drives` |
| `Actions` | what a drive offers, what its handlers take, drivetest.rs | `Drives` |
| `Push` (uses `Usage`) | label and overcommit pushes, usage.rs | `Drives` |
| `KubeWatch` | the watch of api/kube.rs | `Drives` |
| `Drives`, `DrivesProofs` | the six before it side by side | `MCDrives` |

`Ses`, `Policy` and `Usage` are pure: the operators their users decide with.
`Hardware`, `Services` and `Drives` put independent modules side by side:
a behaviour is of one part (`part`, `service`), the others rest in one initial
state. Modules whose code calls each other are composed in earnest: `Fleet` has
the loop, the requests and the engine; `Worker` its steps' modules; `Controller`
the pass, the users, the worker and the re-check; `Objects` two nodes and the
apiserver; `Enclosure` the requests, the fleet loop, the specs and the shelf.

### Fleet

State: `inv` is the inventory in memory (membership, designation, activity,
health, `pushed`, `drain` of a drive), `disk` the file, `eng` the engine's view
(external), `task` the program counter and locals of the loop and of every
request, `phase`/`todo`/`listed` the loop's pass and the snapshots it works
through. Handlers are cut at every await: a drain is `SdRead` (start_drain's
checks), `SdStatus` and `SdPost` (the calls, the engine's effect and the answer
apart), `SdWrite` or `SdPend` (the write-back); a join is `JoinOpen`,
`JoinSlab`, `JoinWrite`; the tick takes a snapshot of its jobs
(`TakeSnapshot`) and works through it (`TakeJob`). `Crash` loses memory and
every task; the daemon starts again from `disk`.

Left out: use and contents of a drive are those of a clean one; forget_drive;
join's list and add, and its two relabels, are one step each; a handler's last
write and the persist after it are one step (`Save`). The engine opens and
closes drives, drains, refuses, forgets every drain when it restarts, and for
an unused drive may answer POST drain with `empty` at once.

### Worker

State: `jobs`/`jobsFile` and `inv`/`invFile` are memory and file, `task` the
program counter of each drive of a job, `fmt` the format runs, `hw` what the
drive itself does, `hist` (history) the commands sent. `run_drive` is `Spawn` –
`Top` – `TakeLane` – `Check` – `Allowed`/`Denied`/`Unavailable` – `SaveRun` –
the step – `Result` – `SaveStep` or `SaveEnd`; `run_step` is a format run, a
command, a security erase, a test or an enrolment, each with its own actions.
`Restart` is `recover_orphans` and `recover`, deciding from the two files;
`Watch…` is the task of a re-attached step.

Abstractions: a save is one step; anybody else's persist of inventory.json is
`OtherPersist`; one HBA lane for SAS and SATA, one of its own per NVMe; reasons
of a refusal the model's state does not give (mounts, sectors, PI) are a choice.
The NVMe format path is in the module; the runs use a SATA drive.

### Health

State: `rec` is what the loop and its neighbours write of a record, `running`
the sampler's map, `queue` the semaphore's FIFO, `chan` the outcomes on their way
to the loop, `loop` its position with what it read, `damper` its streaks.
`recent`, `believed` and `found` are history: the reference the damper is held
against. Time is left out: a drive may be due, and its sample stale, at any
moment. What a sample says is the verdict the thresholds make of it.

### Thermal

One pass reads every sensor, resolves its limits (own chip, SMART, class
default, operator's), moves each level, dates what became critical, and writes
what a drive asks of the engine to its record; the fleet's tick pushes what
changed, or again after the heartbeat. A pass, the push and its answer are
separate steps; operators put limits in between; a restart keeps what was saved.
Degrees are integers, time is counted in passes.

### Controller, Policy, Objects

`Controller` lists objects (a snapshot), answers each operation, cancels jobs of
those gone, does the same for policies; users create, edit and delete objects,
jobs advance, status writes are lost. A status is a merge patch: what it does not
name stays. `Objects` has two nodes that see one shelf or pass it on; every
call is a step that may fail.

### Enclosure, Ses, Firmware, IomFirmware

`Enclosure`: a writer finds a position in the last report, reads the status page
and sends a control page, three steps, through one ESP after the other; the
shelf is re-laid, a disk swapped in between. `Ses` says what a control page makes
of the bits. `Firmware`: requests check drives, then each waits for the lock and
for redundancy, downloads, resets. `IomFirmware`: one IOM after the other, each
watched until it runs the image and the drives' paths are back.

### Store, Register, Journal, Images, Gate, EngineCall

`Store` cuts a save at the temporary's sync, the rename and the directory sync;
a file is what it reads as now and the set of what a reset may make of it. What
it holds is told by a number: of the inventory's last change, or of the next
event. `Register` is the same file as its caller sees it: `Put` adds a value,
`Settle` decides, `MoveAside` clears the unusable. `Journal` appends lines, whole
or torn, per month; `Images` has inodes and names, so that two uploads meet in
the temporary; `Gate` a cache with ticks; `EngineCall` one call with its clock.

### Discovery, Raid, Hotplug, Actions, Push, KubeWatch

`Discovery` scans kernel names through the probe cache and merges what it found,
over identities that move between names and bays. `Raid` asks controllers that
may not answer. `Hotplug` has the kernel's bounded buffer, the listener, the
channel, the settle time and the timer. `Actions` gives a drive's offers and its
handlers the same rules at different moments. `Push` is the engine's knowledge
of labels and settings. `KubeWatch` renders, compares and sends.

## 3. Runs

| run | instance | checks |
|---|---|---|
| `fleet_ops` | 2 drives, 1 request of any kind; verdict, engine trouble and crash, or verdict and lost call | `IInv`, `OnlyAskedDrivesRetire` |
| `fleet_live` | 1 drive, 1 join or drain+leave; lost call, crash, and engine trouble or a pull | `FailingDriveDrained`, `RetiringDrainEnds`, `MembershipConverges` |
| `worker_ops` | 1 drive, 2 jobs of erase / test+format / sanitize / partition+enroll; crash+resume, or a failure, or a pull, or cancel+resume+silent apiserver | `WorkerInv` (with `PasswordOnRecord`, `BusyIsOwned`), `NeverRerunBlind`, `EndedStays`, `RunsEnd` |
| `health_ops` | 2 drives, 1 permit, hysteresis 2; a hang with a dead loop or with a panic, or a pull, or a finding and an acknowledgement | `HealthInv`, `SticksOnlyRepeated`, `SamplingGoesOn` |
| `thermal_ops` | 1 drive, 1 chip, 1 element, 1 fan, 3 passes; one trouble of each kind | `ThermalInv` (with `LimitsNeverRaised`), `HotIsTold`, `ReplaceIsEarned`, `LeftOnlyBelow`, `EngineIsTold` |
| `kube_ops` | 1 drive, 1 operation, 1 policy, 2 uids, 2 generations; six mixes of trouble | `ControllerInv`, `DoneOnceAGeneration`, `StatusIsTold`, `LoopClearsUp` |
| `object_ops` | 2 nodes, 1 shelf, 1 drive; pairs of fails, edits, moves, shares, deletes, restarts | `ObjectsAreTold`, `TroubleIsSaid`, `DefaultKept` |
| `hardware_ops` | 1 bay and 2 ESPs; 2 drives and 2 requests; 2 IOMs and 2 starts | `EnclosureOK`, `OneLedAtATime`, `FaultFollowsMember`, `UpdatesKeepAccess`, `EveryUpdateEnds` |
| `services_ops` | 2 files; 3 months; 3 uploads; 2 calls and 4 ticks; 4 tries | `KeptAsTold`, `GateOK`, `CallOK`, `FilesAreRegisters`, `NothingKeptIsLost`, `EventuallyOnDisk` |
| `drive_ops` | 3 identities, 2 names, 2 bays; 1 controller; a buffer of 1; 2 requests; 2 drives; 2 objects | `ActionsOK`, `FoundWhereItIs`, `PushOK`, `NothingMissed`, `AllComeToKnow` |
| `history_torn` | the journals of `services_ops` | `EntryLands` is broken (finding) |
| `shelf_power` | the shelf of `hardware_ops`, 2 requests | `LocateKeepsPower` is broken (finding) |

A property named after a whole (`KeptAsTold`, `UpdatesKeepAccess`, `PushOK`, …)
is a conjunction of parts that its module states and comments one by one; the
`mutants` of `PROJECT.json` break one part each, and the modules hold further
mutated definitions beside the true ones (marked `mutant`) that break others.

Why these bounds. Handlers meet at one drive, one shelf, one object or one file,
so one of each with two requests (and the loop) interleaves every pair of
handlers at every await. A second one is there where it makes a difference: the
snapshots of Fleet's loop, one permit for two drives in Health, two legs and two
IOMs whose redundancy is at stake, two nodes on one shelf, two identities that
change kernel names. Hysteresis 2 is the least that tells "repeated" from "read";
three passes the least in which a level rises, stays and falls; a ring of 3 with
a tail of 2 the least that drops events from both; a buffer of 1 the least that
overflows. Each trouble strikes a bounded number of times (`Budgets`, `Chances`,
`Rounds`, `Courses`, … : one record of it is chosen at the start, and a behaviour
meets what that record allows in any order). The bounds were chosen so that the
two kinds of trouble that meet in one piece of state are met together, and so
that a run ends within minutes. That the controller's jobs stop because they are
not needed and not because their numbers ran out is part of `LoopClearsUp`
(`BoundNotMet`). Runs whose world may come to rest (all requests
made, all trouble spent) do not check for deadlock; Fleet's and Health's do.

## 4. Properties the code breaks

Two are runs of their own, with the line of the source or the docs they
contradict in `findings`: `history_torn` (the entry after a torn line is spoiled
with it) and `shelf_power` (locating a bay that was turned off turns it on).
Others are defined in the modules and listed here; each is found in seconds by
the configuration named, which differs from the run's in the constants given.

| property | of | configuration | what happens |
|---|---|---|---|
| `FailedIsDistrusted` | Fleet | `FleetOps.cfg`, one drive, `Kinds <- MarkKinds`, `Budgets <- MarkBudgets` | the loop's "healthy", of an older snapshot, reaches the engine after the operator's "failed" (`fleet.rs:217`); the record says "failed" was told |
| `NoFormatInFleet` | Fleet | `FleetOps.cfg`, `Drives = {d1}`, `Enrolled = {}`, two requests, `Kinds <- FormatJoinKinds`, `Budgets <- NoBudgets` | join checks a copy and writes after two engine calls (`api/mod.rs:962`); a format that started in between runs on a drive the engine was given |
| `FailingDriveDrainedAnyway` | Fleet | `FleetLive.cfg`, `Kinds <- NoKinds`, `Budgets <- CrashBudgets` | the word told is saved before the drain it calls for is requested (`fleet.rs:222`); a crash in between loses the drain |
| `DoneStepsRan` | Worker | `WorkerOps.cfg`, `Plans <- SanitizeLast`, `Budgets <- CrashBudgets` | a restart while a sanitize waits for its lane: the watch finds the drive ready and counts it done (`worker.rs:519`) |
| `RunningIsWorkedOn` | Worker | `WorkerOps.cfg`, one job, `Plans <- Partition`, `Budgets <- CrashBudgets` | a restart between the save of the last step and that of the end: running for ever (`worker.rs:533`) |
| `CancelledNeverStarts` | Worker | `WorkerOps.cfg`, one job, `Plans <- Partition`, `Budgets <- CancelBudgets` | a cancel while a run waits for its lane or its review is overwritten (`worker.rs:1113`) |
| `OnlyRepeatedSticks` | Health | `HealthOps.cfg`, `Hysteresis = 3`, `Readings = {"good", "failing"}`, `Severities = {3}`, `Budgets <- FindingCleared` | a status raised by an engine finding, then withdrawn, lets one bad sample stick (`monitor.rs:496`) |
| `NothingToUndo` | Thermal | `ThermalOps.cfg`, no `Chips`, no `Elements`, `Temps <- TwoTemps`, `Budgets <- Forgets` | what was pushed is only in memory (`fleet.rs:180`): after a restart a drive that cooled is not sent its all-clear |
| `EditTriesAgain` | Controller | `KubeOps.cfg`, `Budgets <- JustEdit` | the merge patch keeps an earlier generation's failed job on a drive (`policy.rs:250`); the edited policy never tries it |
| `StatusIsKept` | Controller | `KubeOps.cfg`, `Budgets <- JustOps` | an operation deleted and made again under its name while its job goes on is not told of the old job's end |
| `SeenShelfIsWritten` | Objects | `ObjectOps.cfg`, `Moves <- Moved` | a shelf cabled to another node keeps the first node's label (`controller.rs:380`); nobody writes it |
| `SeqNeverGoesBack` | Store | `ServicesOps.cfg` | after a kill events pushed since the last save take their numbers again; `events.rs:5` promises otherwise to a poller (`SeqGoesOn`, without a kill, holds) |

## 5. Fairness

Fleet: the loop and each request go on when they can (tokio runs ready tasks,
each engine call has a timeout and a count of tries), and the engine's drains
and rebuilds end. Nothing is assumed of requests arriving, verdicts, faults.
`FailingDriveDrained` assumes no crash (`NoCrash`; see section 4), and its run
has no forced leaves: after one, the record keeps the old health word
(`api/mod.rs:1031`).

Worker: one condition only, that while some task, format run, drive or pending
save can go on, one of them does: `RunsEnd` rests on no order between them.

Health: tasks go on, reads that do not hang return, reads that hang time out.
`Due` is strongly fair: `select!` chooses at random between the tick and the
outcomes, so a drive due again and again is taken although the loop is now and
then busy. Hanging, recovering and the trouble may never come.

Thermal: a pass that judged writes, pushes begin, one that has not failed is
answered, the timer of an unsupported route ends; nothing of readings. Controller:
passes go on and a queued drive of a job starts. Objects: a node's pass goes on;
its refresh, due again and again on a timer, is strongly fair. Enclosure: the
fleet loop's LED pass comes round, and a shelf that is asked again and again
answers in the end: strong fairness, as every refused request in between
disables the step; `FaultFollowsMember` rests on it, nothing else does. Firmware, IomFirmware: requests under way and their tasks
go on (each wait has a deadline); the engine's resync, the drives' return and a
restarted IOM are not assumed. Store: file operations end and a persist follows,
as every tick of the monitor begins one. Hotplug: the loop and the thread;
KubeWatch: the task, and a client that reads; Push: the loop's step, the timer
after a 404, the engine's answer.

## 6. Proofs

`FleetProofs` (from `FleetAssumption`, the types of the constants): `IInv` is
inductive, hence `TypeCorrect`, `PendingHoldsNothing`, `OnlyAskedRetire`. The
two properties are not inductive as they stand. Write-backs of what was read
before an engine call carry a drive's wish to leave from the record to a
snapshot, from there to the locals of the loop, and back: `AskedInv` says, of
the record, the file, each snapshot and each program counter, that whoever
carries the wish had it from somebody who asked. `WaitInv` says of memory *and*
file that a pending drain holds nothing, as a crash turns one into the other.
`TypeInv` adds to the types that a task at a working step has a drive.

`HealthProofs` (from the assumptions that `Hysteresis` and `MaxConcurrent` are
positive and the readings known): `HealthInv` is inductive, hence
`SticksOnlyRepeated` for every hysteresis. The reference (`believed`) is what
the samples alone make of a drive. The damper may lag behind it, as the loop
dies and its streaks with it, but never leads: `DampInv` says that its count is
at most the samples' in a row, and that between the loop's read and its write
only a finding moves the status. The core is `ApplyDamps`: one outcome judged.

`WorkerProofs` (from `WorkerAssumption`, the types of the constants, and
`AllKept`: there is room for every job): `IInv` of `WorkerInv` is inductive, for
any drives, step lists, lanes and troubles, hence `PasswordOnRecord` and
`BusyIsOwned`. Neither is inductive by itself. `PasswordOK` says where in an
erase the drive *may* be locked, and that what the run knows of the answer
(`ok`, `keep`) does not contradict the lock when it decides to forget the
password; `SavedOK` that memory is ahead of jobs.json only while it is being
saved; `StateOK` that a run at work says so, which is why no resume and no
restart takes its drive over; `OwnedOK` names, for a busy drive, who will set it
idle: a run on its way there, a format run, or, after a restart, the job itself.
`OnceInv` carries the two
action properties: what ended on disk ended so in memory, and no task is on its
way to a step of it (`EndedOK`), so `EndedStays`; the step on disk is never ahead
and no command was sent for a later one, and before its command a run stands at
a step not sent yet or asked for again (`SentOK`), so `NeverRerunBlind`.
The proof has one lemma for steps of a run (`RunActs`), one for steps of others
(`OthersAct`), one for requests (`RequestActs`) and one for the restart, and
every action is brought under one of them. `AllKept` is needed: beyond 64 jobs
the code drops the oldest finished ones, also one whose failed erase left its
drive locked (`worker.rs:729`).

`ThermalProofs` (from `ThermalAssumption`, the types of the constants, and
`NoneAssumption`): `ThermalInv`, `HotIsTold`, `ReplaceIsEarned` and the action
property `LeftOnlyBelow`. That no limit is raised and no level flaps are facts of
the two decisions alone (`ResolveBound`, `LevelOfType`), which `TrackedType`
carries to one component and `Judged*` to a whole pass. The others need history:
`ToldOK` counts an alarm that a pass has judged and not yet said as told, so that
what is hot and not worth telling anew was told before; `HotOK` says that what is
critical has been so at least since its level says, in a row, which a restart
breaks safely as it forgets the level too.

`ServicesProofs` proves the five services, each for all values of its constants
and then in the composition the run checks (`ServicesKeepAsTold`,
`ServicesLoseNothing`).

- *State files* (from `StoreBounds`, `BudgetsAssumption`: capacities and bounds
  are numbers). `Store` implements `Register` once per file
  (`FilesImplementRegister`, the property `FilesAreRegisters`), for any ring,
  failed writes, kills and resets. The mapping forgets the ring and keeps, of
  the values a reset may make of a file, whether they are whole and how new.
  `StoreInv`: what a file reads as is the newest of those values (`FileOK`), a
  save about to be renamed is whole, was synced, and is as new (`WriteOK`), and
  memory is at or above every file (`Number`). The step that carries it is
  `Start`: what cannot be read counts as nothing, so moving it aside makes
  nothing older, and events restored are numbered on from the file. `KeptInv`
  adds what the other promises need: rings in order wherever they are
  (`RingsOK`), what was noted as saved is in the file (`SavesOK`), what a stop
  owes is in memory, then on its way or in the file (`OwedOK`), and no number a
  client has is ahead of what goes on (`GoesOn`). Hence `StoreOK` and
  `NothingLost`. What the one-step saves of Fleet and Worker rest on is here.
- *History* (`JournalAssumption`, `NoCountAssumption`): `JournalInv`. The newest
  whole record of all months is the baseline, and every count between the first
  one and it is told (`BaselineOK`); the summary in memory is ahead of the disk
  only after a failed write (`CountsInv`). Hence `JournalOK` and the action
  property `EarlierKept`, for any months kept.
- *Images* (`NoInodeAssumption`): while uploads do not overlap the temporary's
  bytes are the running upload's own and the image is another file (`Apart`).
- *Gate* (`GateAssumption`): a review and its decision are at most a tick apart
  (`ClockOK`), an answer that allows a write was true when it was given, and one
  that is kept was given at most a tick before (`AnswerOK`); so what the cache
  lets in is no older than `Ttl` and a tick. That no review outlasts a tick is a
  guard of `Tick`.
- *Calls* (`CallAssumption`, `NoneAssumption`): `TimeOK` is the one that needed
  thought: what is left of the deadline bounds the timeout of a try, and each
  refused credential of that try (`Before`) may have taken it once more.
  `TokenOK` shows why a call is not refused for a token it could have read again.

`DrivesProofs` does the same for the six modules of `Drives`, and composes them
(`DrivesAreFound`, `DrivesMissNothing`, `DrivesActSafely`, `DrivesTellTheEngine`).

- *Kernel events* (`HotplugBounds`): while the listener lives, disks no scan has
  seen have an event in the buffer or the channel, or the loop is about to scan.
  Inductive with the types, for any buffer, interval and swaps.
- *Watch* (`WatchAssumption`, `WordsAssumption`): `WatchInv` says that what the
  client holds, after what is in the channel and what is about to be sent, is
  what the task saw, and that each event fits the state it will find (`Agrees`).
  The lemmas are about a list of events applied one by one (`AfterOf`).
- *RAID controllers* (`RaidAssumption`): `RaidInv`, that the table is the scan's
  (`TableIsScan`), drives are placed by it, and a bay shown was once reported.
- *Discovery* (`PassesAssumption`): `DiscoveryInv`. An answer of the probe cache
  is what the drive holds unless it was changed since (`CacheInv`), and a pass
  nothing disturbed has seen what is there, phase by phase (`PassInv`).
- *Requests on a drive* (`StartsAssumption`): `ActsInv`. As long as nothing
  excuses it one request is at work at a time, a drive out of sight is not
  there, and nobody came to hold what is about to be written (`FreeStill`).
- *Pushes* (`ListingsAssumption`: a slab is one slab and names one WWN in every
  listing): `PushInv`. Of each drive it says what the engine holds by where the
  last answer is: noted (`LabelsHeld`, `OcHeld`), heard and not yet noted
  (`LabelsSent`, `OcSent`), or a join's (`JoinHeld`); the labels under way are of
  the place of record (`PlacesSent`), which is why a join that comes between does
  no harm; and the usage of all drives is of one listing (`UsageOK`). The proof
  changed the property: between a retirement's call and its note the drive may
  be opened by somebody else, joined and left again, so what the record claims
  of a drive being retired is not checked until the note is made (`Underway`).

`HardwareProofs` proves what `EnclosureOK`, `OneLedAtATime` and
`UpdatesKeepAccess` say of shelf and updates, for any bays, drives and shelves.

- *Shelf* (`LayoutsAssumption`: the bay is in every layout, once): `EnclosureInv`.
  A request made on a report of the shelf's present generation is for the
  element it was meant for (`Placed`), and only the fleet loop's is for the
  bay's fault LED; a bay recorded as lit shows it unless a page was built on
  bits that had changed (`FaultBayIsLit`). After a refit a request may reach
  another element, which is why the properties excuse it. A report is the merge
  of what the ESPs answer; the model takes it as one record (`ReportOf`), and
  `ScanIsFound`, which TLC evaluates, says that the merge makes just that record.
- *Drives' firmware* (`NodesAssumption`): `FirmwareInv`. Only the update that
  holds the lock is past it (`LockHeld`), and one let through by the gate has
  seen no drive away (`ClearToGo`), nor can one go before it resets its own; so
  at most one drive is away at a time (`OneAway`).
- *IOMs* (`ShelvesAssumption`; a shelf has an IOM, as `iomfw.rs:358` refuses one
  without): `ShelfInv`. While nothing excuses it and no single path is allowed,
  one start runs (`OneRuns`), an IOM is flashed only under its watch
  (`FlashWatched`), and a start about to take one away has, as of a scan since the
  last went down, two paths to every drive that serves (`TouchedWithTwo`).

`ControllerProofs` (`ControllerAssumption`: types and signs of the constants, an
operation is no policy, a spec names drives of the node; `NoneAssumption`): the
inductive `IInv`, hence `ControllerInv` and `DoneOnceAGeneration`, for any
objects, specs, drives and bounds. Both are about a pass that works on a list
while users edit, delete and make objects again, statuses are lost, jobs are
dropped and the daemon restarts.

- *Who is who* (`UidsInv`): one uid, one object; the list is no newer than the
  objects; no job is for a uid or a generation still to come. So an object made
  again under its name has nothing of the old one's.
- *Answered* (`AnswerInv`): a generation of an operation that has a job says so
  in the object and on the list, or in the status about to be put: after the job
  is dropped (`KEEP_JOBS`) only this keeps it from running again.
- *Jobs and records* (`JobsInv`, `RefInv`): what a kept job has not done is
  waiting, at work, interrupted or given up; a record names jobs of its own
  object, wherever the record is (object, list, patch, last told).
- *One job a drive* (`LiveInv`): two jobs of a policy never both have a drive
  queued, running, or interrupted and still to be resumed, but for one whose record
  is gone (`Lost`): nobody resumes it. The drives about to be submitted are in
  none. This needs `RefInv`, as only a job that a record names is resumed.
- *No retry* (`RetryInv`): a drive given up under a generation is on record in
  the object, counting what is about to be written over it (`MergedRecord`), or
  in the records at hand while a pass submits; that is what `retry_blocked` reads.

A lost status write or a crash excuses the last two steps of the argument
(`Troubled`), as the properties say; `LiveInv` holds without excuse. Each kind of
step (a list taken, a turn, a put, jobs made, jobs gone on, a restart) has one
lemma for each part, and `NextKeeps` brings every action under them.

Only model-checked: everything under fairness (the prover has no rule for
ENABLED), that is the liveness properties of all modules; and what
`Objects` promises of its states and steps (`ObjectsOK`, `TroubleIsSaid`,
`DefaultKept`). Assumptions are the types and signs of the
constants, and that `None` is none of them; TLC evaluates them in the runs.

## 7. Plan: what is left

1. Theorems about `Objects`: who writes a shelf's object, and that what a user
   put into it is not taken back.
2. Abstract specifications of membership (out, in, leaving; leaves only when
   asked), implemented by Fleet, and of a job service, implemented by Worker
   and used by Controller in the place of its own.
3. The pure algorithms: retry schedule, GPT layout, PI plan, bay slots.
4. PATCH of api/kube.rs, with its order of checks over several fields.

## 8. Not modelled, and why

Byte decoding (`scsi.rs`, `smart/`, `pi.rs`, `gpt.rs`, the pages of `ses.rs` and
`megaraid.rs`), sysfs walking and object rendering have no state of their own to
go wrong over time and are unit-tested beside the code; the models take what
they decode as input. `metrics.rs`, `assets.rs`, `tls.rs`, `config.rs` are
formatting and wiring. What is about time itself (phases, cooling, the length of
a wait) is abstracted to "at some moment", or counted in passes or ticks. Every
component is listed as `partly` rather than `modelled` because some operation
with state, if only a counter or a figure, is left out; the notes say which.
