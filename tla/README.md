# memlinkd in TLA+

memlinkd is a daemon for hosts that run more virtual machines than they have
memory for. It reads the memory statistics of the guests through libvirt, makes
guests that use little inflate their virtio balloon so that the host gets free
pages back, and then deflates the balloon again, so that the guest keeps the
right to all its memory. This directory holds a TLA+ model of the daemon, the
TLC configurations that check it and the TLAPS proofs about it. Line numbers
refer to `src/src/` of the repository; `PROJECT.json` maps every definition to
the lines it models.

## The system

| part | state | operations | talks to |
|---|---|---|---|
| balloon controller, `BalloonVmMemThread` (`memlink_core.c`) | in each `VirtualMachineInfo`: `ballooning`, `ballooningDown`, `incompleteBalloon`, `needBalloonFlag`, `balloonTarget`, the last two sizes | every 2 s: read statistics, mark balloons nobody tends, count pressure, start, watch and undo balloons | libvirt; the list under its lock |
| virtual machine list, `g_vmlistHead` (`memlink_driver.c`) | entries, `count`, reference counts | add by domain id, delete by name, free all, refresh | called by the event, main and balloon threads |
| event thread, `DomainEventProcessThread` (`libvirt_helper.c`) | `g_libvirtConn`, the callback id, `g_libvirtChange` | connect, register, rebuild the list, handle one event after the other, notice a loss | libvirtd; wakes the main thread |
| main thread (`main.c`, `CoreInit`, `CoreExit`) | `g_stopMemlinkd`, the PID file | start, refresh after a reconnection, signal, balloon back and free on exit | the two other threads, systemd |
| startup handshake (`CreateEventThread`, `readySem`) | a semaphore on the stack, a timeout | wait for the first list | main and event thread |
| configuration (`LoadCfgFile`, `SetValueToCfg`) | five global parameters, `/etc/memlinkd.conf` | read with range checks and defaults; rewrite | - |
| helpers (`util.c`), log, service files | - | locks, sleep, `/proc` and cgroup files, log | - |

What is hard: the controller works on statistics that are old by the time they
are used, or missing; a call to libvirt may fail, or succeed and report an
error; libvirtd may go away, the guest may reboot or be suspended, the daemon
may be killed, all in the middle of a balloon, and nothing is persisted; the
list is kept from two sources (a snapshot and events) and keyed in two ways (by
id and by name); nobody waits for the threads on exit. `PROJECT.json` lists
these hazards with their lines and the properties about them.

What makes the parts correct:

* controller: the flags of a machine agree with what libvirt was asked for; a
  balloon is never given up before the memory was asked back; memory comes back
  in two steps; a guest is left what it needs; in the end it has its memory
  back.
* list: no duplicates, right `count`, no machine that is gone, no running
  machine missing, no machine with huge pages, and agreement with libvirtd once
  things come to rest.
* life cycle: an orderly stop leaves no guest squeezed; a killed daemon is
  repaired by the next; there is one daemon at a time; a daemon that is told to
  stop, or whose start times out, exits.
* startup: the daemon works only with a list that was built, and with the
  settings the file gave it, or its defaults.

## Modules

The controller:

* `BalloonMath`: the thresholds, the unsigned differences, the memory pressure
  and the target of `DoBallooning`. Percentages are exact where the code uses a
  float. `2^64` is the constant `WORD`.
* `BalloonProtocol`: what the controller promises about a machine, and nothing
  about how. Of a machine there is no record (`out`), or it is `idle`, gives
  memory up (`down`), is to be asked to take it back (`retry`) or is taking it
  back (`back`). As long as its record lasts it becomes idle again only by
  `Finish`, when libvirt has been told to give it (nearly) all its memory. A
  record ends with the machine's stop event (`Forget`), or with all others at a
  reconnection or the end of the daemon (`ForgetAll`). Memory nobody keeps
  account of comes from a lost answer, a dropped record or a machine that
  started small, and is found again by `Adopt`.
* `Balloon` (extends `BalloonMath`): the controller, what it sees of the list
  and the connection, the main thread, and the environment (domains, guests,
  libvirtd). A *domain* is one run of a machine. `vm[d]` and `stat[d]` are the
  two halves of its `VirtualMachineInfo`, `hv[d]` the real guest. Code under
  `g_vmlistHead.lock` is one step, except a pass of `BalloonMainLoop`: there
  each machine is a step, so that a kill, a guest or a loss of libvirtd comes
  between two machines while the other threads wait for the lock (`LockFree`).
  Each branch of an iteration is an action: `Skip`, `CountPressure`,
  `StartBallooning`, `KeepBallooning`, `BackStepOne`, `BackDone`,
  `BackStepTwo`, `BackWait`. The order of the machines in a pass is left open
  (the list is a linked list with insertion at the head; no property depends on
  it). `Protocol == INSTANCE BalloonProtocol` with `PhaseOf` (the flags of a
  listed machine, `out` for the others) and `Lowered` (from what libvirt was last asked for) is the
  refinement mapping.
* `BalloonFaults` (extends `Balloon`): the same with at most `MaxFaults`
  disturbances, and with fairness.
* `BalloonPressure` (extends `Balloon`): the same with a history of the passes
  that found a guest at leisure.

The list:

* `CommandLine`: how `util.c` searches the command line of QEMU for a word: the
  buffer that cuts the line, the walk from argument to argument, the three
  results of `CheckString`.
* `VmList` (extends `CommandLine`): the list and the event thread in single
  steps, with libvirtd's queue of events.
* `VmListMissed` (extends `VmList`): the same with a history of the domains that
  a failing call, or an answer that was too short, kept out of the list.
* `VmListController` (extends `VmList`): the refinement mapping from `VmList` to
  `Balloon`. `Balloon` has no event queue, no ids and no snapshot: a domain that
  runs may be added, a listed one be removed by a stop event, everything is
  removed at a reconnection. `ListSeen`, `ConnSeen` and `ChangeSeen` are what is
  left of `VmList` on that level; the guests lend no memory, since nothing in
  `VmList` balloons them, so the records of the machines are those that
  `InitAndCheckVM` leaves. `Balloon` sees nothing before `SemPost`, and takes the
  first list over as a whole (`StartDaemon`). The mapping leaves the balloon
  thread at the head of its loop: it is about the steps of the list and the
  connection that `Balloon` takes for granted, not about passes.

The process:

* `Config`: the value a parameter gets from `/etc/memlinkd.conf`. A line is its
  key and its integer, or `Malformed`; `strtol`, the assignment of its result to
  an `int` and the range checks are modelled with their widths.
* `Clock`: the deadline of `SemTimeWait` and the nap of `SleepApprox`.
* `Startup` (extends `Config`, `Clock`): main, event and balloon thread of one
  daemon from `LoadCfgFile` to the return of `main()`: the semaphore, the mutex,
  `g_stopMemlinkd`, signals, threads that cannot be created, libvirt calls that
  never return. Each wait and each section under the mutex is a step.
* `PidFile`: several processes that open, lock, fill, unlink and close
  `/var/run/memlinkd.pid`, with the name and the inodes apart.

`MCBalloon`, `MCBalloonPressure`, `MCVmList`, `MCVmListController` and
`MCStartup` are the instances for TLC. `BalloonProofs`, `BalloonRefinement`,
`BalloonSteps`, `VmListProofs`, `VmListComplete`, `VmListRefinement`,
`StartupProofs` and `PidFileProofs` hold the theorems.

Definitions introduced by "A bug to detect" are wrong variants of the definition
that follows. They are not part of the specifications; putting one in the place
of its original must make a property fail (`mutants` in `PROJECT.json`).

## Runs

| run | configuration | checks | distinct states |
|---|---|---|---|
| `balloon` | `Balloon.cfg`: one machine of 8 GiB, any 2 faults | `TypeOK`, `FlagsTruthful`, `NeverForgets`, `TwoStep`, `LeavesEnough` | 1.7 million |
| `balloon_two` | `BalloonTwo.cfg`: machines of 8 and 1 GiB, 1 fault | `FlagsTruthful`, `TwoStep`, `LeavesEnough`, `KeepsProtocol` | 0.6 million |
| `balloon_live` | `BalloonLive.cfg`: one machine, 2 faults, fairness | `GivenBack` | 0.2 million |
| `vmlist` | `VmList.cfg`: 3 machines (one with huge pages), 3 starts, 2 losses, failing calls | `TypeOK`, `ListSound`, `NoGhost`, `HugePagesStayOut`, `MissingHasCause`, `ServesController` | 1.0 million |
| `vmlist_live` | `VmListLive.cfg`: 2 machines, 4 starts, 1 loss, fairness | `NoMissing`, `Converges` | 0.3 million |
| `startup` | `Startup.cfg`: eight files, signals, 2 machines, 2 losses, calls that hang without the mutex, fairness | `TypeOK`, `SettingsAsWritten`, `WaitIsTimed`, `NapsBetweenRounds`, `ReadyMeansBuilt`, `PostInTime`, `MutexGuardsList`, `TimeoutExits`, `StopsWhenTold` | 0.1 million |

The remaining six runs are expected to fail. Each compares a comment of the
source with what the code does.

| run | comment | what the run shows |
|---|---|---|
| `pressure_window` | `memlink_core.c` 129: "when loop N times, memory keep less than LOWER_LIMIT in N*interval s" | usage between 30 and 50 % does not reset the count, so a machine is ballooned right after such a pass |
| `windows` | `memlink_driver.c` 162: "windows VM is a kind of special VM, will not be ballooned" | `isWindows` is set and never read |
| `exit_race` | `memlink_core.c` 348: "if vm is ballooning when stop memlinkd service, should balloon back" | the balloon thread, past its stop test, starts a balloon between `BalloonBackVmMem` and `FreeAllVM` |
| `vmlist_race` | `libvirt_helper.c` 489: "Build vmlist, collect all current VMs into vmlist" | a machine that starts between `virConnectNumOfDomains` and `virConnectListDomains` displaces another one from the truncated list, for which no event will come |
| `startup_hang` | `memlink_driver.c` 61: "the timeout is used to exit memlink while worst cases happened, such as libvirt didn't return" | `FindAddVMToList` calls libvirt with the mutex held; when that call hangs the wait times out, but `CoreExit` waits for the mutex for ever |
| `pidfile` | `main.c` 119: "memlinkd already running, so exit" | the PID file is unlinked before it is closed; a process that had opened it locks a file without a name, the next one creates a new file, and both run |

### Bounds

* Sizes are real, in KiB. `MCLevels` are sizes on both sides of each threshold
  the code compares with: 1 MiB from the target, 300 MiB between two passes, 2
  and 1 MiB from the whole. `MCFreeLevels` put the usage below 30 %, between 30
  and 50 % and above 50 %. `WORD` is 20000000 instead of 2^64, still larger than
  twice every size, so a difference wraps exactly when it does in the code.
* `NEED_BALLOON_CHECK_TIMES` is 2 (3 in `pressure_window`) instead of 20: one
  pass that counts, and one that balloons.
* `MaxFaults`: with two faults every pair occurs at every point, as a lost
  answer and then a kill, or a loss of libvirtd during the rebuild after a
  loss. The proofs need no such bound.
* `VmList`: three starts over three names give two machines that compete for
  the truncated list as well as a machine that is started again (a stop event
  older than the list); two losses give a connection that is lost again while
  the list is rebuilt. The domains of `Balloon` are the ids, so its constants
  only have to satisfy its assumptions there. `vmlist_live` has up to four runs
  of one machine.
  Symmetry is over machines with the same kind of memory, in the run without
  liveness. Deadlock is not checked in `VmList`, where nothing happens once
  the starts are used up and all machines have stopped. The buffer for a
  command line has 8 bytes instead of 13072: one machine has the word in its
  third argument, behind an empty one, the others have it cut by the limit, so
  that they count as machines without huge pages. `vmlist` has readable command
  lines; in the other two runs reading may fail, and a machine with huge pages
  is then listed like any other.
* `Startup`: `2^32` is `2^24`, which holds every range of a setting, and `2^63`
  is `2^27`. `MCFiles` has no file, the file of the package, ballooning off (and
  on, in a second line that does not count) with the smallest poll time, values next to their limits on the wrong side, a
  malformed line before a good one, numbers that wrap into and out of a range,
  the numbers -1 and -2 that the code uses for something else, and a number
  beyond a `long`. Each key is read from any of them, as the file is opened anew
  for each. Two machines and two losses give a rebuild that adds several
  machines, and a reconnection after a reconnection. The clock is read on the
  second, next to it and in between. The process ends, so deadlock is not
  checked.
* `PidFile`: three processes and three inodes, enough for one daemon that ends
  and two that meet. A process that ended may start again.

### Fairness

`FairSpec` of `BalloonFaults`: the threads are scheduled (weak fairness of
`BalloonStep` and of the reconnection, `ConnectLibvirt` retries for ever); the
event thread gets the lock (strong fairness of `RebuildList` and
`FindAddVMToList`: the balloon thread sleeps two seconds per pass without it);
systemd restarts a daemon that was killed (`Restart=always`); a running guest
moves its balloon, a suspended one is resumed. Statistics and calls fail only as
faults, of which there are finitely many, and an addition to the list succeeds:
the code never retries one that failed. The run has no guest that reports free
pages itself (`enable_fpr`): `BalloonMainLoop` passes over such a machine even
when it is too small, so it would never get its memory back.

`FairSpec` of `VmList`: the event thread is scheduled. `vmlist_live` is without
failing calls and without the race of `vmlist_race`, either of which loses a
machine for good.

`FairSpec` of `Startup`: the three threads are scheduled and a call that does
not hang returns (weak fairness), except that the event thread may wait for an
event for ever. The mutex is not fair; that the main thread gets it in the end
(strong fairness of `BeginUpdate`, `BeginBack` and `FreeAllVM`) rests on the
other threads sleeping, or waiting for an event, after they released it.

## Proofs

All theorems hold for every value of the constants that meets the assumptions
named below, in particular for any number of machines, faults, kills, restarts
and losses. TLC evaluates the assumptions in its runs.

**`Balloon`** (`BalloonProofs`, `BalloonRefinement`, `BalloonSteps`), from
`ConfigAssumption` (the ranges enforced at `memlink_driver.c` 538-545, which
`SettingsStayInRange` proves) and `BalloonAssumption` (a machine has at least
the 2 MiB the first step back subtracts, `memlink_core.c` 232; its size fits an
`int64_t`; `NEED_BALLOON_CHECK_TIMES` is at least 2):

* `TypeCorrect`: `[]TypeOK`. The lemmas say what each operator on the records
  returns; the substantial ones are `BalloonTargetRange` (the computed target is
  between 0 and the memory whatever the statistics say) and `DomainStatsType`.
* `FlagsAlwaysTruthful`: `[]FlagsTruthful`, inductive together with `TypeOK`. It
  contains what its main parts need: that the qualifying flags are off without
  `ballooning` (a call that starts a balloon does not reset them), and that a
  pass only holds listed machines and only while the lock is held (or a machine
  could leave the list before its visit).
* `NeverForgotten`: `NeverForgets`, from the invariants above and `NoListAlone`
  (without a daemon there is no list), which is what excludes a restart as a way
  to forget.
* `ImplementsProtocol`: `KeepsProtocol`, that is `Spec` implements
  `BalloonProtocol!Spec` under the mapping `PhaseOf`, `Lowered`. Steps that touch
  one machine map to the abstract step of that machine, for which the flags must
  be truthful (`Finish` requires that the memory was asked back); a start of the
  daemon needs `NoListAlone`, so that `Note` finds no record.
* `AlwaysLeavesEnough`: `LeavesEnough`, by arithmetic on the target, including
  the wrapped differences of missing statistics.
* `AlwaysTwoSteps`: `TwoStep`. The second step is decided on statistics read
  before the pass, so it needs `Fresh`: a machine that is still to be visited, is
  on its way back and was nearly back when they were read, still is.

**`VmList`** (`VmListProofs`, `VmListComplete`, `VmListRefinement`), from
`VmListAssumption`, `CommandLineAssumption` and, for the refinement,
`ControllerAssumption` (every domain has a size, and a guest may be one that does
not report free pages):

* `TypeCorrect`, `ListAlwaysSound`, `NeverAGhost`: `[]TypeOK`, `[]ListSound`,
  `[]NoGhost`, with or without failing calls. The inductive invariant adds:
  `Counted` (the counter), `Phases` (what the event thread has and knows at each
  point), `Ids` (ids are handed out in order and once), `Snapshot` (what is
  still to be collected is no later run of a machine already collected),
  `Ordered` (the start of a later run of a listed machine is queued behind a
  stop) and `Unique` (no id and no name twice).
* `HugePagesExact`: what `CheckString` makes of a readable command line is
  exactly whether the token occurs in the bytes that fit the buffer, although it
  searches argument by argument, over empty ones, and stops at the end of the
  buffer. The search is defined by the starts of the arguments; that every place
  lies in one is an induction over the positions, done by the least number
  (`Least`). `HugePagesKeptOut`: `[]HugePagesStayOut`, from there.
* `NothingMissing`: `[]NoMissing` where `~LibvirtMayFail` and `~StartBetween`,
  the two ways in which a machine is lost for good (`vmlist_race` shows the
  second). It adds `Told` (if anything is queued for a running machine, its
  start is the last of it), `Found` (one for which nothing is queued is in the
  list or in the rest of the collection) and `Room` (the array is large enough
  for the domains that run).
* `MissingAlwaysHasCause`: `[]MissingHasCause` of `VmListMissed`, without those
  two conditions. `Told` needs neither; `FoundOrMissed` takes the place of
  `Found`: for each way in which a machine can fail to be added there is an
  entry in the history, and an attempt that succeeds, or finds the machine
  listed, strikes it out.
* `ListServesController`: `Spec` implements `Balloon!Spec` under the mapping of
  `VmListController`. Beside the invariant above it needs `Announced` (who has
  left `ConnectLibvirt` has a connection; `g_libvirtChange` is set only after
  `SemPost`) and `Ids` (a new id is not one that is still listed, or `Balloon`
  would not let the domain start). The theorems about `Balloon` are stated for
  any list that its steps can produce; this one says that what the event thread
  does to the list and the connection are such steps. That the two threads
  together behave as `Balloon` does is an argument by their lock, not a theorem:
  here the balloon thread stands still.

**`Startup`** (`StartupProofs`), from `ConfigAssumption` and
`StartupAssumption`: `TypeCorrect`, `SettingsAlwaysAsWritten`,
`ReadyAlwaysMeansBuilt`, `PostAlwaysInTime`, `MutexAlwaysGuards`,
`WaitAlwaysTimed` and `NapsAlwaysBetweenRounds`.

`SettingsAlwaysAsWritten` is `SettingsAsWritten` for any files: the number that
comes out of `strtol`, the assignment to an `int`, the two values that stand for
an error and for a missing line, and the comparison with the limits is the first
one the file has for the key, or the default; only a number that does not fit an
`int` may be taken for another (the comparison with `INT_MIN` and `INT_MAX` at
`memlink_driver.c` 377 comes after the truncation). The invariant is `Loading`:
each value read so far belongs to the version of the file at its reading, which
the history `seen` keeps, and no setting has been touched yet. That the settings
then are in their ranges (`SettingsStayInRange`) is what the theorems about time
need.

The invariant behind `ReadyAlwaysMeansBuilt` and `PostAlwaysInTime`,
`Handshake`, relates the count of the semaphore to where the two threads are: a
count of one, or a main thread whose wait ended well, means that `initFlag` is set, which
means that the list was built; a semaphore that is gone means that the event
thread will not post it again, that it does not exist, or that the wait timed
out. `MutexAlwaysGuards` adds that there is no balloon thread before `CoreInit`
creates it (`Unborn`); it is the safety half of `StopsWhenTold`, where only calls
made without the mutex may hang. The last two follow from the ranges of the
settings by arithmetic.

**`PidFile`** (`PidFileProofs`), from `MaxInodes \in Nat`: `PidIsOwn` (the file a
daemon has open holds its PID) and `LockExcludes` (until the first `unlink` there
is at most one daemon and the name leads to its file). The second marks the
border of what the run `pidfile` refutes: kills and restarts alone do no harm.

Only model-checked: the liveness properties `GivenBack`, `Converges`,
`TimeoutExits` and `StopsWhenTold`, which are out of the prover's reach.

## Not modelled

* The lifetime of the connection object: the balloon thread tests
  `g_libvirtConn` for NULL and then uses it, while the event thread may close
  it. What such a use does is up to libvirt; `Balloon` has the outcome of a call
  that fails, not that of a use after the close.
* `GetQEMUPidByVMName` beyond success and failure; the float rounding of the
  usage; `SetVmMemoryStatsPeriod` beyond the fact that statistics may be missing;
  the time that passes in `Balloon` and `VmList`.
* Code without a caller: `SetValueToCfg` and `CopyToFile`,
  `CheckVMHasPassthroughDev`, `GetVmMemoryStat`, `CheckDomainIsAlive`,
  `GetRefVMInfoByDomid`, `PutUnrefVMInfo`, `MutexTryLock`, the cgroup helpers.
* Logging, the service files (except `Restart=always`), packaging, the test
  script.

Behaviour met while modelling that is in the models and that nothing in the
repository contradicts: the value -2 for a setting ends the daemon, because it is
also the code for a file that cannot be opened; a number beyond an `int` is
truncated before it is compared with the limits of an `int`, so it may count as a
good one; with a poll time below a second the loop of `main()` does not sleep;
SIGHUP is 1, the number that also means an internal stop, so after it the event
thread does not post the semaphore and a start takes its whole timeout; a failing
`virEventRegisterDefaultImpl` ends the whole process, from the event thread and
without `CoreExit`; a machine whose lookup fails once is not looked up again.

A reboot that the model calls `stuck` follows the comment at `memlink_core.c`
222: a balloon whose device asks for no page is terminated where it stands, and
moves again when the target changes.

## Plan

Done, in this order: `BalloonMath` and `Balloon`, the heart of the daemon, with
their runs; `VmList`; the first three theorems; `BalloonProtocol` and the
refinement, by TLC and by proof; `TwoStep` and `LeavesEnough` by proof;
`Startup` with `Config` and `Clock`; `PidFile`; the theorems about `VmList`;
`CommandLine`, and what it decides by proof; `VmListController` and
`VmListMissed`, by TLC and by proof; the mutex of `Startup` by proof.

Left:

1. `Startup` as an implementation of the life cycle of `Balloon` (the start, the
   signal, `CoreExit`, the passes of the balloon thread), as `VmList` is one of
   its list.
2. What is true instead of the comments that `pressure_window` and `exit_race`
   refute, as theorems: which passes the count stands for, and which machines
   `CoreExit` may leave ballooned.
3. `Connection`: use and closing of `g_libvirtConn` by two threads, if the
   daemon ever guards it.
4. Liveness of `Balloon` with machines that report free pages themselves, once
   `BalloonMainLoop` no longer passes over a small one.
