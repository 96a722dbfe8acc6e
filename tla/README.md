# TLA+ models of the Sapote kernel

This directory holds TLA+ specifications of the concurrent and crash-exposed
parts of Sapote (the repository under `src/`), the TLC configurations that
check them on small instances, and TLAPS proofs for every instance.
`PROJECT.json` lists, for each definition, the source lines it models, and the
hazards the properties are aimed at.

Paths below are relative to the repository (`src/kernel/...` is
`src/src/kernel/...` seen from the parent of `tla/`).

## The system

Sapote is an x86_64 kernel for one processor. C code owns the hardware, Rust
code validates foreign bytes, and native applications run in user mode with a
C library of their own (`sdk/`). Kernel code is not reentered except by
interrupts; user code is preempted anywhere. There is one writable disk volume.

| Part | State | Operations | What is hard | What makes it correct |
|---|---|---|---|---|
| Native handle table (`native_handle.c`) | slots with generations, object records with reference counts, two counters | install, resolve, duplicate, close, close_all | generations of finite width, a close callback that refuses, the last of several handles | exact counts; a resource is open exactly while a handle names it; a closed value resolves to nothing |
| Deadline timers (`timer.c`, `apic_timer.c`) | table of pending deadlines, the one-shot countdown | start, stop, arm, cancel, sleep, expiry interrupt | the interrupt races with every check; the countdown has 32 bits; callbacks arm again | a deadline the hardware took is always scheduled, fires in order and is served; a sleep is never short |
| Native processes and their scheduler (`native_process.c`) | process slots, thread records, console input, cursors | spawn, run loop, blocking system calls, faults, reaping | halting the core while something could run; starvation; ends in any order | halt and stall only when justified; every runnable thread runs; a run ends and reports the newest process |
| What native processes own (`native_process.c`) | page records, mappings, aliases, handles, files, directories, sockets, threads, the window | load, memory map and unmap, open, create, duplicate, close, cleanup | every call acquires several things and may fail between any two; a window is reached by two handles and the screen | records, tables and machine agree between calls; nothing outlives its process |
| SDK threads (`sdk/src/thread.c`, `runtime.c`) | lock words, thread records, once word | lock, unlock, create, join, exit, once | preemption between any two memory accesses | mutual exclusion, no lost wake-up, join returns the right value, once is a barrier |
| FAT32 data volume (`fat32_fs.c`) | two FAT copies, directory sectors, FSInfo pair, mount record, handles | mount, create, mkdir, unlink, rmdir, truncate, rename, open, write, close, sync, unmount | no journal: power loss or a refused write between any two sector writes; full volume half-way | a completed call leaves a mountable volume; an interrupted one shows the old tree, the new tree or is refused |
| Kernel threads (`thread.c`) | slots, stacks, counters, quantum deadline | start, create, yield, exit, join, enable and disable preemption, stop | a thread is suspended in one place and resumed from another; the quantum re-arms itself from its own callback | queue, counters and stacks agree; each thread keeps its own interrupt flag; preemption reaches everyone |
| Network stack (`network.c`) | connection slots, listeners with children, timers, one retransmission per connection | open, listen, connect, accept, read, write, shutdown, close, cancel, segment received, device reset | lost, repeated and late segments, a timeout racing an acknowledgement, small shared tables | bytes in order and once; what is reported as written has arrived; no slot is lost |
| Boot ledger and plan (`boot_ledger.c`, `boot_plan.c`, `boot_proofs.c`) | descriptors, canonical order, receipts, the facts established about the machine | add, validate, plan, execute, verify, publish | 57 stages ordered by declared capabilities only; optional stages fail or find no device | order respects every need, declared or not; a published outcome was found out |
| Device ledger (`pci_resource.c`, `dma.c`, `interrupt_vector.c`, `msix.c`) and the drivers (`nvme.c`, `xhci.c`, `virtio_net.c`, `virtio_rng_proof.c`, `audio.c`, `driver.c`, `nvidia.c`) | claims, mapped BARs, allocations and their owner, vectors, bindings | claim, map, allocate, bus master, bind, and the reverse; a bring-up and a teardown per driver | failure after any step, then failure of the clean-up | no stray DMA, bindings stand on what they need, nothing left behind |
| Processes at boot and Linux programs (`process.c`, `multiprocess.c`, `linux_*.c`, `filesystem.c`, process half of `paging.c`) | address spaces, narrowed aliases, frames, gate, reader session, system-call record | build, enter, system calls, traps, turns, release; deliver a line | failure at any step, on purpose or not; aliases restored newest first; a program suspended in a read | kernel map exact, nothing runs on memory that was given up, everything given back |
| Frames and heap, kernel page tables, input rings, drawing, parsers, clocks, C library | | | sequential or pure I/O | not modelled; reasons in `PROJECT.json` |

How the parts meet: `kernel_main` runs the boot plan, whose stages call the
drivers, the process proofs and the thread and timer self tests. Drivers share
the device ledger; the process proofs share address spaces, the kernel map and
the private file reader. The native scheduler services devices and polls the
network and calls `timer_sleep_ns` for the nearest deadline; its blocking
system calls are what the SDK's locks are built on (both use module
NativeThreads); handles give processes access to sockets, timers and files.
The quantum of a kernel thread and the wait of a network call are deadlines of
the timer. The filesystem is called by the shell and by system calls, one
operation at a time, over NVMe.

## Modules

| Module | Models | EXTENDS / INSTANCE |
|---|---|---|
| HandleCapability | contract of the handle table: names, grants, revocation | |
| NativeHandle | `native_handle.c` | INSTANCE HandleCapability |
| NativeHandleProofs | its theorems | NativeHandle, TLAPS |
| DeadlineTimer | `timer.c`, `apic_timer.c`, `network_wait_for_interrupt` | |
| DeadlineTimerProofs | its theorems | DeadlineTimer, TLAPS |
| NativeThreads | thread states and the thread and futex system calls, as operators on a process's thread records | |
| NativeScheduler, MCNativeScheduler | `native_process_run` and the blocking system calls | NativeThreads |
| NativeSchedulerProofs | its theorems | NativeScheduler, TLAPS |
| NativeResources | loading, the system calls that acquire and give up resources, `process_cleanup` | |
| NativeResourcesProofs | its theorems | NativeResources, TLAPS |
| SdkThreads | `sdk/src/thread.c`, lock of `runtime.c`, on the kernel's threads | NativeThreads |
| SdkThreadsProofs | its theorems | SdkThreads, TLAPS |
| Fat32Volume | what `fat32_fs.c` reads: chains, scans, paths, mount validation | |
| FileTree | contract of the volume: a tree replaced by another | |
| Fat32, MCFat32 | the operations of `fat32_fs.c` | Fat32Volume, INSTANCE FileTree |
| KernelThreads | `thread.c`, with the timer table as a number of entries | |
| KernelThreadsProofs | its theorems | KernelThreads, TLAPS |
| NetworkTcp, MCNetworkTcp | the TCP half of `network.c`, a wire and conforming peers | |
| NetworkTcpProofs | its theorems | NetworkTcp, TLAPS |
| BootLedger | `boot_ledger.c` and its driver in `kernel.c`, for any plan | |
| BootLedgerProofs | its theorems | BootLedger, TLAPS |
| BootProofs | what the executors call, as steps over facts about the machine | |
| BootPlan | the installed plan of `boot_plan.c` | BootProofs |
| BootSelfTests, MCBootPlan | the synthetic plans of the self tests; the composition | BootPlan, BootLedger |
| DeviceLedger | claims, DMA, vectors, MSI-X | |
| DriverSteps | the vocabulary of driver steps | |
| NvmeDriver, XhciDriver, VirtioDrivers, DriverMatrix | the drivers, as sequences of steps (audio, display and the driver matrix in DriverMatrix) | DriverSteps |
| Devices | all drivers at work on the ledger | DeviceLedger, INSTANCE each driver |
| ProcessSpaces | the process half of `paging.c` | |
| LinuxSyscall | `linux_syscall.c`, as operators on its record | |
| ProcessSteps, FileReads | the vocabulary of launch steps; `filesystem.c`'s private read | |
| ProcessProof, Multiprocess, LinuxProgram, LinuxEcho, LinuxUname, LinuxCat | the proofs and launchers, as sequences of steps | ProcessSteps |
| Processes | all of them at work on the address spaces | ProcessSpaces, INSTANCE each |

Definitions have the name of the function they model; other names are helpers.
Operators such as `Erased_release_first` or `lock_wait_unchecked`, named after
the definition that follows them, are deliberately wrong variants of it: each
one makes a property fail, which shows that the property depends on that code.

### NativeHandle

State: `slots` and `objects` are the table, `active_handles` and
`active_objects` its counters, `open` the resources not yet finalised. `kept`
is one value a program keeps after closing it and `lapped` says whether its
slot's generation has overflowed since; both are history. One action per
function; `native_handle_close_all` runs as one step, with an arbitrary set of
objects whose close callback refuses.

### DeadlineTimer

One processor with two contexts, kernel code (`pc`) and the timer interrupt
(`ctx`). Time is relative: an entry holds the ticks left. The
hardware is `armed`, `count` and the latched request `irr`. `timer_sleep_ns`
and `network_wait_for_interrupt` are split where interrupts are enabled. The
kernel's own intervals (`Intervals`, `Frame`) are constants that fit the
countdown; those of user threads (`Asked`) are of any length. `timer_arm` is one
step with interrupts disabled. With interrupts enabled it is three
(`timer_arm_enabled`, `arm_refused`, `withdraw`): the entry is in the table, the
hardware refuses, the slot is cleared, and the handler may come between any two.
`slot` is the slot that a rollback or a `timer_cancel` is about to clear.

### NativeThreads, NativeScheduler

NativeThreads gives the effect of create, exit, join, futex wait and wake on
the records of one process. NativeScheduler is the loop: devices are serviced
with interrupts enabled (`service_native_devices`); then, in one step with
interrupts disabled, waits are ended, a thread is chosen and entered
(`enter_user`), or the core idles, halts or gives up. System calls, interrupts
and exceptions leave user mode; `reap` removes the newest process while it is
exiting. User programs may make any call at any time.

### NativeResources

`process` holds the record of each slot: `pages` is the sorted page list with
kind and `mapped`, `tables` what is in the page tables, `handles` the number of
handles of each object, `window` the window record. `machine` is what
processes share: frames, heap blocks of pixels, the narrowed aliases, open
files and sockets, the windows on the screen. A load, a system call or a
cleanup is one step, since no other of them runs meanwhile; its ways to end are
the disjuncts: a loop of "allocate a page, map it" may stop at any page for want
of a frame, of the memory limit or of a page table (`Grown`), and what the code
then undoes is undone. Operators take the process and the machine together
(`World`) and carry whether the call has succeeded (`ok`). Every system call
ends a round of `native_process_run`, whose reaping removes the newest process
as long as it is exiting; a cleanup that failed leaves the rest to the next
round (`reaping`). Drawing a window fails nondeterministically when it is opened
or closed; `drawn` and `cleanups` are history.

### SdkThreads

Every atomic access and every system call is a step, and so is every access of
`pthread_exit`, which looks for its record without the lock; any runnable
thread may take the next one. The client joins each thread once and does not join or end
a thread inside a critical section.

### Fat32Volume, Fat32, FileTree

A volume is two FAT copies, the contents of clusters (one sector each) and
whether the two FSInfo sectors agree. Beginning an operation computes the
sectors it will write from the volume it finds, in the order of the code;
`write_sector` performs one. Between two of them the device may refuse the
write (`write_refused`: an error completion leaves the NVMe command
outstanding, so all later accesses of the session fail and nothing more of the
operation, including its clean-up, reaches the disk) or the power may fail
(`power_loss`). `sapfs_mount` validates the volume as the code does and
measures the free clusters; `mount_refused` is the failing case. An error that
is found before the first write is a stuttering step.

File contents are abstracted to "zeroed" and "bytes"; the sector cache is left
out because it lives for one operation and writes through. Paths are normalised
by the callers (`shell.c`, `native_process.c`), so they are sequences of names.

FileTree says what this is worth: `shown` is the tree a mount would show (or
Refused) and `goal` the trees before and after the current operation. At every
instant `shown` is the old tree, the new tree or Refused. The one exception,
stated in FileTree, is that an empty file being renamed may be seen under both
names, since two entries without clusters do not clash.

### KernelThreads

One core. Each stretch with interrupts disabled is one action; `thread_join` is
split at each look at its target (`join_yield`, `join_return`). `saved` is the
interrupt flag a suspended stack will restore, which is where a switch can go
wrong: a thread leaves the processor by a yield, an exit or an interrupt and
comes back by any of the others. `masked` records which threads have opened a
critical section of their own. The timer table is a count of entries, so it
gets full. `quantum_expired` runs in the timer interrupt and re-arms itself;
`thread_on_interrupt_return` does the switch it asked for.

### NetworkTcp

The stack runs one call at a time (`call`); while the call waits,
`tcp_receive_segment` may be given any segments, and each check of a deadline
may find it reached or not. `inbound` and `outbound` are the wire, `stray` the
segments that left its order: each arrives once more, later, or never. Peers
are conforming endpoints outside the repository and act as a client, a server
or one that vanishes. Payload bytes are numbered, sequence numbers are taken
modulo `SequenceSpace` and wrap in the run, and the comparison of sequence
numbers is the code's signed difference. `generation` ends a call whose device
was reset under it. Addresses, checksums, ARP and the frame format are left out.

### BootLedger, BootProofs, BootPlan, BootSelfTests

A plan is a sequence of descriptors. `boot_ledger_validate` refuses or starts
the greedy selection (`Select`, one stage a step, `Cycle`, `Planned`);
`execute_stage` takes all steps of an executor and hands back one of the
results the executor can produce on this machine; `boot_ledger_verify_installed`
compares the receipts with the plan and the machine and publishes or panics.
A step of an executor is one call of a subsystem with the facts it insists on,
refuses, establishes and revokes (BootProofs); `blocked` collects calls made
too early, for needs the plan does not declare too. BootPlan transcribes the
57 descriptors. BootSelfTests holds the plans of the two self tests with the
status each expects.

### DeviceLedger, drivers, Devices

The ledger's calls are actions with their refusals as explicit conditions
(`Can...`). A driver is data: the sequence of its bring-up and of its teardown,
built from subsequences named after its functions. Devices interprets the
steps: any step of a bring-up may be refused by the platform (then the teardown
follows, which takes each of its steps whatever becomes of it), and up to
`MaxFaults` kinds of teardown step fail. `engine` is what a running device may
still write to, and `firmware` the devices whose command word had bus mastering
on when they were claimed: a release writes that word back. The boot order of the drivers is kept; the network device stays
up and is reset while the machine runs, and NVMe volumes are opened and closed.

### ProcessSpaces, LinuxSyscall, launchers, Processes

The same form: a launcher is data, Processes interprets it. An attempt may be
told to fail at each of the code's failure points, as the proofs do, and on top
of that up to `MaxFaults` faults happen (a refusal, an unexpected trap or
call, a failing step of a release). `narrowed` is the stack of alias
narrowings and `kernel_map` what they did to the kernel's map: a restore gives a
2 MiB page back as a whole, so the order matters. The processes of
`multiprocess.c` take turns (`give_processor`, `multiprocess_trap_interrupt`),
and `linux_cat` stays suspended in its read between lines
(`linux_cat_abi_deliver_input`) while the heap may grow.

## Runs

| Run | Configuration | Shows |
|---|---|---|
| native_handle | MCNativeHandle | counts, ownership, stale values, refinement of HandleCapability |
| deadline_timer | MCDeadlineTimer | ScheduleExact (a pending deadline is scheduled, but for one refused and not yet withdrawn; no entry is orphaned, no panic), ServedOnTime (no sleep is short, the earliest deadline fires first), and under fairness WaitsEnd (network waits return, deadlines are served) |
| native_scheduler | MCNativeScheduler | HaltIsSafe, RoundMissesNobody (no stall while a thread can be woken; a ready wait ends in the round unless only a later socket of it is ready), LaunchReportsNewest, and under fairness EveryoneGoesOn (every runnable thread runs, a run ends) |
| native_resources | MCNativeResources | ResourcesAccounted (pages, handles and windows lead where their records say), TeardownComplete (whatever is in use belongs to a live process) |
| sdk_threads | MCSdkThreads | MutualExclusion, NoLostWakeup, RecordsOwned (a join returns its thread's value or the main thread's, the record is kept), OnceBarrier, and under fairness OnceReturns |
| fat32 | MCFat32 | SettledVolume (a settled volume mounts and its free count is exact), LiveChainsKept, HandleEntryLive, refinement of FileTree |
| kernel_threads | MCKernelThreads | SchedulerExact (run queue, frames, interrupt flags, quantum), and under fairness EveryoneRuns |
| network_tcp | MCNetworkTcp | SlotBooks, ReceivedInOrder, WrittenIsReceived (but for bytes whose retransmission was refused), EstablishedByBoth |
| boot_plan | MCBootPlan | PlannedInOrder, MachineReady, PublishedIsHonest, SelfTestVerdicts |
| devices | MCDevices | BindingsStand (a binding's claim and table outlive it), NoStrayDma (a bus master runs in its own memory, with two exceptions below), NothingLeaks |
| processes | MCProcesses | KernelMapExact, UserMemoryHeld (no process runs on memory that was given up), EverythingGivenBack, LinesReturned |
| sleep_lost_wakeup | SleepLostWakeup | a counterexample, the finding below |

Bounds and why they suffice:

- MCNativeHandle: three slots, two types, two resources, generations 1..2. Two
  handles of one object next to another object, a full table and a generation
  overflow all occur.
- MCDeadlineTimer: a table of two entries (so it gets full), intervals of one
  and two ticks, user deadlines of one and three, a countdown of two ticks, so
  that the longest does not fit, and an interrupt handler that may take a tick. `Late` is the largest lateness told apart, beyond the point where a
  sleep is given up. The system may stop, so deadlock is not checked.
- MCNativeScheduler: two process slots with two threads each, one futex word,
  one key in flight, deadlines of one tick, and two mixes of programs (a server
  that waits for two sockets and a timer; a worker beside a console reader). Deadlock is not
  checked: a halted core without devices stays halted.
- MCNativeResources: two slots and three kinds of program, one with sockets,
  timers, files and directories, one with threads and memory, one with windows
  and duplicated handles. Each process is loaded with three pages; eight frames
  and a limit of five pages run out while a surface, a stack or a mapping is
  half built. Three handles fill the table before, between and after the two
  handles of a window, and a process opens two windows one after the other.
  Deadlock is checked: a program can always be loaded, run or ended.
- MCSdkThreads: three threads, two records, so records are reused while a third
  thread runs, and three threads meet in once. Deadlock is checked: the only
  quiet state is the program's end (`ended`).
- MCFat32: three clusters including the root, three entries per directory
  sector, files of up to two clusters, paths up to three components over two
  names, one handle. Directories grow (a second name in a subdirectory),
  directories move into others (their `..` changes), extending a file runs out
  of clusters half-way, and every one of the writes may be the last. A refused
  write ends the calls of that mount (bound): later calls on a damaged volume
  that is still mounted are not explored. Power may fail at any time.
  `MaxHandles`, `FilePaths`, `DirPaths` bound what is called.

- MCKernelThreads: three slots, stacks of two pages, memory for one stack and a
  half or for two, and a timer table of two entries, so creation fails half-way
  and the quantum meets a full table. The machine may idle: deadlock is not
  checked.
- MCNetworkTcp: one peer in each role, two slots, a backlog of one, a receive
  buffer of one byte, two bytes each way, one retransmission, two initial
  sequence numbers of which the first wraps at once, and one segment lost,
  repeated or reordered anywhere. One connection is opened actively, children
  come from the peer. A retransmission the device refuses counts as an upset
  (`MaxUpsets`). With one upset every pair of a late segment and a retry, a
  refused retry, a close or a reset occurs; two upsets exceed what can be
  explored.
- MCBootPlan: the installed plan in three orders of registration, in all
  scenarios, on machines without any subset of four devices and without each
  single one, with up to two failing stages, and the self-test plans.
- MCDevices: all six devices, bus mastering left on by the firmware for all or
  for none, ledger tables just large enough to be full
  (`ClaimCapacity`, `MappingCapacity`, `AllocationCapacity`), and two kinds of
  failing teardown step in addition to any failing bring-up step.
- MCProcesses: three address spaces, three processes with two rounds of turns,
  two lines of two values, and two faults in addition to the failure points. A
  2 MiB page is shared by frames of different processes.

Fairness:

- KernelThreads: a thread that gets the processor again and again goes on in
  its join loop and ends the critical sections it opened; an expiry stays
  latched while interrupts are disabled, so it is taken in one of the windows
  in which they are not; the handler serves a due quantum and returns. Nothing
  is assumed about threads yielding or exiting.
- DeadlineTimer: time passes, a pending interrupt is taken if it may be taken
  again and again, handlers finish, wait loops go on and kernel code returns to
  an idle halt, as each main loop of the kernel does. Nothing about devices.
- NativeScheduler: the loop makes its next step, and user code that makes no
  system call is interrupted in the end (the timer and device interrupts do
  that). Nothing about which calls are made or that a halt ends.
- SdkThreads: a thread runnable inside the library keeps being scheduled, which
  is ThreadRuns of NativeScheduler, and critical sections end.

The specifications of NativeResources, NetworkTcp, BootLedger, Devices and
Processes state no fairness and no liveness: their waits end by deadlines
(NetworkTcp) or they are finite sequences of calls. Deadlock is not checked for
the last four, as each may stop: the boot after publication or panic, the rest
when no more calls are made.

## Finding

`timer_sleep_ns` (timer.c:446), run sleep_lost_wakeup: from the second round of
its loop on, the deadline can fire between the test that the hardware is armed
and the halt.

## Further disagreements

These were met while modelling. No run is kept for them. Where a property is
said to except one, the disagreement happens in the run and the property with
its exception dropped is refuted by TLC in that run.

- Handles: generations wrap (native_handle.c:240), so "a closed value cannot
  name a later object" (NATIVE_HANDLES.md:8) holds for one lap only
  (`lapped`).
- Timers: a user deadline too far for the countdown is refused (timer.c:194)
  and the sleep returns at once. So does every sleep of the scheduler:
  `native_process_run` enables interrupts before `timer_sleep_ns`
  (native_process.c:4305), and the hardware is not programmed by whoever has
  them enabled (apic_timer.c:452). It goes round without halting until the
  deadline has passed, against "its absolute timeout still needs a programmed
  interrupt" (native_process.c:4292) and "They never poll in a userspace or
  kernel spin loop" (NATIVE_ABI.md:147). ScheduleExact excepts the refused entry
  until its rollback. That rollback, and `timer_cancel`, clear a slot by its
  index (timer.c:363), which the handler may have given to the next animation
  frame by then; and when the handler has emptied the table `timer_arm` reports
  success with the identifier 0. Neither loses anything but a frame.
- SDK threads: `pthread_exit` of the main thread, whose handle is 0, may take a
  record just zeroed and marked active (thread.c:102-103) for its own, be
  preempted before the store (thread.c:176-177) and write over the value the new
  thread has left; the join then returns it, against "Join parks and reports the
  target exit status" (NATIVE_ABI.md:40). The exception in RecordsOwned.
- Scheduler: a wait on two sockets of which only the second is ready is not
  ended (native_process.c:2449): results come by position and are read up to
  the number of ready ones, against "supported readiness is defined per typed
  handle" (LIBC_COVERAGE.md:17). The exception in RoundMissesNobody. A key that arrives after
  the keyboard was drained does not end the idle halt (native_process.c:4190,
  4311); HaltIsSafe speaks of threads and deadlines.
- Process resources: a window whose closing could not be drawn keeps its handle
  (native_handle.c:233) although HANDLE_CLOSE consumes the entry
  (NATIVE_ABI.md:61), and once the event queue is closed too that handle can
  never be closed: the exception in HandlesLead, and the reason why
  TeardownComplete says nothing of `process_cleanup`'s verdict then. The surface
  goes with the window handle, not with the last of the two references
  (NATIVE_GRAPHICS.md:32). MEMORY_UNMAP takes part of a mapping
  (native_process.c:1616, NATIVE_ABI.md:64). Guard pages are not recorded, so a
  later mapping may lie in an earlier one's guard (native_process.c:1466).
  PATH_REPLACE is "recovery-safe" (NATIVE_ABI.md:82), but a stop between its
  renames leaves the backup and no destination (native_process.c:2075).
- FAT32: a power loss between the two FSInfo writes makes a sound volume
  unmountable although the values are "hints only" (fat32_fs.c:1662); `mkdir`
  and `rename` count neither directories nor depth, so a volume can exceed what
  the next mount accepts (fat32_fs.c:2322, FAT32.md:83-84); `MaxDirs` and
  `MaxDepth` are above what the run's paths make.
- TCP: a retransmission the device refuses ends `tcp_wait_ack` with
  `connection->error` (network.c:2511), which is still OK, so
  `network_tcp_write` reports bytes the peer never acknowledged, against
  "Positive partial writes cover only accepted bytes" (NATIVE_ABI.md:121): the
  exception in WrittenIsReceived.
  `tcp_retransmit` resends the whole buffer after a partial
  acknowledgement; the peer's window is not honoured; `shutdown` reports OK when
  the peer's FIN comes before ours is acknowledged; a timeout stays the
  connection's error after the FIN was acknowledged; no window update follows a
  read; a RST is taken without a look at its sequence number.
- Boot: failure of FRAMEBUFFER_OUTPUT or REDWOOD, which BOOT_LEDGER.md:62-70
  calls optional, makes the verification refuse and the machine panic. PCI and
  TIMER_CALIBRATION use the heap without declaring it, INTERRUPT_PROOFS comes
  before TIMER_ROUTING by its number only; MachineReady holds by that order.
- Devices: `nvidia_bind` demands a bus without masters, which the network
  device denies it (nvidia.c:2283-2302); `audio_prove` does the same
  (audio.c:899-902), and the negative control of the entropy proof
  (virtio_rng_proof.c:456-459). "DMA teardown disables bus mastering before
  memory is reclaimed" (CONTRIBUTING.md:51) has two exceptions in NoStrayDma:
  the audio, network and entropy drivers free their memory even if neither the
  reset nor the withdrawal of bus mastering worked (audio.c:444,
  virtio_net.c:836, virtio_rng_proof.c:595); and a device that could not be
  stopped gets the firmware's bus mastering back when its claim is released
  (pci_resource.c:985), after its memory was freed. `cleanup` of the network
  device, called with interrupts enabled by a reset, disables them, unbinds the
  vector and enables them again (virtio_net.c:826-864): a message the device
  sent in between is latched and finds no handler, which is fatal
  (interrupts.c:810). Latched messages are not modelled.
- Processes: a release frees frames although unmapping them failed
  (linux_abi.c:988, linux_cat.c:931), and the mapping stays when the launch is
  over, against "Failed and completed generations retain no mappings"
  (LINUX_SYSCALL_ABI.md:151-152); UserMemoryHeld allows it in that release and
  afterwards, as long as nothing is built, run or resumed. A frame a process
  executes is read-only in the kernel's map and in its own; every other
  process's map keeps a writable alias of it (paging.c:2538, 2722-2735). A reader whose session
  could not be closed stays owned and nobody tries again (filesystem.c:1185);
  `linux_cat` compares resource counts across its wait, so another user of the
  heap makes a good run report RESOURCE_CENSUS (linux_cat.c:1786), as
  LinesReturned says; the gate of `multiprocess.c` can be armed without being
  remembered (1006-1013).
- Threads: `thread_stop` that refuses leaves preemption off (thread.c:710).

## Proofs

The modules named `...Proofs` hold theorems that TLAPS checks for every value
of the constants. Each has the same plan: an inductive invariant (`IInv`, with
`RInv` beside it for the ledger's receipts, or `Books` where there are two), one
lemma per action that it is kept, and the properties of the runs as
consequences. Every one of these invariants was model-checked on the run's
instance before it was proved.

| Module | Theorems about the runs' properties | Assumed of the constants |
|---|---|---|
| NativeHandleProofs | TypeOK, ReferencesExact, ResourcesOwned, ClosedStaysStale, RefinesCapability | limits positive, `Limit < RefMax` as 128 handles against a 16-bit count, null values not members of their sets |
| SdkThreadsProofs | MutualExclusion, NoLostWakeup, RecordsOwned, OnceBarrier | a thread limit, finitely many records, lock words at addresses of their own |
| DeadlineTimerProofs | ServedOnTime, ScheduleExact | positive sizes; the kernel's own intervals fit the countdown (user deadlines need not); `Late` beyond the point where a sleep is given up |
| KernelThreadsProofs | SchedulerExact | positive sizes |
| NativeSchedulerProofs | HaltIsSafe, LaunchReportsNewest, and the first half of RoundMissesNobody | limits positive, programs wait for items that exist |
| NativeResourcesProofs | ResourcesAccounted, TeardownComplete | limits positive, an anonymous region of at least two pages |
| BootLedgerProofs | PlannedInOrder, PublishedIsHonest | each plan is a sequence of descriptors (`IsPlan`) and, for PublishedIsHonest, meets `OutcomesAssured` |
| NetworkTcpProofs | SlotBooks | finitely many slots, numbered; positive limits |

### The handle table

IInv conjoins TypeOK; ReferencesExact (a close decides by the reference count
whether it is the last, so ownership is preserved only if the count is exact);
ResourcesOwned (an install must bring a resource no object has); ActiveTyped (a
slot in use has a real type, so that its value is a handle: the type of an
unused slot is left over); and KeptIsOlder (a value closed in this lap carries
an older generation than its slot, which is what makes it stale). The counting
steps use the cardinality facts of FiniteSetTheorems. CloseAllIInv needs
LastSlotExists: of the slots of an object the loop closes last the one with the
largest index, which is the one that survives if the callback refuses.

Implements proves that the table implements HandleCapability. The lemmas say
what one slot does to the names a program sees: OneMoreName for an install and a
duplicate, FewerNames for a close, and Viewed, that a slot nobody touched shows
the same name.

### The thread library

IInv has four parts: Threading (where each thread is, what its frame and its
kernel record hold there), Locks (a lock word against the threads between
taking and giving it), NoLostWakeup, and OnceState. They are proved together,
because a thread waits on the word another is about to change. RecordsOwned
needs a second invariant on top, Books: at each stage of create, run, exit and
join (Stage, Life) some thread answers for the record (Claims, Own), no two
answer for one record, and the value it holds is its thread's or the main
thread's, whose unlocked scan may be under way at any stage of anyone else. The one
assumption about addresses (AddressAssumption) is that a record's ready word is
not also a lock word.

### The timers

Books: the table, the two waiters of kernel code and the flags their callbacks
set. An identifier names one entry (OneSlotEach); that `start` always finds a
fresh one is a pigeonhole argument over the table size. ServedOnTime follows
from the choice of the smallest of the reached entries, which exists because
the entries are finite. Scheduled adds that the hardware is armed whenever an
entry is pending, outside the slot about to be cleared (HeldSlot says whose it
is). For that it needs InReach: every entry outside that slot is one the
hardware can count to. Nothing caps the deadline a thread asks for
(native_process.c:4306), so it is the rollback of `timer_arm` that keeps the
table within reach, and with it the handler's own reprogramming from failing,
whose status `on_expiry` ignores (timer.c:201-206). No assumption is made about
user deadlines.

### Kernel threads

IInv: types, an empty table while the scheduler is off (OffIsEmpty), whole
stacks (StacksWhole), one running thread (OneRuns), exact counters and no frame
lost (Counted), each thread's own interrupt flag on its stack, with none kept
disabled for the thread that was interrupted (Sections), and a quantum that is
armed exactly while preemption is on and has room in the timer table beside the
entries of others (QuantumArmed).

### The native scheduler

IInv: the records in their ranges (Typed), where the newest process is
(NewestKnown), that user mode is entered only in a running process (Entered),
what a fault leaves (FaultsEnd), that a waiting thread waits for something that
can end it (WaitsMeanIt), and why the core is halted (Quiet). Console bytes go
to the readers in order, which the proof counts by rank (FirstFew). StallsOnlyStuck
is the half of RoundMissesNobody about giving up. The other half, that a wait
whose condition holds ends in the round, is only model-checked: it goes
through the recursion of SelectSeq, and needs the exception above
(native_process.c:2449).

### The boot ledger

For any plan, and not only the installed one: IInv says that the selection has
placed each stage once (Distinct), with all it requires provided by the places
before it (Supplied), and always one of the earliest phase of those that were
ready (Greedy). That phases never go back is not visible one step at a time.
The proof takes the earliest stage that comes after a stage of a later phase;
it was not ready when that one was chosen, so one of its providers lies
between, and the check for backward capabilities makes that provider a smaller
counterexample.

RInv is a second invariant, about receipts (Justified): a stage that was not
asked, or that cannot fail and did not run, lacked a capability that the
receipts before it did not grant; a stage that was not skipped lacked none; a
mandatory one ran. Until a self test forges one, a receipt says what its result
allows (Genuine); afterwards the verification says so itself, since it compares
sets and their sizes (VerifiedReceipts). With Accepted and Distinct this gives
ExecutionVerifies: what `boot_ledger_execute` enforced while it ran,
`verify_receipt_set` finds again, so it never refuses an honest execution.
PublishedHonestly needs one thing of the plan, OutcomesAssured: whatever a
stage that may report an absence requires comes from a mandatory stage, from a
decided proof however it ends, or from a stage that cannot fail
(POINTER_DECISION is the only one of that kind, boot_plan.c:3109). Without it
the theorem is false: a stage skipped for a lost requirement claims its absence
like one that looked (boot_ledger.c:1019). The run evaluates the assumption on
the installed plan and on those of the self tests.

### What native processes own

A step of NativeResources touches one process, and what it does there is a
chain of operators from worlds to worlds. So the invariant is one predicate of
a world, Books, for every live process, and three statements about what lies
outside of it: a slot without a process has nothing (DeadCleared), nothing in
the machine is anyone else's (NothingForeign), and no file is open for two
processes (FilesApart).

Books says what the run's properties leave out and every step needs. Mapping: a
page is recorded exactly if it has its frame, and is in the tables exactly if
its record says so; ResourcesAccounted alone would let a rollback miss a frame
whose page was recorded but not mapped. Loaded: the stacks of the threads there
are, and no others, are mapped, and the main TLS block is not anonymous memory;
otherwise an unmap could take them. SurfaceHeld and WindowKept tie the surface,
the pixels, the place on the screen and the generation to the two open flags of
the window record. Streams, ThreadsHeld and WindowsHeld say that handles lead
to what is open, and the other way round; the last is an equality only as long
as every closing could be drawn (`drawn`).

Each operator has a lemma that says which fields it leaves alone (Keeping) and
what it makes of the others; each call has one that puts these together to the
books of the caller (Books) and to those of everybody else, who see only that
the machine changed in what is the caller's. Calls that allocate page by page
are proved for any page at which they stop: the pages taken are a prefix of
those wanted, all of them or as many as the frames and the limit allowed.
process_cleanup is proved to end with nothing of the process on the machine
from Books alone, so a load that failed at any point is covered too, as it
leaves books of its own. TeardownComplete then is what NothingForeign says once
the dead slots are empty.

### The tables of TCP

Most steps change a connection and leave its place in the tables (`Changes`);
the lemmas of that kind need only know that a buffer grows within the window and
that an acknowledgement changes no place. Six steps give slots out or take them
back; SlotTaken and SlotsReturned are the two lemmas they share. What SlotBooks
needs besides itself: at most one connection has a backlog (OneListener), since
`tcp_open_child` tests the room of the listener it finds; who has a backlog is
nobody's child (Conn), so that servicing or closing children orphans nobody;
no handle names a pending child (Named), so that `network_close` cannot take
one away from its listener; and segments in flight carry sequences (Wires), so
that lengths add up. Nothing is assumed about peers, sequence numbers or the
order and number of segments.

### Only model-checked

- Liveness (EveryoneRuns, EveryoneGoesOn, WaitsEnd, OnceReturns): fairness and
  ENABLED are outside the prover.
- Fat32 with its refinement of FileTree: Fat32Volume follows chains by
  recursion, which needs induction over data.
- ReceivedInOrder, WrittenIsReceived and EstablishedByBoth of NetworkTcp: they
  relate every segment that may still arrive to the history, and hold for
  exchanges that are short against the sequence space and for distinct initial
  sequence numbers.
- MachineReady and SelfTestVerdicts of the boot: statements about the installed
  plan and the self-test plans, which the run evaluates.
- Devices and Processes: their programs are concrete sequences of steps, and
  what makes them right is in each of them.

## Not modelled

`PROJECT.json` gives the reason for every component. In the modelled ones:
calibration of the APIC timer; reading and writing through the handles of
native processes, accepted connections as their resources, the contents of
events and pixels, and storage that is unmounted under open files; condition
variables of the SDK; FAT32
read, list, stat, the read-only system volume, byte contents, a second open
handle and more than one sector of FAT; ARP, DHCP, DNS, UDP and ICMP; queue
entries, phase bits and descriptor rings of the devices; the entries of page
tables and the kernel's own windows.

Hazards of this code that no property covers: an expiry latched when
`timer_stop` unregisters its vector (timer.c:270); an MSI-X message latched
when its vector is unbound (interrupts.c:810); the gate left armed when the
second of three calls fails (multiprocess.c:1006), which stops the boot with its
proof; a private read whose session cannot be closed (filesystem.c:1185), after
which launches are refused, as the processes run shows; `exit` popping the atexit list without the lock
(sdk/src/runtime.c:368); directories counted only when a volume is mounted
(fat32_fs.c:1358); re-entry of the network pump (network.c:1316); a second handle with a stale
size (fat32_fs.c:2019).

## Plan

1. Proofs: KernelMapExact over ProcessSpaces and BindingsStand over
   DeviceLedger for any sequence of steps.
2. NVMe and virtio-net queues: phase bit, timeout, session generation; then
   Fat32 over that device.
3. The network pump with ARP, DHCP and DNS; frames, heap and input rings.
