# TLA+ models of the GT-I5700 (Spica) kernel 2.6.32.9

The repository is the kernel of an Android phone: Linux 2.6.32.9 with the Android and Samsung
changes (`src/Kernel`), the out-of-tree drivers of the phone (`src/modules`), root file system data
(`src/initramfs-*`) and build scripts. The configuration that matters is
`Kernel/arch/arm/configs/r880_android_defconfig`: one CPU, no kernel preemption, HZ=200, wake locks,
early suspend, the frame buffer handshake, binder, logger, ashmem, pmem and the alarm driver; no
runtime PM and no PM debugging.

Most of it is upstream Linux. What is particular to this system, and hard, is the **opportunistic
suspend** of Android, where every driver may stop the machine from sleeping at any moment, and the
**link to the modem**, a memory bank shared with a second processor through a hardware semaphore and
two one-word mailboxes. These two are the core of the models; around them stand the parts that meet
them: the alarm driver, which wakes the system up, the handshake with the program that draws, the
multiplexer that puts network interfaces on the modem link, and the log all programs write to.

## 1. Inventory

| component | source (under `src/`) | state | operations | talks to |
|---|---|---|---|---|
| wake locks | `Kernel/kernel/power/wakelock.c` | flags and expiry of each lock, `active_wake_locks[]`, `expire_timer`, `suspend_work`, event number | init, destroy, lock, lock with timeout, unlock, timer handler, `suspend()`, `power_suspend_late` | every driver; the suspend sequence |
| early suspend | `Kernel/kernel/power/earlysuspend.c` | `state` bits, the handlers by level, two work items | register, unregister, `request_suspend_state`, `early_suspend`, `late_resume` | wake locks (`main_wake_lock`), the same work-queue thread |
| suspend sequence | `Kernel/kernel/power/suspend.c` | what the attempt has taken so far | `enter_state` and its error paths | freezer, device PM, wake locks |
| freezer | `Kernel/kernel/power/process.c`, `kernel/freezer.c`, `linux/freezer.h` | `TIF_FREEZE`, `PF_FROZEN`, `PF_FREEZER_SKIP` per task | freeze, thaw, refrigerator, opting out | all tasks, wake locks (abort) |
| device PM | `Kernel/drivers/base/power/main.c` | `dpm_list`, status of each device, `transition_started` | prepare, suspend, noirq, resume, complete, add, remove | the drivers' callbacks |
| modem link: rings | `modules/dpram/dpram.c` | head, tail and bytes of two rings per port, saved positions | write, read, drop, reset, `write_room` | tty layer, the phone |
| modem link: semaphore | `modules/dpram/dpram.c` | semaphore, `onedram_lock`, `requested_semaphore`, mailboxes, tasklets | take, give back, answer, interrupt handler, tasklets | rings, the phone |
| modem link: tty | `modules/dpram/dpram.c` | `open_count`, `serial.tty` | open, close, ioctl | tty layer |
| user wake locks | `Kernel/kernel/power/userwakelock.c` | tree of named locks | write to `wake_lock`, `wake_unlock` | wake locks |
| frame buffer early suspend | `Kernel/kernel/power/fbearlysuspend.c` | `fb_state` and its wait queue | both callbacks, `wait_for_fb_sleep`, `wait_for_fb_wake` | early suspend, the program that draws |
| packet data multiplexer | `modules/multipdp/multipdp.c` | PDP table, `vnet_start_xmit_flag`, `workqueue_data`, `pdp_lock`, where the receive thread is in a frame | activate, deactivate, open, stop, transmit, watchdog, the transmit work, serial write, `pdp_demux` | network core, worker thread, the raw port of the modem link |
| alarm driver | `Kernel/drivers/rtc/alarm.c`, `alarm-dev.c` | alarm queues, hrtimers, `delta`, RTC alarm, `suspended`, pending and enabled masks, two wake locks | ioctls, close, timer handler, setting the wall clock, suspend, RTC interrupt, resume | wake locks, RTC, clocks |
| logger | `Kernel/drivers/staging/android/logger.c` | ring of entries, `w_off`, `head`, `r_off` of each reader | write, read, open, close, flush, lengths | user space |
| binder, ashmem, pmem | `Kernel/drivers/staging/android/binder.c`, `mm/ashmem.c`, `drivers/misc/pmem.c` | transactions; pinned ranges; buddy bitmap | system calls | user space |

How the parts interact: user space writes a sleep state, `request_suspend_state` takes or leads to the
release of `main_wake_lock` through `early_suspend`; when the last wake lock goes, or runs out,
`suspend()` is queued on the same single-threaded work queue; it calls `pm_suspend`, which freezes the
tasks (and gives up on a wake lock), walks the devices, looks at the wake locks once more in
`power_suspend_late`, and sleeps; everything unwinds from wherever it failed. The modem wakes the
machine by an interrupt; the driver's interrupt handler, tasklets and system calls then compete for the
shared bank with each other and with the phone.

What is hard, and therefore what the properties are for (`PROJECT.json`, "hazards", has each at its line):

* wake locks: a suspend forgotten because a path neither queues the work nor arms the timer; a value
  read after `list_lock` was dropped; locks taken after the last look.
* early suspend: requests racing the two work items, which are queued at most once and in one FIFO.
* suspend sequence and freezer: any of eleven steps may fail; tasks caught between two flags.
* device PM: lists taken apart and rebuilt while callbacks, run without the mutex, change them.
* rings: wrap-around, the byte kept free, short transfers.
* semaphore: three nested contexts and another processor, mailboxes that lose mail, limited retries.
* frame buffer: a wait with a timeout, for a program that may answer a request already withdrawn.
* alarms: four clocks, one of which user space sets; a timer that cannot run in suspend handed over to an
  RTC that counts seconds, and back; two wake locks with three ways to give one up.
* packet data: one global that hands packets of all interfaces to the work; contexts removed under a work
  or a reader that waits for the lock; frame bounds after an error.
* logger: entries and their length bytes wrapped around the ring, readers overtaken by writers, a copy
  that fails half-way, the sleep of a reader against the wake-up of a writer.

## 2. Modules

| module | models | state and actions |
|---|---|---|
| `WakeLock` | `wakelock.c`, the lists as sets | `inited`, `held`, `auto`, `left`, `timer`, `work`, `susp`, `event`; one action per function that runs under `list_lock`; `suspend()` in steps, since it drops the lock between them |
| `KernelList` | `list_del` of `linux/list.h`, on lists as sequences | operators; `DevicePM` and `WakeLockList` use it |
| `WakeLockList` | the same file with its flags, ordered lists, the walk and the flag of the statistics | as above with `flags`, `active`, `inactive`; **implements `WakeLock`** (`ImplementsWakeLock`: `held`, `auto` and `inited` are read from the flags) |
| `EarlySuspend` | `earlysuspend.c`, composed with `WakeLock` (EXTENDS) | `state`, `queue`, `pc`, `walk`, `handlers`, `down`, `joining` (the handler between its insertion and its direct call); one handler call per step |
| `FbEarlySuspend` | `fbearlysuspend.c`, composed with `EarlySuspend` (EXTENDS) | `fb_state`, `waiting`, `drawer`; the callback `CallSuspend` of the handler `fb` in two steps, the reads of the program; `timedout` is a history |
| `DevicePM` | `drivers/base/power/main.c` | `list`, `local`, `cur`, `status`, `started`; each walk as call and return, since the mutex is free between the two; `cb` is a history of the callbacks, `astray` of the children registered behind the back of `dpm_complete` |
| `Freezer` | freezing and thawing | `fz`, `todo`, `freezing`, `frozen`, `skip`, `at`; a pass over the tasks is one action |
| `SuspendSequence` | `enter_state`, composed with `Freezer` (EXTENDS) | `step`, and `taken`: the set of what is held, stopped or off |
| `PortQueues` | what a port promises: two bounded FIFO queues | abstract specification |
| `DpramRing` | the rings of a port; **implements `PortQueues`** | positions and bytes of both rings, the saved positions; `io` is a history of the latest transfer |
| `OneDram` | semaphore, mailboxes, tasklets, interrupt handler | `sem`, `lock`, `requested`, `ba`, `ab`, ring fill, `sched`, `non_cmd`, where each context is, and the head `dpram_drop_data` has read; `owed` is a history |
| `Alarm` | `alarm.c` and `alarm-dev.c` | `wall`, `mono`, `delta`, `queue`, `armed`, `expires`, `rtc`, `suspended`, masks and locks of `/dev/alarm`; one action per ioctl up to where it sleeps, `phase` is how far a suspend is; `boot` is a history |
| `AndroidLog` | what a log promises: a queue of whole entries that forgets the oldest ones, readers that each see a suffix | abstract specification |
| `Logger` | the ring of one log; **implements `AndroidLog`** (`ImplementsLog`) | `buffer`, `w_off`, `head`, `r_off`, byte by byte; a write in steps at each copy from user space, a read at its sleep and its mutex |
| `MultiPdp` | `multipdp.c` | `state`, `id`, `link` per interface, `flag`, `data`, `work`, `lock`, `rx`, `reader`, `frame`; steps split where the code waits for `pdp_lock` or for bytes; `inflight` and `slipped` are histories |
| `ListFacts` | lemmas on lists, on induction and on recursive functions, for `ListProofs` and `LoggerProofs` | |
| `EarlySuspendProofs`, `ListProofs` (`DevicePM`, `WakeLockList`), `SuspendProofs` (`SuspendSequence`, `Alarm`), `DpramRingProofs`, `OneDramProofs`, `MultiPdpProofs`, `LoggerProofs` | the proofs about the modules they extend (section 5) | inductive invariants |
| `MC*` | constants for TLC | |

Operators that a comment introduces as *Mutant* are plausible mistakes in the code next to them; none
occurs in a specification. Replacing the operator of `PROJECT.json` "of" by the one of "as" makes the
property named there fail, which shows that the property depends on that code.

### What the granularity rests on

The kernel is neither SMP nor preemptible, so code that neither sleeps nor is interrupted is one action,
and code under `spin_lock_irqsave` is one action. Steps are split wherever a lock is dropped, a callback
is called, the code sleeps, or an interrupt or tasklet may come between two accesses of shared state
(`OneDram` splits the counting of `onedram_lock` from the look at the semaphore for that reason). Once
`suspend_device_irqs` has run no other task is scheduled; the timer interrupt stays on, so jiffies and
timer handlers go on until the interrupts of the CPU are off.

### Notes per module

*WakeLock.* Time is kept relative: `left[l]` is `expires - jiffies`, floored at zero, so that jiffies and
its wrap-around do not occur. A lock of `TimerLock` is one that a timer handler locks, as
`alarm_triggered` of `alarm-dev.c` does. `wake_lock_destroy` is called for locks that are not held
without timeout; no caller in the tree does otherwise. `event` abstracts `current_event_num` to whether
it differs from `entry_event_num`, which is all `suspend()` asks. Only one `suspend()` runs, as the
queue is single-threaded.

*WakeLockList.* The walk of `has_wake_lock_locked` is a recursive function of how far it is in the list as it
was at the start (`WalkUpTo`): the loop takes only the lock it stands at off the list
(`list_for_each_entry_safe`), so the rest is as it was.

*EarlySuspend.* The suspend work item is run by the thread of the two items of this file, in FIFO order;
`work` of `WakeLock` is the pending bit and `queue` has the order. `register_early_suspend` inserts at the place its loop ends at (`Place`). A handler registered while the state
is suspended is called at once, with `early_suspend_lock` held, in a step of its own (`DirectCall`): between
the two the handler is listed and up while those above it may be down, which `earlysuspend.h:28-31` says
("can violate the normal level order") and `LevelOrder` allows for that one handler and no longer.

*DevicePM.* `list_del` takes a device from wherever it is linked. The noirq walks hold the mutex throughout and are one action each, which fails at any device.
Devices are registered and removed whenever the mutex is free, in `complete` too. `device_pm_add` only warns
of a device below a parent that is being suspended, or is off, and adds it; the model takes the rule of
`pm.h:61-64` ("Prevent new children of the device from being registered after @prepare() returns") as the guard, so what follows a breach of it is not covered. A child
registered in `dpm_complete` when the walk is at its parent or past it is taken later than the parent and
moved before it: the list loses the order the comment at `main.c:34` promises, and so do the walks of the
next suspend (run `device_complete`). Such children are `astray`; `ChildrenFirst` and `OrderKept` say that
nothing else breaks the order. `device_pm_move_before`, `_after` and `_last` (called by `device_move`) are left
out. The watchdog `dpm_drv_wd` (a BUG on a slow driver) and `ftm_sleep` (set nowhere in the
tree) are left out.

*Freezer, SuspendSequence.* The s3c6410 has `enter`, `prepare_late` and `wake` of the platform operations
and not the others. The walks of the devices succeed or fail as a whole here. `dvfs_set_max_freq_lock` is
the member `max_freq` of `taken`. A task that is stopped or traced is not waited for by a pass although it has
been asked (`process.c:62`); such tasks are not modelled.

*DpramRing.* Positions and sizes are those of the code, in the small. The u16 arithmetic cannot overflow:
no ring is longer than 15 344 bytes (`dpram.h`). Writes longer than the room are `OneDram`'s business.
`Short` is by how much the flip buffer may fall short of what it is offered; `Segment` is
`CLUSTER_SEGMENT`.

*OneDram.* One port, with rings that count bytes. The retries of `onedram_get_semaphore` are a loop that
may give up at any try, which covers every retry count. The phone's side is not in the repository: it is
taken to touch the bank and hand the semaphore over only while it has it, and to write a mailbox that has
been read. `dump_on` is off. `dpram_drop_data`, which the send tasklet calls when there is no tty, looks at the
semaphore, reads the head and writes the tail, all without `onedram_lock`: an interrupt in between may hand the
semaphore over. It is two steps here, and the second also does what it does when the semaphore is gone by then
(`_memcpy` refuses, or made its look before). `BankGuarded` is about all other accesses; `DropGuarded` includes
this one and fails (section 4). `OpenClose` lets the tty come and go at any time and writes run also without
one: `dpram_tty_open` sets `serial.tty` before it refuses a second opener (-EBUSY), and the tty layer then closes
that failed open (`tty_io.c:1800`), which takes the tty from the first. `open_count` guards nothing else.

*FbEarlySuspend.* The handler is registered at boot and never removed (`android_power_exit` belongs to a
file that is never unloaded). `wait_event_timeout` may end without an answer at any time, which covers every
delay of the program. The program is external: it draws until its read of `wait_for_fb_sleep` returns, and
reads `wait_for_fb_wake` before it draws again. A signal (`wait_event_interruptible`) makes it read again.

*Alarm.* A tick is a second, the unit of the RTC. An alarm of a type is one `struct alarm`, as in
`alarm-dev.c`. The rest of the suspend is abstracted to `phase`: tasks frozen, the driver suspended, asleep,
up again; a suspend begins only without wake locks and fails in between for the reasons `WakeLock` and
`SuspendSequence` have. `RefusedTime` is whether `do_settimeofday` may refuse a time (`tv_nsec` out of
range, which the ioctl does not check); `SlowDevices` whether the devices suspended after this driver take
longer than the second its wake lock lasts. Both are FALSE in the run. With the first elapsed realtime jumps
(section 4) and drifts without bound, which no finite instance has; the theorems about the alarms hold with it too; with the second the wake lock that the RTC interrupt took between `alarm_suspend` and the sleep
has run out before the last look at it, and the system sleeps on an alarm (`AlarmsCovered` fails). A SYSTEMTIME alarm is lost by a suspend (`alarm.c:388` cancels its timer by a mask
used as an index, and `alarm_resume` starts only the wake-up queues), so `AlarmsCovered` leaves that type
out.

*Logger.* `get_next_entry` is a recursion on the bytes still to go, the `len - count` of the loop. `Entries` and
`LeftOver` are no code: they say what a reader that starts at an offset will get. `Unread` is the refinement
mapping. The two length bytes are digits of base `Radix` and are stored and read as bytes, wrapped or not.
The copy to a reader is one step, since it only holds the mutex longer. `StaleFault` lets a copy fail in a
write that another one overtook between the reading of `w_off` and the mutex: FALSE in `logger`, TRUE in
`logger_fault`.

*MultiPdp.* Bytes are cells (start, header, data, stop). Whether a frame is written, dropped by
HN_PDP_TXSTOP or fails, the same follows for the driver, so the ring is left to `DpramRing`. A frame comes
in one step: `dpram_read` waits until its bytes are there, with the lock held in the middle of a frame, and
that wait cannot be told from not being scheduled. The serial lines exist from start to end; `vs_read`
discards the data when nobody has the line open. (Channel 6, XTRA, is not in the condition that discards,
`multipdp.c`, `vs_read`; with nobody there it relies on the tty not being NULL.) Unloading the module is
left out: `pdp_cleanup` holds `pdp_lock` across `unregister_netdev`, whose `cancel_work_sync` waits for a work
that waits for that lock; no script of the repository unloads it. `slipped` is set by the two errors after which the code loses the frame
bounds: a flip buffer that refuses data, where the flush follows though the data has been read, and a flush
for which `kmalloc` fails (`multipdp.c:414-415`), which takes nothing. Behind a slip the reader looks for a
start byte, and a data byte may look like one; this is not modelled, and `InSync` claims nothing there. A read
that fails otherwise than by -EAGAIN (`multipdp.c:391-397`) means a hang-up of the port or the signal that ends
the thread, and belongs to the unloading.

## 3. Runs

Each passing run checks the properties named. `logger_fault` and `device_complete` show a disagreement between
the code and what it says of itself ("findings" in `PROJECT.json`); section 4 has the others that were met.

| run | instance | shows |
|---|---|---|
| `wakelock` | 5 locks (an idle lock and a timer-handler lock among them), timeouts up to 2, fair | `TimerCovers`: with only timed locks held the timer is pending and not early; `SuspendNotLost`; `AsleepTimerLocksOnly`; `SuspendRetried` (liveness). 105 958 states |
| `wakelock_list` | the same locks | refinement of `WakeLock`; sleep time is charged to locks that hold off suspend and to no other (`SleepTimeCharged`) |
| `early_suspend` | 3 locks, 2 handlers of different levels, the lower one that of the frame buffer, and the program that draws; fair | `main_wake_lock` is released only with the handlers down; a settled system agrees with the last request; callbacks alternate, in the order of levels but for a direct call under way; asleep with all handlers down; no handler above is suspended under a program that draws, unless it was given up on (`DrawingStopped`); it settles (liveness), whatever the program does. 287 155 states |
| `device_pm` | 4 devices (a chain of three and one apart), 2 suspends, every callback may fail, hotplug in the callbacks of every walk | pairing of callbacks, nothing left behind, asleep with all off; children off before their parents (`ChildrenFirst`) and behind them on the list (`OrderKept`), those registered behind the back of `dpm_complete` apart. 36 042 states |
| `device_complete` | violation, the same devices and 1 suspend | a child registered in the complete callback of its parent ends before the parent on `dpm_list` (`DepthFirst`) |
| `suspend_sequence` | 2 user tasks, 2 kernel threads, every step may fail, fair | everything is given back, no task runs while devices are down, kernel threads frozen last, nobody left frozen, tasks run again (liveness). 6 182 states |
| `dpram_ring` | rings of 4 and 3 bytes, 2 byte values, writes up to 3 | refinement of two bounded FIFO queues. 567 280 states |
| `one_dram` | rings of 1 byte, writes of 1 byte, every mail of the phone | `BankGuarded`, `LockCounts`, `RequestKept`, `NoticeKept`. 5 571 088 states |
| `alarm` | the two types that wake the system, 4 seconds, the wall clock set at will, fair | no alarm that is set is without its timer, the RTC or a wake lock that has the suspend fail (`AlarmsCovered`); the wake lock of `/dev/alarm` is not held for nobody (`LockForUser`); a wake-up alarm that is due goes off (liveness). 174 164 states |
| `logger` | 2 writers, a reader, a ring of 8 bytes with entries of 3 and 4 | refinement of `AndroidLog`; the ring from every reader and from `head` on is whole entries (`WholeEntries`); nobody sleeps on an entry (`SleeperHasNothing`); the length reported is that of what can be read (`LogLenExact`). 95 023 states |
| `logger_fault` | violation, the same instance with `StaleFault` | a write that fails after another one overtook it moves the log back into, or over, the other's entry |
| `multipdp` | 2 interfaces, 1 serial line, 2 channel adjustments, frames with 2 cells of data, fair | one packet at a time and the work finds its own (`TxOwned`); nothing used after it is freed (`DevicesAlive`); frame bounds kept up to a slip (`InSync`); every work is done or cancelled with its interface (liveness), an over-long flush that waits with the lock apart. 888 244 states |

Proved but in no run: the type invariants, `AsleepPrepared` of `SuspendSequence`, `ListedOnce` of
`DevicePM`, `LinkedOnce` and `UntimedFirst` of `WakeLockList` (the refinement fails without
them). Stated, and in no run: `AttemptEnds` of `SuspendSequence`.

*Bounds.* `MaxTimeout` and `UnknownTimeout`: two ticks tell an expired lock, the last tick and a lock
with time left apart, and the timer of one lock from that of another. Two handlers of different levels
meet every order of registration. Devices: a chain of three
is the least in which a middle device is child and parent. `MaxCycle` two, since the order left by one
suspend is what the next walks. Rings of three and four bytes wrap at every offset, and differ so that
the two directions cannot be confused. `MaxRequested` caps a counter of which only zero and non-zero are
told apart. Alarms: `MaxTime` 3 with alarms at 1 and 3 and wall times 0 and 2 has an alarm due at once, one
the RTC has time for, and a clock set before, behind and onto either. The log ring is the least its
definition allows (`Size` is twice the longest entry), so that entries wrap at every offset and each write
overtakes readers. Two interfaces meet every pairing of packet, work and removal; `MAX_PDP_CONTEXT` 3 lets
both be listed and two values of `g_adjust` let one channel be removed under the other's number; `MaxRx` has
the rest of a frame in front of a whole one.

*Fairness.* `wakelock`, `early_suspend`: time passes, the timer softirq and the work-queue thread are
scheduled, and `pm_suspend` returns; all weak. Drivers and user space are never assumed to act: the
liveness of the wake locks is that the kernel goes on once every step is one of its own, a tick, the timer, the
work or a step of `pm_suspend` (`<>[][Kernel]_vars`). In `early_suspend` a registration under way ends, with the
callback it calls.
`suspend_sequence`: the suspending thread proceeds, a pass that leaves tasks to freeze is given up at the
latest by `TIMEOUT`, tasks thawed are scheduled, sleeps end. `OneDramLive.cfg` (section 4): interrupts are taken and
handlers end (weak); a context that is interrupted over and over still runs in between (strong: a context
is disabled while a higher one runs, and the phone's requests may come for ever); the phone reads its
mailbox. Without the strong part a phone that sends without pause starves the CPU; with data coming
without pause the send tasklet, which reads until the ring is empty, can keep the task away for ever, and
that is why it has no `SEND`. `alarm`: timers and the RTC interrupt are served, and a suspend that
failed or ended is undone; neither time nor a program is made to go on. `multipdp`: the worker and the
reader run when they can, and whoever writes a frame ends (weak; the ring's own block is `OneDram`'s);
the work gets `pdp_lock` at last (strong): a program that takes it again and again is preempted only
outside the kernel, that is without the lock.

## 4. Counterexample configurations

These configurations are kept beside the runs; TLC finds the property named violated under each. They show
where the code does not do what it, or the interface it implements, says. Run them with
`tlc -config <file> <module>`.

| file, module | property | what the trace shows |
|---|---|---|
| `SuspendMaxFreq.cfg`, `MCSuspendSequence` | `MaxFreqUnlocked` | `suspend.c:134`: the frequency lock is kept when `dpm_suspend_noirq` fails, as in every suspend that a wake lock aborts late; `suspend.c:261-262` "do the setup for suspend, enter the state, and cleaup" |
| `DpramWriteRoom.cfg`, `MCDpramRing` | `WriteRoomAccepted` | `dpram.c:662`: `write_room` answers from positions of the other ring; `tty_driver.h:91` "returns the numbers of characters the tty driver will accept" |
| `DpramShortRead.cfg`, `MCDpramRing` | `ReadKeepsRest` | `dpram.c:646`: a short insert in a wrapped read loses bytes; `tty_buffer.c:240` "Returns the number added." |
| `OneDramWrite.cfg`, `MCOneDram` | `WriteReturns` | `dpram.c:502`: a write that finds no room spins with what the phone needs to make room (and one longer than the ring, 1019 bytes for the formatted port where the tty layer passes up to 2048, finds room in no case); `tty_driver.h:64-65` "will return the number of characters actually accepted" |
| `AlarmRefused.cfg`, `MCAlarm` | `ElapsedSteady` | `alarm.c:268`: the deltas are moved before `do_settimeofday`, and stay moved when it refuses the time; `android_alarm.h:75` "set rtc while preserving elapsed realtime" |
| `MultiPdpStop.cfg`, `MCMultiPdp` | `TxFreed` | `multipdp.c:530`: taking an interface down cancels the work of an accepted packet; the packet is never freed and no interface transmits again; `Documentation/networking/driver.txt:67-69` makes it the driver's responsibility to free it "in some finite amount of time" |
| `MultiPdpFlip.cfg`, `MCMultiPdp` | `FramesKept` | `multipdp.c:1209`: the flush that is to "flush the remaining data including stop byte" takes nothing when it gets no memory, and what belongs to the next frame when all data has been read; in either case the reader is then not at the start of a frame |
| `OneDramDrop.cfg`, `MCOneDram` | `DropGuarded` | `dpram.c:1001-1004`: the semaphore is handed over between the look of `dpram_drop_data` and its access to the bank; `dpram.c` itself refuses a "memory access without semaphore!" |

`OneDramLive.cfg` (`MCOneDram`) goes with `OneDramWrite.cfg` and passes: with requests and answers of the phone as
the only traffic, a call returns unless it is a write for which the ring has no room (`OnlyFullRingBlocks`).

Not a property of a configuration: `suspend_devices_and_enter` drops the error of `suspend_enter`
(`suspend.c:222`), so `pm_suspend` reports success for a suspend that did not happen.

## 5. Proofs

TLC shows a property on the small instance of its run; these theorems state it for every value of the
constants that the named assumptions allow. `tlapm <module>.tla` checks them.

| module | theorems (property) | for every | hypothesis |
|---|---|---|---|
| `EarlySuspendProofs` | of the wake locks: `TypeCorrect`, `TimerCoversAlways`, `SuspendNeverLost`, `AsleepWithTimerLocksOnly` | set of locks of any types, and timeouts (`LockAssumption`) | |
| | of early suspend: `ImplementsWakeLock`, `MainAlwaysReleasedDown`, `SettledAlwaysAgrees`, `CallbacksAlwaysAlternate`, `AlwaysLevelOrder`, `AlwaysAsleepDown`; for the composition with the frame buffer `FbImplementsEarlySuspend`, `DrawingAlwaysStopped` | set of handlers, levels and locks | |
| `ListProofs` | of device PM: `CallbacksAlwaysPaired`, `NobodyLeftBehind`, `AlwaysAsleepOff`, `AlwaysListedOnce`, `AlwaysChildrenFirst`, `OrderAlwaysKept` | tree of devices, number of suspends, hotplug | |
| | of the wake lock lists: `ListsCorrect`, `ChargesCorrect`, `ListImplements` (refinement of `WakeLock`) | set of locks of any types, and timeouts (`ListAssumption`) | |
| `SuspendProofs` | of the sequence: `KernelThreadsAlwaysLast`, `NobodyEverLeftFrozen`, `AlwaysBackToNormal`, `NeverTaskWithoutDevices`, `AlwaysAsleepPrepared` | set of user tasks and kernel threads | |
| | of the alarms: `TypeCorrect`, `LockAlwaysForUser` | set of types, alarm times and wall times, bound on time | |
| | `AlarmsAlwaysCovered` | | `SlowDevices = FALSE` |
| `DpramRingProofs` | `TypeCorrect` | size of either ring, length of writes | |
| | `RingsAlwaysQueues` (refinement of `PortQueues`) | | `Short = {0}` |
| `OneDramProofs` | `TypeCorrect`, `BankAlwaysGuarded`, `LockAlwaysCounts`, `RequestAlwaysKept`, `NoticeAlwaysKept` (an action property) | ring sizes, bound on requests, set of mails (`RoomAssumption`) | |
| `MultiPdpProofs` | `TxAlwaysOwned`, `DevicesAlwaysAlive`, `AlwaysInSync` | set of interfaces, lines and channels, table size, frame length | |
| `LoggerProofs` | `SleeperNeverHasAny`, `EntriesAreWhole`, `LogLenIsExact` | number of writers and readers, size of ring and entries (`LoggerAssumption`) | `StaleFault = FALSE` |
| | `LoggerImplementsLog` (refinement of `AndroidLog`) | | `StaleFault = FALSE`, `Fresh \notin Reader` |

Each hypothesis is a switch of the module that the run has in the same position. It is no convenience of the
proof: in the other position the property fails, by what section 2 (slow devices) or
section 4, or the run `logger_fault`, shows. (`Fresh \notin Reader` only keeps the name of the reader to come
apart from those of the readers there are.) The inductive invariants were checked by TLC on the instances of the runs
before they were proved.

*Wake locks.* The inductive invariant is `TypeOK /\ TimerCovers /\ SuspendNotLost`. Neither half is
inductive without types. Lemmas describe what `has_wake_lock_locked` returns and takes off the lists
(`HasWakeLockType`, `ExpireKeepsUntimed`), and that arming the timer from that value establishes both
(`RearmEstablishes`), which serves every path that locks, unlocks or expires. The last theorem adds the
phase `late`: behind `power_suspend_late` no step but that of a timer handler makes a lock active
(`LateStep`). `LockAssumption` has `main` and `unknown` apart, as the two structs of `wakelock.c` are.

*Early suspend.* Every step of the composition is a step of `WakeLock` or leaves its variables alone, so the
theorems above hold in it too, and its types come from them. The promises of `earlysuspend.c` are not
inductive, since each speaks of the state when nothing is under way. `ESInv` adds: a request not yet carried
out has its item queued or running (`Answered`); the handlers called are a prefix of the list, whose length is
where the walk is (`WalkInStep`), a handler whose direct call is under way apart, and the list is sorted by level (`Sorted`), from which the order of levels
follows; `main_wake_lock` has no timeout (`MainUntimed`), and only one of the three items runs (`OneThread`).
For the frame buffer, `FbInv` ties the answer to the request: stopped means the program does not draw, and
the handler is down only with the answer or given up on.

*Device PM.* What a walk has done to a device can be read off where it is linked (`Staged`): done on the list
of the stack, to do on `dpm_list`, in between for the one whose callback runs, whether or not it is still
registered. This with `Linked` (each device linked once) is `PMInv` and pairs the callbacks. The order needs
`OrderInv`: both lists have parents in front of children, and between the two lists it depends on the
direction of the walk. It is stated for the parent of a device that is not `astray` (`Up`), so that a
registration in `dpm_complete` is no exception of the proof.

*Suspend sequence.* `Progress` says what `freeze_processes` has achieved at each point, in particular what a
pass that left nothing to do means; `FlagsOK` that `TIF_FREEZE` and `PF_FROZEN` exclude each other. What
`enter_state` holds is a function of where it is (`Holds`), the same on the way in and on every way out; the
frequency lock is outside it (section 4).

*Rings.* Types are inductive alone. The refinement rests on arithmetic of wrapped positions, done once for
any ring: a write that `freesize` allows lands behind the unread bytes and on none of them (`StoreBehind`), a
read takes a prefix (`TakeFront`), and `dpram_read` takes all, in one piece or two (`ReadAll`).

*Semaphore.* `BankGuarded` is not inductive: that a look at `onedram_lock` guards the bank holds because
the counter is exactly the number of contexts at it (`LockCounts`) and because an interrupted context
does not move (`Control` has the nesting). `RequestKept` needs in addition that nobody strikes the count
off between counting and honouring (`NoneStruckOff`), and that a request is owed only while the semaphore
is here. `NoticeKept` needs that the send tasklet has `SEND` in its copy of the mail as long as it runs
(`SoftReads`): it schedules itself again only if it has.

*Alarms.* `AlarmsCovered` needs that `suspended` says how far the
suspend is (`SuspendedInStep`) and that the RTC is set to the first of the timers (`FirstIsLeast`). Time is
not bounded in the proof: `MaxTime` is any number.

*Packet data.* `TxInv` has what stands between the use of an interface and its being freed: it is not down
while its work is under way, nor freed while it is not down. `RxInv` has the lock with the reader from the
header of a frame to its end. `InSync` needs the shape of all that has been received, cell by cell (`Framed`),
and where the reader is in it (`InStep`), which every step keeps that is no slip.

*Wake lock lists.* `LInv` has the types, `Fits` (the flags of a lock name the one list it is linked into, once,
and locks without timeout stand in front of those with one) and `Charged`. That `has_wake_lock_locked` expires no
lock when there is one without timeout, and otherwise takes off exactly those that have run out and returns the
longest time left, is by induction along the list (`WalkFinds`, `Returns`) and needs that order; the loop of
`update_sleep_wait_stats_locked` and `list_del` have lemmas of the same kind. The refinement then has one step
per function: what the walk leaves on the lists, returns and frees is what the sets of `WakeLock` say.

*Log.* That nobody sleeps on an entry has to hold from the moment a reader finds the log empty, before it is
asleep, and while a write is under way, when `w_off` has moved and the entry is not there yet. `FoundEmpty` is
about the place where the entries end (`End`: the start of the write under the mutex, else `w_off`), and needs
that the mutex admits one writer (`OneWriter`) and that `fix_up_readers` does not move a position that stands
there (`FixUpKeepsEnd`).

That what a reader finds is whole entries is not inductive as it stands, since it says nothing of the entries
between two positions. `LogInv` has a set of distances from `End` (`Starts`): closed under going on by the
length that the two bytes there say, up to distance 0, and with every open reader and `head` in it; while an
entry is written, the place it takes lies between `End` and all of them, and its bytes so far are those of the
entry (`EntryOK`). From a start on the walk ends at `End` with no byte left and has as many bytes as its distance
(`StartsWhole`), which gives `WholeEntries` and `LogLenExact`. A write crosses a position exactly when the
distance and the entry together take the ring (`Crosses`), and `get_next_entry` then lands on the start behind
the least number of entries that make room (`NextEntry`), which is what `AndroidLog` drops. The header changes
nothing that can be read; the last byte of the payload adds one start (`StartsMore`), the two length bytes give
the length back wherever they wrap (`Written`), and a copy that fails takes nothing away (`FaultStep`). The
refinement is one lemma per handler on top of that.

*Induction.* The library's induction theorems take an operator, which the installed provers cannot instantiate.
`ListFacts` states what is needed with sets and functions in its place: the least element of a set of numbers
(`LeastNumber`, from well-foundedness), induction over a set (`InductionTo`), and the existence of the function
a loop or a recursion computes (`Iterates`, `GoesBack`). A recursive definition of the model is the `CHOOSE` of
such a function; it satisfies its equation as one exists, and a least counterexample shows it to be the only one.

Only model-checked: the liveness properties of the runs (`SuspendRetried`, `SettlesAtLast`, `TasksThawed`,
`WakeupDelivered`, `WorkDone`), since fairness and ENABLED are outside this prover. Every
invariant, action property and refinement that a passing run checks has a theorem.

## 6. Not modelled

The models cover the parts in which this kernel differs from upstream and which carry protocol between
actors; they are a small share of eleven million lines. Upstream Linux (file systems, networks, the drivers
of hardware this phone does not have, the other architectures) is not this system's own logic.

* The amounts of the wake lock statistics, `/proc/wakelocks`, debug messages.
* `userwakelock.c`: a tree of named locks under one mutex whose calls are the actions of `WakeLock`; what
  is its own is parsing (a timeout that is a multiple of 2^32 jiffies is cut to zero, which asks for no
  timeout, `userwakelock.c:74`).
* Hibernation, runtime PM, CPU hotplug, `pm_test` levels: not in the configuration.
* Of the modem link: loading the modem's firmware, dump mode, the error device, SIM detection, the second
  port (a copy of the first), and two openers of a tty (`dpram_tty_open`, `dpram_tty_close`).
* Of `multipdp.c`: open and close of the serial lines, HN_PDP_TXSTOP, unloading and hang-up of the port.
* Of device PM: `device_pm_move_before`, `_after` and `_last`, and a registration below a suspended parent. Of the
  freezer: signals, stopped and traced tasks.
* Of the logger: `poll`, and the copy kept for a crash dump. Of the alarm driver: reading the time, `/proc`.
* Binder, ashmem and pmem: upstream Android. Binder alone is larger than all that is modelled here, and
  its transaction stacks and reference counts would be a project of their own.
* Device-specific register code; user space.

## 7. Plan

The parts listed as not modelled above, in this order: the tty side of the modem link composed with
`DpramRing`; the transaction stacks of binder; ashmem's pinned ranges and pmem's allocator as pure algorithms.
