# Verification of the TOPPERS/JSP kernel and the KOBANZAME SDK

The repository is a real-time operating system for the Blackfin processor (the
TOPPERS/JSP kernel, `jsp/`), the device drivers and libraries of the KOBANZAME
board (`kzsdk/`, `lib/`), a third-party file system (`fatfs/`), and host tools
and samples. This directory holds TLA+ specifications of the parts where many
actors share state, or where one of several steps may fail, the TLC
configurations that check them, and proofs for TLAPS.

## 1. Inventory

| part | state | operations | what is hard | what makes it correct |
|---|---|---|---|---|
| tasks and scheduling (`kernel/task*.c`, `wait.c`, `sys_manage.c`) | TCBs, ready queues and bitmap, `schedtsk`, `runtsk`, `enadsp`, `reqflg` | the μITRON task, wait, suspend, priority and exception services, from tasks and from handlers | `schedtsk` is updated incrementally; the need for a dispatch travels in return values; waits end in four ways; double waits | queues, bitmap, states and `schedtsk` agree; no dispatch, time-out or exception is lost; nobody switches while held |
| dispatcher, interrupts, idle (`config/blackfin/cpu_support.S`) | nesting (IPEND), CPU lock (IMASK), saved contexts | dispatch, interrupt entry and exit, idle loop | requests made at any nesting level, at the edge of sleeping | the outermost exit and the idle loop serve each request |
| time (`time_event.c`, `time_manage.c`, `cyclic.c`) | heap of time events, system time | register, cancel, tick, cyclic start and stop | wrap-around, windows in the tick's loop, re-registration | heap order; each event fires once, not early, in order |
| semaphores (`semaphore.c`) | count, wait queue | signal, wait, poll, time-out | a signal meets a time-out or release | units are conserved; no waiter while units are free |
| event flags (`eventflag.c`) | pattern, wait queue | set, clear, wait, poll | waiters with different conditions, TA_CLR in the middle of a set | nobody waits for what is there; what a waiter was given satisfied it |
| mailboxes (`mailbox.c`) | list of messages through the messages, wait queue | send, receive, poll | handing over, priority order, links in the user's memory | each message is with one party; order |
| memory pools (`mempfix.c`) | free list, never-used limit, wait queue | get, release | a block handed to a waiter that is then released | each block has one owner |
| data queues (`dataqueue.c`) | ring, two wait queues | send, forced send, receive, with time-outs | blocked senders, capacity 0, overwriting | first in, first out, nothing lost or invented |
| serial driver (`systask/serial.c`, `pdic/simple_sio/uart.c`) | two rings with counts, two semaphores, flow-control flags, UART registers | open, close, control, read, write, two call-backs | tasks and interrupts share counts that the semaphores mirror; START and STOP | tokens mirror counts; characters in order, none lost |
| system log (`syslog.c`, `logtask.c`) | log ring, loss counter | write, read, mask | full ring, a reader that lags | order, honest loss count |
| SDK file system lock (`fs_support.c`) | a semaphore | grant with time-out, release | time-out races the release | exclusion, the unit survives |
| SDK SPI (`kzdev_spi.c`) | current transfer, completion semaphore, bus lock | open, transfer by interrupt or polling, close | handler and caller share counts; the device shifts by itself; time-out | a transfer reported done is done, for its caller |
| SDK audio (`kzdev_audio.c`) | triple and double buffers with their indices, call-back, `mbStarted` | start, stop, interrupt, DSP task | coalesced wake-ups, buffer index derived late, stop in the middle | what is played is what was recorded, a fixed lag later; silence after stop |
| SDK devices (`kzdev.c`, `kzdev_mems.c`, `kzdev_mmc.c`) | call-backs, counters, timers, the bus | cyclic handler, polling task, start, stop, card operations | two assignments against a scan, timers counted down by another task, which itself waits | every switch reported; waits end at their limit |
| SDK stdio and heap (`kzstdio.c`, `kz_malloc.c`) | pool of file objects; the heap | open, close, read, write, seek; malloc, free | `dis_dsp` does not nest, error paths | the heap's sections are exclusive; see the file system |
| file system (`fatfs/src/ff.c`) | FAT window, last cluster and free count, file objects with a sector buffer; the medium | open, read, write, seek, sync, close, unlink, rename, getfree | copies of one sector in three places; failed transfers; power cuts between two transfers | no cross-link but the two names that `f_rename` can leave; reads see what was written; a saved file survives a cut in calls on others |
| interrupt tables, timer task | | | no state after start-up | |
| shell and console, configurator, samples, other ports | | | sequential or host code | |

How they interact: tasks call kernel services; handlers call the `i` services
and only request dispatches; the timer handler runs call-backs of the time
event heap; drivers combine interrupt routines with semaphores (`serial.c`,
`kzdev_spi.c`) or wake-ups (`kzdev_audio.c`, `kzdev.c`); the log task writes
through the serial driver; FatFs reaches the card through `kzdev_mmc.c` and the
SPI bus under the file system lock; the polling task counts the card's
time-outs and reads the accelerometer over the same bus.

`PROJECT.json` lists the hazards with the properties that watch them.

## 2. Modules

| module | models | built on |
|---|---|---|
| `KernelTables` | the kernel's tables as one record, and each routine of `task.c`, `wait.c`, `queue.h` as a function from tables to tables | |
| `Kernel` | services, interrupts, dispatcher, idle loop as actions | `KernelTables` |
| `KernelInv` | the kernel's properties and fairness | `Kernel` |
| `Semaphore`, `EventFlag`, `Mailbox`, `MemPool`, `DataQueue` | the file of that name, its calls built from `TaskCall` and `IntCall` | `KernelInv` |
| `SemLock` | tasks that guard a resource as `fs_support.c` does | `Semaphore` |
| `Heap` | `kz_malloc.c`: sections between `dis_dsp` and `ena_dsp` | `KernelInv` |
| `Channel` | what a data queue promises, abstractly | |
| `TimeEvent` | `time_event.c`, `cyclic.c`: the heap with times modulo W, start-up included | `Timers`, as what it implements |
| `Timers` | what time events promise: a set of events with the time left | |
| `SysLog` | `syslog.c` and the loop of `logtask.c` | |
| `Serial` | `serial.c` and the UART under it | |
| `SpiDriver` | `kzdev_spi.c` and the device's shift register | `Semaphore` |
| `Audio` | `kzdev_audio.c` and its two DMA channels | |
| `Devices` | `kzdev.c`, `kzdev_mems.c`, the waits of `kzdev_mmc.c` | |
| `FatFs` | `ff.c`: each routine as a function of the volume or of volume and file object | |
| `KzStdio` | `kzstdio.c` and the file commands over `FatFs` | `FatFs` |
| `Files` | what the file system promises, abstractly | |
| `MCKernel`, `MCObjects`, `MCSerial`, `MCTimeEvent`, `MCSdk`, `MCFiles` | instances for TLC | the modules they extend |
| `KernelProofs`, `KernelCallProofs` | theorems about `Kernel` and `Semaphore`; the last has what the modules above the kernel need of it | `KernelInv`; `Semaphore`, `KernelProofs`; TLAPS |
| `ObjectProofs` | theorems about the other objects over the kernel, and the log | those modules, `KernelCallProofs` |
| `SerialProofs` | theorems about the serial driver | `Serial`, TLAPS |
| `TimeEventProofs` | theorems about the heap of time events | `TimeEvent`, TLAPS |
| `SdkProofs` | theorems about device polling, audio and SPI | `Devices`, `Audio`, `SpiDriver`, `KernelCallProofs` |
| `FatFsProofs`, `FileProofs` | theorems about the file system: lemmas on `ff.c`'s FAT, window and loops; its calls | `KzStdio`, TLAPS; `FatFsProofs` |

`MCObjects` and `MCSdk` hold several parts that share no state of their own. The
variable `served` says which of them a behaviour is about; the others keep their
initial state, so the runs cost the sum of the parts and not their product.

**Atomicity.** A kernel service runs CPU-locked from its first to its last
access to the tables, so a service is one action. In between anything may
happen: any service the context allows (`TSKCTX`, `INTCTX`, ... are the tests of
`check.h`), an interrupt, a nested interrupt, a time-out. A service that is
refused changes nothing and is a stuttering step. In `Serial` each section
between `loc_cpu` and `unl_cpu`, each call of a semaphore and each interrupt
routine is an action, and every task has a program counter `at`. In `SpiDriver`
each access of the caller to the device is an action, because the device shifts
and the handler runs between them. In `Audio` and `Devices` the steps are those
between two points at which a more urgent task or handler may interfere. A call
of `ff.c` runs under the volume's lock and is one action; what happens within it
is its fault: one transfer may fail, or be the last before a power cut.

**Return values.** A routine that returns "a dispatch is needed" is two
operators, the effect and the value (`_ret`, without the factor `enadsp`, which
`Disp` applies). Thus a caller that forgets the value would be visible.

**Abstractions.** In `Kernel` the heap of time events is the field `tmevt` of
each task: a registered call-back may fire at any time; `TimeEvent` has the heap
itself, where the positions an insertion or removal visits are a set (`trail`) and
the moves along it one assignment. WINFO keeps the fact that it is a union (`winfo`). Activation and wake-up
counts have maximum 1 as in `kernel.h`. The pattern of task exceptions is empty
or not; that of an event flag is a set of bits. The links between messages are a
function from messages to messages, as in the code. In `Serial` characters are
numbers modulo `Stamps`, more than can be in flight, so that order and loss show;
the semaphores are counters (the part `lock` of `objects` is what justifies it);
the contents of the receive ring are left out, its count is not. In `SpiDriver`
unit i of a buffer is the number i; in `Audio` a row of samples is the number of
the row and the call-back copies. In `FatFs` a unit is the part of a sector that
callers read and write, and no two units that calls write are alike, within a
call neither, so that a unit in the wrong place shows; a run of whole sectors goes
sector by sector; `tidy` forgets what free clusters hold. The directory is the
root directory, with entries in any number of sectors, which pass through the
same window as the FAT. Of the modes of `f_open` FA_OPEN_ALWAYS is left out (no
caller); FA_CREATE_NEW is how `cp` opens its target. In `Serial` a character that
is echoed with CRLF set takes one or two places (`echoed`).
A loop of `ff.c` is `repeat(n, s, F)`: n turns of its body F, which after the end
of the loop changes nothing; n is as many turns as the loop can make (clusters
for a loop along a chain or over the FAT, units for one of transfers).

Operators with suffix `_mut` hold one plausible mistake each. No specification
uses them: they document which mistake each property finds (list "mutants" of
`PROJECT.json`).

## 3. What the runs check

| run | instance | checks |
|---|---|---|
| `kernel_full` | two tasks, every service, two nested handlers, one task with exceptions | type; queues, bitmap and states agree; `schedtsk` is right; no dispatch or exception lost; the running task is runnable; timers and waits agree; no switch while held |
| `kernel_sched` | three tasks, two of one priority, the services that move ready tasks | the same for the queues, and first come first served: who comes to a queue stands at its tail |
| `kernel_live` | as `kernel_sched` with two tasks, nesting and CPU lock | a requested dispatch happens |
| `objects` | three tasks; a semaphore, a lock, two event flags (with and without TA_CLR), two mailboxes (by arrival and by priority), a pool of two blocks, a data queue of capacity 0 or 2, the heap, a log ring of 2 | each object's invariant, wait queues against objects, the lock's units are conserved, the data queue implements `Channel`, the heap's section is exclusive, the log is honest |
| `serial` | two tasks, buffers of 3, echo and flow control | tokens mirror counts, nothing lost, order kept, pending START or STOP gets its interrupt |
| `serial_resume`, `serial_stop`, `serial_reopen` | two tasks, flow control | three comments of `serial.c` that its code does not honour, see below |
| `time` | a cyclic handler and five time-outs, times modulo 8, ticks of 3/2 ms | heap order and back-pointers; `TimeEvent` implements `Timers` |
| `sdk` | two SPI users, two file objects, one audio user, two device users | transfers done, one at a time; no cross-link but by a renaming stopped half-way; a call touches one file at most; `KzStdio` implements `Files`; audio lag and silence; switches reported; card waits neither early nor for ever |
| `files_error` | one file object, one failing transfer | a promise of `create_chain` its code breaks, see below |
| `devices_timeout` | one user with accelerometer and card | a promise of `kzdev_mmc.c` that does not hold, see below |

**Bounds.** `MaxNest` = 2 lets a handler interrupt a handler, which is the only
distinction the exit code makes (outermost or not); one level suffices where
nesting is not the question. Two priorities and three tasks give a more urgent
task, two equal ones and every order of them in a queue. `MaxTexLevel` = 1
bounds exceptions nested in exceptions by `ena_tex`. `TNUM_TPRI` is 2 instead
of 16.

The serial buffers of 3 with STOP at 2 and START at 1 keep the order
0 < START < STOP < size of the real 256, 192 and 128; `UIntRange` = 16 stands
for 2^32 and is larger than any count but a wrapped one. `MaxLen` = 2 makes a
write loop continue after a character. `serial` closes the port only when
drained (`CloseDrained`), since `serial_reopen` shows what happens otherwise.
`MCKernel.SchedNext` and `KernelCalls` of `MCObjects` pick the services
that bear on the question so that three tasks stay within reach. `MaxLog` = 6
writes the ring of 2 round three times.

`W` = 8 makes times wrap around every few ticks; relative times of 0, 1 and 3
are the least, a middle one and the greatest below half the range; six events
make a heap of three levels, in which a removed node's successor can have to go
up. Ticks of 1.5 ms make the fraction of a tick matter.

`SpiDriver`: transfers of up to three units give a first, a middle and a last
one, with either side the longer. `FatFs`: three clusters in two sectors of FAT,
four entries in two sectors of directory, so that a new name can be in the sector
of the old one or in another, a sector of one or two units and a cluster of two or
one sectors, so that every boundary (unit, sector, cluster, sector of FAT, sector
of directory) is crossed; volumes that are empty, or full, or have both files in
different sectors of the directory and a free cluster between their chains, or one
file in the second sector with room in the first; `MaxCalls` = 4 calls from each of
these, one fault; `MaxTransfer` = 9 is as many transfers as a call of this instance
makes, so the fault may hit each. `Audio`: halves of one and two
rows; `MaxRows` = 9 is more than twice the longest lag (2 * 2 + 3 = 7).
`Devices`: scan times are 1 and `Limit` is 2, so that a timer can be left at
every value when the next wait starts.

**What the models assume.** `Audio`: the deadlines of `InTime` (an interrupt is
served before the next row, the DSP task is done with a half before the other is
full), which the driver cannot check; a call-back that waits ends within the
`dly_tsk(10)` of `stop_audio`; one task starts and stops the audio.
The DSP task's test of `mfnCbk` and its call (`kzdev_audio.c:152`) are one step: no
user task runs between the two reads, as the DSP task is the more urgent one; and
`delay_end` has the DSP task asleep, which is the assumption about `dly_tsk(10)`.
`Devices`: users are less urgent than the polling task (the samples use 8
against 5), call-backs do not wait, and a turn of the polling task takes less
than the millisecond of its cyclic handler but for its waits. `KzStdio`: nobody
opens a file twice or removes an open one (what `appnote.html` asks for), and a
volume on which a renaming was stopped half-way is not used before it is repaired
(`two_names`).
`SpiDriver`: in the run no transfer times out (`MayTimeOut` = FALSE): the limit
is 10 ms for each unit (`SPI_TIMEOUT_PER_BYTE`, `kzdev_spi.c:27`), which takes
microseconds, and when it does expire the driver
signals its own completion semaphore and the next transfer returns at once.

**Fairness.** `Fairness` in `KernelInv` (`kernel_live`): handlers are finite
code and end; a handler that locked the CPU unlocks it; interrupts do not arrive
for ever without the outermost handler returning, nor keep the idle loop from
polling `reqflg`. These need strong fairness because a nested handler disables
the outer one's step. Nothing is assumed of the tasks: dispatch happens whatever
they do. `DevFairness` in `Devices` (`sdk`, `devices_timeout`): ticks keep coming
and the polling task, the most urgent one, proceeds when it can (weak fairness);
a user task in the middle of a call gets the processor again and again between
the turns of the polling task (strong fairness of `Finish(u)`, since each turn
disables it). Nothing is assumed of the card, and no user is obliged to call.

**Findings.** (1) `serial_resume`: the comment at `serial.c:505` says that
sending resumes; after START one character is sent and the transmit call-back
stays disabled, so the rest of the buffer waits until something else enables
it. (2) `serial_stop`: a STOP pending in `rcv_fc_chr` is overtaken by a START
written directly, and the driver forgets that it has stopped the other side.
The window is the locked section of `serial_rea_chr`, in which the transmitter
may become free. (3) `serial_reopen`: opening resets the counts, not the
semaphores; a port closed with characters unread lets a reader take one from
an empty buffer. (4) `files_error`: `create_chain` takes a read error of its
first `get_fat` for the end of the chain (`ff.c:484` tests `cs < 2` and
`cs < mcl` only), links a new cluster there, and the call succeeds; the rest of
the file is lost. (5) `devices_timeout`: a card operation waits with the bus
held; with the accelerometer started, the polling task that counts the
operation's timer down waits for that bus first. If the card never answers,
neither goes on. `CardTimesOutAlone`, checked by `sdk`, is what does hold.

Observed while modelling, with no run of their own: the comment at
`serial.c:66` announces a maximum time to wait for output on close, and
`serial_cls_por` does not wait; `f_sync` clears FA__WRITTEN before the `sync`
that may fail (`ff.c:2002`), so a failed close followed by another looks clean;
`fopen` with mode "a" truncates (`kzstdio.c:411` uses FA_CREATE_ALWAYS); an
unknown mode runs past the table of `kzstdio.c:422`; a failed `fclose` keeps
the file object for good (`kzstdio.c:459`); `malloc` ends a `dis_dsp` section
of its caller. The model does all of these as the code does.

## 4. What is proved

TLC checks the instances of section 3; the theorems below hold for all values of
the constants, from the assumptions that the modules state on them
(`TaskAssumption`, `TorderAssumption`, `WObjAssumption`, `BoundAssumption` for the
kernel: what the configurator guarantees; `SemAssumption`, `DtqAssumption`,
`MpfAssumption`, `MbxAssumption`, `FlgAssumption`, `LockAssumption`, `SerialAssumption`,
`LogAssumption`, `TimeAssumption`, `DevAssumption`, `AudioAssumption`, `SpiAssumption`,
`FatAssumption`, `VolumeAssumption`, `StdioAssumption` for the other parts). Those of
the file system say that a volume starts with its chains in order, each cluster in
use in a file and each sector of a cluster there, and that NONE, which stands for
no name and no sector, is neither. TLC evaluates each of them in some run. Where a theorem needs more, its
statement says so: `CloseDrained` (a port is closed when nothing is left in it;
`serial_reopen` shows what happens otherwise), `~MayTimeOut` (no SPI transfer
takes 10 ms per unit), `OneUser` (one task starts and stops the audio), and
`swait_queue \notin TA_TPRI` (senders of the data queue wait in the order of
arrival, which is what a channel promises). The runs satisfy each of them.

| module | theorems | about |
|---|---|---|
| `KernelProofs` | `TypeCorrect`, `TablesGood`, `HoldAlways`, `NoDispatchLost`, `TexDelivered`, `SwitchOnlyWhenAllowed` | `TypeOK`, `HoldInv`, `DispatchInv`, `TexInv`, `NoSwitchWhileHeld` |
| | `ReadyQueuesRight`, `SchedtskRight`, `RunningIsRunnable`, `TstatRight`, `TimersRight`, `FirstComeFirstServed` | `ReadyQueueInv`, `SchedtskInv`, `RunningInv`, `TstatInv`, `TimerInv`, `OneGoesToTail` |
| `KernelCallProofs` | `SemaphoreRight`, `WaitQueuesRight`, `KernelWithSemaphores` | `SemInv`, `WaitQueueInv`, the kernel's invariants with semaphores in use |
| `ObjectProofs` | `DataQueueRight`, `DataQueueIsChannel`, `PoolsRight`, `MailboxesRight`, `FlagsRight`, `HeapIsExclusive`, `UnitsAddUp`, `LogIsHonest` | `DtqInv`, `ImplementsChannel`, `MpfInv`, `MbxInv`, `FlgInv`, `HeapExclusive`, `UnitsConserved`, `LogInv` |
| `SerialProofs` | `TokensMirrorCounts`, `NothingIsLost`, `SentInOrder`, `FcGetsSent` | `TokenInv`, `NothingLost`, `InOrder`, `FcWillBeSent` |
| `TimeEventProofs` | `HeapStaysRight`, `HeapIsTimers` | `HeapInv`, `ImplementsTimers` |
| `SdkProofs` | `SwitchesAreReported`, `WaitsRunTheirTime`, `SamplesInOrder`, `StopIsQuiet`, `OneTransferAtATime`, `TransfersAreDone` | `SwitchesReported`, `NoEarlyTimeout`, `Delayed`, `QuietWhenStopped`, `OneTransfer`, `TransferDone` |
| `FileProofs` | `FilesInOrder`, `FilesNeverCross`, `FilesKeepApart` | `FatInv`, `CallsApart` |

**Types** (`TypeInv`). `TypeOK` is not inductive: `schedtsk` is taken from the
head of a queue, which is a task only if the queue is not empty. `TypeInv` adds
what makes that so: a bit of `ready_primap` is set only for a non-empty queue
(`GoodTables`). One lemma per routine of `task.c` and `wait.c` shows that it
preserves `GoodTables`; the theorem goes through the actions.

**Dispatching** (`DispInv`). The inductive invariant is the conjunction of
`HoldInv`, `DispatchInv` and `TexInv`: each alone fails in a step that needs
another, as when the return of a handler relies on `reqflg` being set
(`DispatchInv`) and must not leave it set (`HoldInv`). The central notion is
`Reports(k1, k0, ret)`: the routine from `k0` to `k1` answers TRUE whenever it
changed `schedtsk`. One lemma per routine shows it; `TaskReport` and `IntReport`
show that a service that passes the answer on keeps `DispInv`.

**Queues and states** (`TableInv`). `ReadyQueueInv`, `SchedtskInv`, `TstatInv`,
`TimerInv` and `WaitQueueInv` are about the tables between service calls; inside
one they fail, since a routine takes a task out of a queue before it changes its
state. So each is split: `Ready(kk, R)` says that queues, bitmap and `schedtsk`
are right for a set R of tasks, whatever the TCBs say, and `Linked(kk, S)` the
same of the wait queues and a set S; `TcbOK` is about one TCB. The lemmas follow
a call: a routine takes t out of R or S, works on the TCB of t while the others
are right (`OthersOK`, `Apart`), and puts t back, after which `Consistent` holds
again. `RunningInv` is part of the invariant because services on `runtsk`
assume it, `StartInv` because start-up activates tasks one by one.

**Order among equals** (`OneGoesToTail`). An action property about the ready
queues: the tasks that stay in a queue keep their order, and a task that comes to
one, newly runnable or with another priority, or that others overtake there, is at
its tail, and there is one such task at most in a step. It
follows from `TableInv` before and after the step: a routine takes one task out of
its queue (`Leaves`), puts one at a tail (`Joins`) or does both with the same one
(`Moves`), and the others keep their order (`RestKeepsOrder`); since every service
is built from those routines, no combination of them moves two tasks. `OneJoined`
says the rest: the one task a step may move is the only one that can be new in a
queue, and the routine has left it at the tail.

**Objects over the kernel.** Their modules add services to the kernel's steps,
so their theorems need three things of the kernel (`KernelCallProofs`). The
services, built from `wait_complete` and `wobj_make_wait` as the code's are,
keep `KernelInvs` (`WakeHead`, `WaitOn`). No step of the kernel itself puts a
task into a wait queue (`NoNew`): the frame that carries "nobody waits while
there are units" over a time-out, `rel_wai`, `ter_tsk` or `chg_pri` of another
task. And a step of the kernel leaves a wait as it is, or ends it with an error
in `winfo`, or starts one that is no object's (`Calm`, `NextWaits`): the frame
for what a task that was given something finds when it runs again.

- Semaphores: `SemIInv` is `KernelInvs` with `SemInv`.
- Data queues: `DtqIInv` adds `RingInv`, in which the remainder of `DtqInv` is
  written out as a case, and `QueueInv`; capacity 0 included. For the
  refinement, `ChanIInv` adds that cells and offers hold messages. The channel's
  line of messages is what the ring holds followed by what the blocked senders
  offer; each call maps to a step of `Channel`, and a step that only ends waits
  takes offers out of the line (`LineGivesUp`) and keeps the order of the others,
  which is where arrival order of the senders is needed.
- Pools: `PoolInv` is `MpfInv` for one pool; a block handed over never passes
  through the free list.
- Mailboxes: `Box` says of one mailbox which messages its links run through. The
  links determine that sequence (`LinksOne`, by the first place where two would
  differ), so what `enqueue_msg_pri` finds while it walks is what the invariant
  speaks of; it is no longer than there are messages (`NoRepeatShort`). `Box`
  adds what `append_msg` relies on, that `last` is the last message while there
  is one; `InOneBox` keeps the links of other mailboxes out of a call's reach.
- Event flags: `FlgTask` says of one task what it waits for and what it was
  given; `OneWaiter` that no two tasks wait for one flag (TA_WSGL).
- Heap: inside the heap the task runs with dispatching disabled or the CPU
  locked (`HeapTask`), which no handler and no other service ends.
- Lock: `Owns` joins the tasks that use a unit and those it is on its way to;
  every step of the kernel keeps that set, and `sig_sem` and `wai_sem` change it
  by one (`LockIInv`).

**Serial** (`SerIInv`). The tokens with the counts (`SndToken`, `RcvToken`),
written for single tasks: one task is between taking and returning a token, and
no other. `Line` says what character each cell of `snd_buffer` holds. `Closed`
says that a closed port is drained and deaf, which is where `CloseDrained` is
needed. `FcWillBeSent` is inductive by itself.

**The log** (`LogIInv`). What was written is what was printed, announced, is to be
announced, or is kept; inductive with the places of the records in the ring and
with where the reader is between taking a record and printing it.

**Time events** (`HeapIInv`). The loops of `tmevt_up` and `tmevt_down`, which
move an empty node and pull the nodes it passes, are not written as recursion:
each is a function that says for every position where the empty node goes next,
if it goes on. `trail` is the set of positions it visits, the least one closed
under that function, and `place` moves all nodes of the trail by one. What a loop
computes is then proved without induction over it:
- `TrailIsWay`: along a function that lowers a rank (the position when going up,
  its distance from the end when going down) the trail does not fork and has one
  end. It rests on `LeastNatural`, which comes from the library's well-founded
  order of finite sets.
- `PlaceKeeps`: `place` loses no node, doubles none, and tells every block its
  position. `UpOrder`, `DownOrder`: each direction restores the order of the heap.
- `InsertKeeps`, `RemoveKeeps`: what the two operations do to the set of
  registered events and their times, the heap staying one. `RemoveKeeps` is where
  the last node goes up or down from the middle of the heap.
- `RelLater`: a time asked for comes as far ahead as was asked, wrapped around or
  not. `RelFrom`, `RootIsFirst`: when a tick ends no event is earlier than the new
  `current_time`, so all distances shrink alike and the order stays.

`HeapIInv` is `Heap(H)` with the range of the clock (`ClockInv`: the next tick is
at most one tick, rounded up, ahead), the agreement of `cycsta` and `evttim` with
the heap (`CycInv`) and the state before the kernel starts (`StartInv`). One lemma
for each action (`EnqueueStep`, ..., `ReturnStep`) says what it does in terms of
events and times; both theorems use it. For `HeapIsTimers` the time left of an
event is its distance from `next_time` in units of 1/TIC_DENO ms less
`next_subtime`; a cyclic handler that `cyclic_initialize` has still to register
counts as registered, so the steps of start-up are stutters of `Timers`.

**Device polling** (`DevInv`). For the switches: how far a forced scan has come,
and that no registered call-back is left unreported behind it. For the card: a
wait has the bus, and what is left in its timer and the scans it has seen make
up the limit.

**Audio** (`AudioInv`). All is counted in rows: `served` rows of the session,
`first` the number of those before the present half; the invariant says what row
each cell of the four buffers holds. Both theorems assume `OneUser`, since
nothing in the driver keeps two tasks apart that start it at once, and `InTime`
is part of the specification.

**SPI** (`SpiIInv`). On top of `SemIInv`, as users open the bus through a real
semaphore of the kernel and wait for the completion semaphore of another:
`OneBus` (a unit of the bus's semaphore is with it, with its user, or on its way
to a waiter), and `Work`: one user at most has the bus, and `Phase` tells for
each place in its code how many units went over the wire and were read, what
`spi`, the device and the completion semaphore look like.

**Files without cross-links** (`SoundInv`). `FatInv` speaks of the FAT
between calls, with the driver and on the medium, so the invariant has to say what
holds in the middle of a call, where an error may end it and a power cut may leave
any of it on the medium.

- `InOrder(fat, heads)` says cluster by cluster all of a FAT that matters: no
  head is free, no cluster leads to a free one or to a head, no two lead to the
  same one. `ChainsApart` shows that the chains of different heads are then
  disjoint. The chain of a cluster is not a recursion but the least set closed
  under the FAT (`clusters`): take from one chain what it shares with another and
  what is left is still closed, so they share nothing.
- Every write of an entry of the FAT keeps it in order, because of the order of
  the writes: `create_chain` marks the new cluster as an end before it links it;
  `remove_chain` frees a chain from its head on, after the directory has let go of
  it (the mutant `overwrite_mut` swaps these two).
- `Holds` says so of a volume and of its medium. The window holds one sector, of
  FAT or of directory, and is written before the next one is taken, so the medium
  has a FAT and a directory that the driver had between two writes, and a power cut
  finds only those.
- `f_rename` writes the new entry (`ff.c:2671`) and then deletes the old one
  (`ff.c:2693`). With both in one sector that is one transfer. With the two in
  different sectors it is two, and an error or a power cut between them leaves both
  names with the one chain: the cross link of which `fatfs/doc/en/appnote.html:149`
  warns. The model has it so. The field `torn` of a volume, which is no part of
  the program, records the pairs of names of such renamings, and `NoCrossLink` lets
  exactly those pairs share a chain, and the whole of it. `FilesTorn` is the
  invariant then: all of `FilesInv` but that two names of a pair in `torn` may have
  one head. `SoundInv` is either, `FileInv` what a call begins with: a volume with
  `two_names` is to be repaired, or the system started again (when the medium has
  only one of the names, it is in order), and no calls on it are modelled: the
  theorems do not speak of what calls make of such a volume.
- `FilesInv` is what holds between calls: the heads are what open file objects
  have as their first cluster, and the entries for the other files. A call on one
  file keeps `CallInv`: it takes only clusters that are free and keeps off the
  heads of all other files.
- A fault may lose clusters or leave an object wrong about its file, so "in use
  means in a file", the count of free clusters (`Tight`) and the place of the
  current cluster (`Quiet`) are claimed while none has happened. `Quiet` is what
  `read_cluster` and `write_cluster` rely on when they go on from `curr`.
- A loop is a row of states, each a turn of the body after the one before
  (`LoopTurns`), and a property of all of them follows by counting (`CountUp`).
  It is stated for sets, which the provers take, and proved from the least
  natural outside of the set.

**Calls and the other files** (`TerritoryInv`). `CallsApart` says of every call that
there is one file, if any, that it touches. The others keep their entry, their file
object with its buffer and the contents of their file; and where the medium had
their entry and chain, it still has them, with the same contents. An error may end
the call after any transfer; if a power cut does, the part about the medium is what
is left, and it is what a file needs to be there after the restart.

- `Owned` gives each cluster an owner, the entry of the file whose chain it is in,
  and says that no cluster leads from one owner to another. `TerritoryInv` is
  `SoundInv` with such owners unless there are two names for a chain, and with what
  sector each buffer holds.
- `Realm` is what a call on one file is to keep: the entries, links and data of
  all clusters with other owners, with the driver and on the medium. A step
  `Spares` them. That no step writes there follows from where it goes on: the
  place a loop has reached is `Away` from the clusters of others, a link leads to
  no other owner, and a new cluster was free, so it had none.
- The window takes to the medium what the driver has, so a link that agreed with
  the driver's still does (`Spares` has this as a part).
- `file_at` reads a file sector by sector, following its chain with
  `nth_cluster`. Two FATs that agree on a chain are followed alike (`WalkIn`,
  `WalkSame`), so a file whose chain and data are kept has the same contents
  (`TextSame`).
- After a power cut the volume is what the medium holds, and owners are chosen
  anew from the directory found there (`OwnersFound`).

The theorems about files hold for any size of FAT, sector and cluster, a directory
of any number of sectors, any lengths and offsets, any number of objects, calls,
errors and power cuts.

**Only model-checked.** Liveness (`DispatchHappens`, `CardTimesOutAlone`):
fairness and ENABLED are beyond the prover. `ImplementsFiles`: that a call leaves
all files but its own alone is `CallsApart`; what is missing is that the file it
touches then holds what `Files` says, which needs its contents followed unit by
unit through buffer, sectors and faults of every call. What `time`
does not show is that the loops of `time_event.c` visit the positions of `trail`
one after the other; that is how `trail` was read from them.

## 5. What is left

What comes next, in this order. Proofs: `ImplementsFiles`, on top of `TerritoryInv`
and `CallsApart`, first for the calls that transfer no data (`f_open`, `f_unlink`,
`f_rename`).
Models: the initialisation of the card with its retries; sub-directories of
FatFs, once an instance with them is small enough.

Not modelled, and why: registers, stacks and masks of the processor (below the
level at which the kernel's own code works); interrupt and exception tables
(constant after start-up); `set_tim` and `get_tim` (nothing modelled reads the
system time); LEDs (a store without interaction); of the card its initialisation with the
one-second wait on `Timer1` (`kzdev_mmc.c:338-354`) and the transfers of several
blocks (`:409-416`, `:450-459`), which repeat the waits that are modelled; the
`idle` instruction, before which the code masks handlers: whether it returns for an
interrupt that is pending is for the processor and `SIC_IWR`
(`cpu_support.S:137`); of FatFs sub-directories, long names,
attributes, `f_truncate`, `f_forward` and `f_mkfs` (they add no new kind of
interaction between window, FAT and buffer), and the code pages
`option/cc9xx.c`, which are tables of constants; the configurator, in two copies
`cfg/` and `jsp/cfg/` (a host program whose output is `TaskAssumption`); dumps of
memory-mapped registers, samples, the command shell and the flash programmer
(tables, or sequential input and output); the other ports and UART drivers (the
same interfaces on hardware the board lacks); `_syscall`'s panic when a wait of
the serial driver is released by `rel_wai`. These make up most of the
repository's lines, so the share of lines that the modules stand for is small
although the kernel and the drivers are covered: about half of all lines are
tables of characters and generated or host code.
