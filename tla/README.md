# A TLA+ model of the TP2 operating system

The repository is a small 64-bit teaching system: a kernel with preemptive
round-robin processes, counting and named semaphores, pipes, two memory managers,
a keyboard, video and sound driver, and a userland with a shell, a terminal,
commands and test programs. This directory holds TLA+ modules that model it, the
TLC runs that check them on small instances, and theorems checked by TLAPS.

## Inventory

| part | state | operations | hard behaviour |
|---|---|---|---|
| process table and scheduler (`scheduler.c`, `process.c`) | `processTable`, `readyQueue`, `currentProcess`, `foregroundSet`; per process: state, priority, quantums, parent, children, terminated children, two semaphores | create, yield, nice, block, unblock, kill, exit, wait, reap, foreground | the timer preempts at any user instruction; a kill or Ctrl+C meets a process in any state; parents die before children |
| semaphores (`semaphore.c`) | value, queue of waiters, spinlock | wait, post, try-wait | waiters that were killed, unblocked early, or whose PID was reused are still queued |
| queue (`queue.c`) | linked list | enqueue, poll, remove | repeated entries; NULL of an empty queue is read as PID 0 |
| init (`kernel.c`) | none of its own | sets up the keyboard pipe, starts the shell, `wait_any` for ever | runs kernel code with interrupts **on**; `main` runs again after a fault |
| system calls (`syscallDispatcher.c`) | - | one function per call | interrupts off throughout; `sys_exit` spins if it is refused |
| pipes (`pipe.c`, `circularBuffer.c`) | ring buffer, four semaphores, writer count | blocking read and write, last writer's close | tokens only on empty-to-nonempty; a close against blocked readers; a woken reader that dies |
| files (`fileAccess.c`, descriptor tables of `process.c`) | accesses and pipes with reference counts, one table per process | pipe, dup, reopen, close, inherit with overrides, die | one access shared by many slots; five-step calls that fail half way |
| named semaphores (`sharedSemaphores.c`) | table of names with reference counts | open, close, wait, post | a close while others wait |
| memory (`memoryManager.c`, `memoryManagerBuddy.c`) | free list / buddy tree with a node pool | alloc, free, status | split and merge at the edges; the pool at its limit |
| keyboard (`keyboardDriver.c`) | held keys, caps lock, prefix flag, the keyboard pipe | IRQ1: keys, Ctrl+C, Ctrl+D | acts in the name of whatever process it interrupted |
| timer and sound (`timer.c`, `soundDriver.c`) | ticks, the current sound | tick, sleep, play | a 32-bit signed clock; every forced scheduler call counts as a tick |
| exceptions and boot (`exceptions.c`, `kernel.c`) | static variables that outlive a restart | fault, countdown, `main` again | pointers into the old heap |
| shell (`shell.c`) | line, descriptors of a pipeline | start, edit, run in fore- or background | spawn, foreground and close are separate calls |
| mvar, test_sync | one shared slot, one shared variable | writers and readers, adders | Ctrl+C inside the critical section |
| terminal and video (`terminal.c`, `videoDriver.c`) | cursor, escape parser, framebuffer | put a byte | deferred wrapping, scrolling, backspace over an edge |
| commands and libc (`commands.c`, `cstandard.c`) | word counters | cat, wc, filter, kill, nice, block, loop | reads that end inside a word; numbers at their widths |
| bootloader and toolchain | - | - | third party or build time, not modelled |

How they interact. Every system call enters through `int 80h`, whose gate (like
the timer's and the keyboard's) turns interrupts off, so that kernel code on behalf
of a process is atomic until it returns or calls `forceSchedulerCall` (`int 20h`).
The exceptions are init, which calls `wait_any` directly with interrupts on, and
idle. Termination wakes waiters through two semaphores per process: `terminated`
(for `wait_pid`) and the parent's `childTerminated` (for `wait_any` and
`reap_zombies`), whose tokens go with the entries of `terminatedChildren`; it also
closes the descriptors, which may wake the readers of a pipe. A key goes from the
interrupt through the keyboard pipe to the shell, from there through the terminal's
pipe to the terminal, and from there to the framebuffer.

What makes the parts correct, in one sentence each: no READY process is forgotten;
each zombie is announced once to the parent it has *now* and is reaped by it; a
semaphore's debt is its queue; a pipe is a FIFO of bytes with an end; a descriptor
never points to freed memory and nothing leaks; memory handed out is nobody else's;
a line is run as written and the prompt comes back; the slot of `mvar` is a one-slot
buffer; the screen shows the line the shell holds; waits last their time; a fault
ends in a prompt. `PROJECT.json` lists the hazards at their lines.

## Modules

Definitions marked *seeded fault* are wrong versions of the definition that
follows; `PROJECT.json` ("mutants") says which property each one breaks.

### Processes: `Queue`, `Kernel`, `MCKernel`

`Queue` is the FIFO of `queue.c` as a sequence. `removeFromQueue` is written in
closed form (the n-th kept position) so that it can be reasoned about; `MCKernel`
checks it against `SelectSeq` on every queue of up to four entries.

`Kernel` has one variable per C variable or PCB field, plus two for control:
`cont[p]`, where process `p` goes on when dispatched (user code, idle, the tail of
`wait_pid`, a point of init's loop), and `kernel`, the kernel loop that is under
way with interrupts off (transferring orphans, `forEachInFG`, `reap_zombies`), or
`Halted`. `Tick` is IRQ0; `SysX` is the handler of system call X with everything it
calls; loops are one action per round (`TransferOrphan`, `ReapOne`, `KillInFG`), and
nothing else is enabled while `kernel # NoLoop`. `FinishTermination` is what
`terminateProcess` does after the orphans. `waitOn` is `semWait` with its context
switch. Init calls `wait_any` with interrupts on, so that the timer may come between any
two of its calls: `InitWaitAny`, `InitPoll`, `InitUnlink`, `InitReap` and `InitClear` are
one call or assignment each, the last two those of `reapProcess`. `semPost(k, s)` describes its loop by where it
ends: it polls waiters until `setReady` accepts one (`stopsAt`) or value and queue
run out (`pollable`), and every poll that is refused adds one to the value
(`drained`).

The environment: `Env` is the set of things user programs do besides creating,
exiting, yielding, waiting and reaping. `"kill"`, `"sem"`, `"nice"`, `"block"` and
`"ctrl_c"` are the ordinary uses; `"self_block"` (block the running process),
`"unblock_waiter"` (unblock a semaphore's waiter), `"kill_zombie"`,
`"reuse_waiter"` (create a process whose PID still stands in the queue its previous
owner died in) and `"ctrl_c_running"` (Ctrl+C with the running process in the
foreground) are each accepted by the code and break some property. Separating them
lets the other runs show that the code is right without them. The first part of
`KernelProofs` holds with all of them, the second without them.

An empty `processTable` slot is state `FREE`, and a freed slot is blank; a NULL slot
that is dispatched, or a refused `sys_exit`, stops the machine (`Halted`).
Allocation never fails here. `wait_pid` is called on own children only, as all of
userland does. What a death does to descriptors is in `Files` and `Pipe`.

### Pipes: `Semaphore`, `Pipe`, `ByteStream`, `MCPipe`

`Semaphore` is `semaphore.c` again, as operators on `[value, blockedQueue]`, for the
modules that do not need the whole process table. `Pipe` is one pipe with its
readers and writers: `pc` is the semaphore a process last waited for and `cpu` the
process that is inside a call with interrupts off. `Read`, `ReadLock`, `ReadSome`,
`ReadNothing` are `readFd` and `pipeReadBlocking` between two waits; `Write`,
`WriteLock`, `WriteByte` are `pipeWrite`; `Close` and `Kill` include
`removePipeWriter` and its `MAX_PROCESSES` posts; `KeyPress` and `CtrlD` are the
keyboard interrupt, which writes in the name of the process it interrupted (idle,
when all others are blocked). `ByteStream` says what `pipe.h` promises: a bounded
FIFO, and end of file only after the last byte and the last writer. The refinement
maps the bytes between the two indices to `content`.

### Descriptors and the shell: `Files`, `Shell`

In `Files` kernel objects are numbered and a number that is in no table is freed
memory. Operators (`openFd`, `closeFd`, `dupFd`, `copyFdTable`, `reopenFd`,
`sysPipe`, ...) act on `[fdTable, file, pipe]` in the order of the code, including
the error paths of every allocation. `Shell` runs the shell on them: each of its
system calls is a step, from `launchTerminal` to `runLine` with one or two stages in
the fore- or background, while commands end and Ctrl+C comes in between. A command ends
(`Ends`) when its reads end and its writes go through. What it writes either fits in
its pipe or is more than `PIPE_BUF_SIZE` bytes; then somebody must read the pipe to
the end, because `pipeWrite` has no error for a pipe that nobody reads: a stage so left
is `Stuck`, and so is the shell itself (at `"full"`) without a terminal.
`terminatedChildren` and `childTerminated` are the shell's own: `Announced` is
`notifyTermination`, which runs again for a stage that is killed after it has ended
(`KillFirst`, `CtrlC`); `Taken` is what `wait_pid`, `Polled` what `reap_zombies` takes
away. A token without an entry stops the model at `"halted"`: the kernel frees idle
(`KernelKillZombie` shows it in `Kernel`). `diedTwice` is a history variable.

### Memory: `FreeList`, `Buddy`, `Memory`, `Allocator`

`FreeList` is the heap as the sequence of its blocks in address order; `Buddy` is
the record of the static variables of `memoryManagerBuddy.c`, recycled nodes and
pool limit included. `Memory` calls either in any order. `Allocator` is what
`memoryManager.h` promises: the bytes asked for, inside the heap, and nobody else's.

### Named semaphores: `SharedSemaphores`, `SyncCommands`, `OneSlot`

`SharedSemaphores` is the table of names over semaphore objects on the heap.
`SyncCommands` runs `mvar` and `test_sync` on it as programs of system calls and
accesses of shared memory, one step each; the next `mvar` closes and reopens the
names its predecessor left behind. `OneSlot` is the one-slot buffer `mvar` promises.

### Console: `Keyboard`, `Video`, `Terminal`, `Console`

From key to pixel: `Keyboard` decodes scancodes as the driver's record `kb`,
`Terminal` is `terminal.c` on the primitives of `Video`, and `Console` composes them
with `readLine` of the shell and a user who presses and releases keys. The tables
hold the keys the runs use; a glyph of the font has 2x2 pixels.

### Lines and commands: `LibC`, `CommandLine`, `Commands`

The conversions of `cstandard.c`, how the shell takes a line apart, what the
commands make of their numbers, and `cat`, `wc` and `filter` reading a text in
pieces of any size. The widths of `pid_t` and of a priority are the constants
`PidWidth` and `PriorityWidth`, small in the run so that short numbers overflow them.
These use RECURSIVE operators and are for TLC only.

### Time and faults: `Timer`, `Restart`

`Timer` is the tick counter and the speaker; `Wrap` stands for 2^32, `Huge` for
2^64, and every comparison is made at the width and sign the C code makes it.
`Restart` adds faults: `handle_exception` counts down in the faulting process with
interrupts on and calls `main`, which makes a new heap and a new scheduler and leaves
every other static variable as it was. A pointer is `null`, `fresh` or `stale` (into
the heap of an earlier boot); `stale` is the set of those that the last step used.
`stack` is one of them: `interrupts.asm` calls `main` without resetting `rsp`, so that
the new boot runs on the stack of the process that faulted, which is free memory of the new
heap, until the first dispatch switches to init's.

## Runs

| run | instance | shows |
|---|---|---|
| `KernelTree` | 5 slots, one user semaphore; kills, Ctrl+C | `FamilyTree`, `TokenPerZombie`, `ZombieAnnounced`, `NeverHalts`, `BlockedIsQueued`, `SemAccounting`, `ReapsOnlyZombies` |
| `KernelSched` | 4 slots, one user semaphore; kills, nice, block, Ctrl+C; `FairSpec` | `TypeOK`, `ReadyQueueExact`, `NoLostReady`, `DeadStaysDead`, `ReadyRuns`, `OrphansReaped` |
| `KernelKillZombie` | 4 slots | **violation** of `ReapsOnlyZombies`: a zombie killed again leaves a token without an entry, and `reap_zombies` frees PID 0 |
| `Pipe` | buffer of 2; two readers and two writers; a pipeline with kills; the keyboard pipe with Ctrl+D | `IsAByteStream`, `NoSleepOnData`, `OneWriteInProgress`, `ReadersEnd`, `WritesEnd` |
| `PipeLostWakeup` | two readers, one writer, kills | **violation** of `NoSleepOnDataEver`: a reader killed between its wake-up and its read takes the only token with it |
| `Files` | init and two processes, 3 descriptors, 5 accesses, 2 pipes; allocations may fail | `NothingDangles`, `CountsExact`, `NothingLeaks` |
| `Shell` | two command slots, 6 descriptors; calls may fail; `FairSpec` | `PromptClean`, `BackgroundHasNoKeyboard`, `DeathsCounted`, `CommandsEnd`, `PromptReturns` |
| `Memory` | heap of 32 units, both managers, pools of 4 and 7 nodes | `NothingLost`, `IsAnAllocator` |
| `SyncCommands` | two runs of `mvar` with 2 writers and 2 readers, or `test_sync` with 2 pairs | `IsAOneSlotBuffer`, `NobodyStranded`, `SumIsZero`, `EveryWorkerServed` |
| `Console` | screen of 3x2 cells, three keyboards, 6 key events, lines of 3 characters | `KeysMeanWhatTheySay`, `ScreenShowsTheLine` |
| `Commands` | every line of up to 7 characters over four alphabets (one each for `kill`, `block` and `nice`, one for blanks, bars and ampersands), PIDs of 4 bits and priorities of 3, texts of up to 3 | `LineIsRunAsWritten`, `ActsOnTheNumberWritten`, `PiecesDoNotMatter` |
| `Restart` | two processes, one name, a clock of 64 ms that overflows; `FairSpec` | `TimesAreKept`, `NothingElseStale`, `FaultEndsInPrompt` |

Why the bounds are enough. Three slots besides idle and init make shell, child and
grandchild: orphans, zombies inherited by init, PID reuse, and two waiters on one
semaphore of which one is killed. Two are enough for the ready queue and for
liveness, where the third multiplies interleavings without a new kind of one.
`MaxValue` and `MaxWaiters` only stop endless posting and waiting; the tokens of deaths
have no bound but the number of processes, unless a process may die twice. A buffer of two
bytes is empty, partly full and full, and wraps; two readers of which one dies, and
two writers of which one blocks part way, are what the token protocol is about;
`MAX_PROCESSES = 3` posts wake more readers than there are. Three descriptors fill a
table with one `sys_pipe`; two pipes and three processes make shared, inherited and
last references. The heap has the orders 3 to 5 with requests on both sides of each
boundary. The console's screen is narrower than prompt and line together, so that
lines wrap and scroll. A clock of 64 ms with a period of 5 overflows in 13 ticks and
its sign changes at all phases of a wait.

`CHECK_DEADLOCK FALSE` is set where the system really may stop: in `Pipe`
where `MaxDebt` cuts idle's spin on a full pipe, in `Shell` at a full pipe that nobody
reads or once idle is freed, in `SyncCommands`, `Console` and
`Commands` when the user has done all that the bounds allow.

Fairness, and why the code justifies it:

* `Kernel`: `SF(Tick)`: the PIC latches IRQ0, so an interrupt that is due is taken
  as soon as interrupts are on again. `WF(KernelStep)`: kernel loops run on.
  `SF(InitStep)`: init gets a tick of CPU each time it is dispatched, which is ample
  for one step of its loop. Nothing is assumed of user programs: they may compute
  for ever. `ReadyRuns` and `OrphansReaped` excuse a program that calls `sys_nice`
  for ever (`NicesForever`).
* `Pipe`: `WF(InCall(p) \/ Read(p))`: a process in a call goes on when it can, which is
  what `ReadyRuns` gives it, and readers read until the end, as `cat`, `wc`, `filter`
  and the shell do. Nothing is assumed of writers in user code.
* `Shell`: `WF` of the shell's steps and of each command's exit once its reads and
  writes can end, which is what `ReadyRuns` gives; a user at a `cat` that reads the
  keyboard types Ctrl+D in the end. It is written with `CanGo`, which says when a step
  of the shell is enabled.
* `SyncCommands`: `WF(Step(p))` of each process; the delays are finite.
* `Restart`: `WF` of the timer, of the steps of boot, and of each process whose wait
  is over; what is written to STDOUT is drained.

## Refinements

| detailed | abstract | property | mapping | shown by |
|---|---|---|---|---|
| `Pipe` | `ByteStream` | `IsAByteStream` | content is the bytes from `readIdx` on, writers is `writerCount` | proof and run |
| `Memory` | `Allocator` | `IsAnAllocator` | the addresses callers hold | run |
| `SyncCommands` | `OneSlot` | `IsAOneSlotBuffer` | the slot is full from a write to its read; a reader's `ch` is what it took | proof and run |

## Proofs

| module | about | theorems |
|---|---|---|
| `QueueTheorems` | `Queue` | `RemoveFromQueueProperties`; lemmas on enqueue, poll and positions |
| `KernelProofs` | `Kernel`, any environment | `TypeCorrectness`, `SemaphoreAccounting`, `ReadyNeverLost`, `AtMostOneRuns`, `TheDeadStayDead` |
| `KernelProofs` | `Kernel`, disciplined environment | `OnlyReadyAreQueued`, `MachineRunsOn`, `ParentsKnowTheirChildren`, `OneTokenPerDeadChild`, `ZombiesAreAnnounced`, `BlockedAreWaiting`, `PostsWakeTheirWaiters`, `OnlyZombiesAreReaped`, `DisciplinedDeadStayDead` |
| `PipeProofs` | `Pipe` implements `ByteStream`; `Semaphore`, and the semaphores of `Pipe` | `PipeIsAByteStream`, `WritesStayTogether`, `ReadersAreWoken` |
| `FilesProofs` | `Files` | `NothingEverDangles`, `CountsAlwaysExact`, `NothingEverLeaks`, `TheDeadHoldNothing` |
| `ShellProofs` | `Shell` on `Files` | `PromptAlwaysClean`, `BackgroundNeverHasKeyboard`, `ShellLeaksNothing`, `DeathsAlwaysCounted` |
| `ConsoleProofs` | `Console` on `Keyboard` | `KeysInvariance`, `KeysAlwaysMeanWhatTheySay` |
| `SyncProofs` | `SyncCommands` implements `OneSlot`; `SharedSemaphores` and `Semaphore` under it | `SyncInvariance`, `SlotIsABuffer`, `NobodyEverStranded`, `SumAlwaysZero` |
| `RestartProofs` | `Timer`, `Restart` | `WaitsLastLongEnough`, `OnlyTheseGoStale` |

### The scheduler and its semaphores, whatever programs do

The first part of `KernelProofs` proves, for every `MAX_PROCESSES >= 3`, every set of semaphores,
every bound and **every** environment, abuses included:

* `TypeCorrectness`: `Spec => []TypeOK`
* `SemaphoreAccounting`: `Spec => []SemAccounting`
* `ReadyNeverLost`: `Spec => []NoLostReady`
* `AtMostOneRuns`: `Spec => []OneRunning`
* `TheDeadStayDead`: `Spec => OnlyTheRunningReturn`

from the assumptions of `Kernel` (`ProcessesAssumption`, `BoundsAssumption`,
`PrioritiesAssumption`; `EnvAssumption` is not needed). The four invariants are
proved together as `CoreInv` (`CoreInvMeans`): the last three are inductive
relative to the types, and the types need one conjunct more than the ranges of the
variables: that `reap_zombies` runs on behalf of a process
(`kernel = Reaping => currentProcess # NoPid`). `CoreInv` is split into `safe`, a
predicate on values of the scheduler state, and the types of the rest, so that
lemmas can say of an operator that it maps safe states to safe states:
`PostIsSafe`, `WaitIsSafe`, `NotifiedIsSafe`, `TryWaitIsSafe`, `ScheduleIsSafe`.
The argument for `semPost` (`SemPostProperties`) is that a debt equal to the
queue makes the loop's two limits coincide: if nobody can be woken the whole queue
is polled and the value is 1, and otherwise `j` polls add `j` to the value.
`SystemCallPreserves`, `KernelStepPreserves`, `InitStepPreserves` and
`NextPreserves` have one step per action.

`OnlyTheRunningReturn` says how far Ctrl+C reaches: a zombie stays a zombie until it is
reaped, unless it is the process on the CPU, which goes on after its own death and
becomes BLOCKED when it waits (`KernelCtrlC`). `dispatch` takes the head of
`readyQueue`, or idle, without looking at its state, so the invariant is
`NoneDeadQueued`: no zombie is in `readyQueue`, and idle is none. It holds because
`notifyTermination` takes *every* entry of the dead process out (`NotifiedNoDead`),
because posts and unblocks queue only the BLOCKED (`PostNoDead`), and because
`schedule` puts the current process back only if it is RUNNING (`ScheduleNoDead`);
`NextNoDead` has one step per group of actions.

`QueueTheorems` proves of `removeFromQueue`, for queues of any length, that it is
a sequence, loses only the entries equal to its argument, keeps the order, and
keeps the absence of repetitions.

### The process family, under programs that keep to the rules

`Disciplined` says that `Env` has none of `unblock_waiter`, `self_block`,
`kill_zombie`, `reuse_waiter` and `ctrl_c_running`; kills, semaphores, `nice`,
`block` of others and Ctrl+C are all allowed. The restriction is needed: each of
these calls is accepted by the code and breaks one of the theorems
(`KernelSelfBlock` breaks `ReadyQueueExact`, `KernelCtrlC` `DeadStaysDead`,
`KernelKillZombie` `ReapsOnlyZombies`, `KernelReuse` `PostWakesItsWaiter`; an early
`sys_unblock` of a semaphore's waiter leaves it READY in the semaphore's queue).
Under `Disciplined`, for every `MAX_PROCESSES >= 3` and every set of semaphores:

* `OnlyReadyAreQueued`: `ReadyQueueExact`; `MachineRunsOn`: `NeverHalts`
* `ParentsKnowTheirChildren`: `FamilyTree`
* `OneTokenPerDeadChild`: `TokenPerZombie`; `ZombiesAreAnnounced`: `ZombieAnnounced`
* `BlockedAreWaiting`: `BlockedIsQueued`, if `sys_block` is not used either
* `PostsWakeTheirWaiters`: `PostWakesItsWaiter`
* `OnlyZombiesAreReaped`: `ReapsOnlyZombies`
* `DisciplinedDeadStayDead`: `DeadStaysDead`, which is `OnlyTheRunningReturn` without its
  exception, since Ctrl+C on the running process is one of the abuses

None of these is inductive, and none can be proved without the others: that
`reap_zombies` finds a zombie rests on the tokens, these on each death being
announced once to the right parent, that on the tree, the tree on the hand-over of
orphans being atomic, and all of it on nobody being dispatched or woken who is not
READY or BLOCKED. `FamilyInv` is `CoreInv` and six parts, each a predicate on the
values it needs:

* `queuesOK`: `readyQueue` holds READY processes, each once; somebody alive in the
  queue of a semaphore is BLOCKED, at one place of one queue; only init is ever in the
  queue of a `childTerminated`.
* `blockedOK`: without `sys_block`, BLOCKED is to be in some queue.
* `rolesOK`: where idle, init and the others can be; the current process is RUNNING,
  or a zombie whose children are being handed over before it leaves the CPU; the
  foreground set holds the living, and a Ctrl+C under way does not meet the process it
  interrupted.
* `treeOK`: parent and children lists say the same, without repetitions; a parent is
  alive, or is the one whose children are being transferred; the zombie init has taken
  off its children is in no list.
* `zombiesOK`: every zombie is in its parent's list, or init has polled it, and the living have a token for
  each entry (init one less between its wait and its poll).
* `waitersOK`: who is in `wait_pid` waits for a child of its own that is dead or will
  wake it; nobody else is in that queue; a live process's `terminated` has no tokens.

The parts see of `state` only who is FREE, dead or alive (`Life`), which `schedule`,
`semWait` and `semPost` do not change (`ScheduleKeeps`, `WaitKeepsQueues`,
`PostKeepsQueues`). The proofs say first what birth, death, transfer,
poll and reaping do to each part on its own, and then put them together, one lemma
per group of actions, in `NextFamily`. `FamilyInv` was checked with TLC on the instances of
`KernelTree` and `KernelSched` before it was proved. The action properties come from
`NextIsMortal`: in a step of `Next` from a state of `FamilyInv` the dead only get
reaped, and only they do.

### Pipes

`PipeIsAByteStream` proves `Spec => IsAByteStream` for every capacity, set of
processes and setup: `InitRefines`, and one step of `ByteStream` or a stutter for
each action, from `StreamInv`: the buffer is well formed (`writeIdx` is `readIdx +
count` modulo the capacity, whatever was written before), and who is inside
`pipeRead` has asked for at least one byte. The arithmetic (`WrapOnce`,
`WriteIndices`, `ReadIndices`) says that an index wraps at most once, that a write
touches no readable byte, and that after `n` reads the readable bytes are the old ones
from the `n`-th on.

`WritesStayTogether` and `ReadersAreWoken` prove `OneWriteInProgress`, under kills too,
and `NoSleepOnData`, which asks that nobody is killed. `WaitInv` says who stands in
which queue (`Waits`), that
`writeMutex` has one holder (`WriteLockInv`), and, if nobody dies, that the readers'
semaphores count their waiters (`Exact`) and that bytes in the buffer have a token that
is free or with a reader on its way (`ReadTokenInv`). With kills the last part is
false, which is the violation `PipeLostWakeup` shows; dead waiters stay in the queues,
and `Waits` accounts for them. Idle, which "blocks" on the keyboard's pipe and goes on
all the same, is the one process `Waits` excepts. The lemmas from
`PolledIsAPrefix` on say what a post and a wait do to a queue some of whose entries are dead.

`PipeAssumption` asks that each setup is one the code can be in: reads ask for some
bytes (`pipeRead` answers 0 at once otherwise) and writes have some (with none
`pipeWrite` only takes and gives back `writeMutex`, and is left out), the foreground
set is among the readers, idle and the driver are not user processes, and
the keyboard's pipe has no writer but its driver (its write end is in no descriptor
table). TLC evaluates it on every setup of the runs.

### Descriptors

`FilesProofs` proves, for every set of processes, every `MAX_FDS >= 3`, every bound on
accesses and pipes and with every allocation free to fail:

* `NothingEverDangles`: `FilesSpec => []NothingDangles`
* `CountsAlwaysExact`: `FilesSpec => []CountsExact`
* `NothingEverLeaks`: `FilesSpec => []NothingLeaks`
* `TheDeadHoldNothing`: `FilesSpec => []ZombieHoldsNothing`

from `FilesAssumption`. None of the first three is inductive: a count that is wrong
frees memory that is in use or keeps memory nobody can reach, so that each needs the
others, and the types. `FilesInv` states them together, with the rule that only live
processes have descriptors (`TablesOK`).

The difficulty is inside the calls. `sys_pipe` makes a pipe nobody has, gives it two
ends no slot holds, and puts these into the table one after the other; `dup2` closes a
slot and fills it again. `Sound(h, L, Q)` says of the objects `h` that everything is
counted exactly and that only the accesses in `L` and the pipes in `Q` may have no
holder (*loose*). Each operator has one lemma that says what it does to `L` and `Q`,
and a predicate for what it does to the tables: `NewPipeSound` makes a pipe loose,
`NewFileSound` an access, `OpenFdSound` takes one out of `L`, `FreeFileSound` and
`FreePipeSound` free what is loose, `CloseFdSound`, `DupFdSound`, `CloseAllSound`,
`CopySound` and `OverriddenSound` start and end with nothing new loose. A call is a
chain of these that begins and ends with `Sound(h, {}, {})`, on every error path
(`SysPipeSound`, `ReopenSound`). Below them `FillSlot` and `EmptySlot` say what the
assignment of a slot does to the number of holders of every access, and `AccessAdded`
and `AccessDropped` what an access does to the counts of its pipe. The loops over the
slots are recursive functions; `Steps` (from the least counterexample) takes the place of
induction over their index. `FilesInv` was checked with TLC on the instance of `Files` first.
`FilesSpec` has no Ctrl+C on the running process: with it `ZombieHoldsNothing` is false
(FilesCtrlC below).

### The shell

`ShellProofs` proves, for every number of commands and descriptors, every line of one
or two stages and with every allocation free to fail:

* `PromptAlwaysClean`: `Spec => []PromptClean`
* `BackgroundNeverHasKeyboard`: `Spec => []BackgroundHasNoKeyboard`
* `ShellLeaksNothing`: `Spec => [](NothingDangles /\ CountsExact /\ NothingLeaks)`
* `DeathsAlwaysCounted`: `Spec => []DeathsCounted`

from `FilesAssumption` and `ShellAssumption` (init, the shell, the terminal and the
commands are different process slots), with commands that end and Ctrl+C between any
two steps. `PromptClean` speaks of one step only; that it holds there rests on what each step
before it leaves open. `ShellInv` says so for every step: besides `FilesInv`,

* `ShellTable`: the shell's standard descriptors are open, and any other that is open
  is in `HeldFds`, the locals whose `close` is still to come at this step; while the
  pipe of a line is open its ends are not those of the keyboard;
* `ForegroundOK`: the foreground set holds only processes this line is still to wait
  for (`Waited`), and none if the line runs in the background;
* `LocalsOK`: which of `pid`, `pipeFds` and `childStdin` are set at which step;
* `WorldOK`: init and the driver have the keyboard's pipe, all that the terminal has
  is of the pipe the shell's STDOUT writes to, and no background command has the keyboard.

Its last part needs to know what `startNewProcessWithFds` takes away from a child
(`OverriddenLoses`): a child has an access of a set in one of its slots only if the
shell had one of the set in this slot and no override went to it. `TakesKeyboard` says
of the two lists of overrides that every slot with the keyboard is met; STDOUT and
STDERR are excepted, as in the property. The end of `PromptClean`, that no pipe but the
keyboard's and the terminal's is left, then comes from `NothingLeaks`: whoever keeps
a pipe alive is alive, and only init, the shell and the terminal are (`PipesAtThePrompt`).
Ctrl+C closes the tables of any number of processes (`CloseOfAllSound`, over an order
of the set that `InOrderIs` shows to exist).

`DeathsCounted` is proved from `DeathsOK`, which holds after a second death too: the
entries of `terminatedChildren` are the zombies, some twice perhaps, and there are at
least as many tokens as entries. The tokens may be too many because `wait_pid` removes
every entry of its process but takes one token; they are never too few, so that
`reap_zombies` empties the queue and the next line starts from equal counts
(`DeathsPolled`). `ShellInv` was checked with TLC on the
instance of `Shell` first.

### The keyboard

`KeysAlwaysMeanWhatTheySay` proves `Spec => []KeysMeanWhatTheySay` for every keyboard of
`ConsoleAssumption` (keys of one code of seven bits, plain or behind the prefix, with
the codes of the driver's table), every set of modifiers and any number of presses and
releases in any order, where the run has six. It is stated for a `PlainKeyboard`: caps lock does not
repeat and no extended key has the code of C or D; ConsoleCaps and ConsoleMute below
show what happens otherwise. The property compares one key with one meaning; what makes
it true is that the driver's memory of all earlier bytes agrees with the keys that are
really held, which at most steps it does not: between a press or release and the last
byte of it the driver is behind. `KeysInv` says how far: `InStep` names the key `k` whose
bytes are still to come and which (`comes`), that the prefix flag is set just between the
prefix and the code (`kb.multiByteFlag = Extended(k)`), and that the driver is right
about every modifier but `k` (`settledBut`). The lemmas `Decodes...` say what the driver
makes of each kind of byte, `TappingStep`, `PressingStep` and `ReleasingStep` that each
byte taken leads to the next stage. An extended key never disturbs a plain one because
its code is shifted out of their range (`OthersStay`). `KeysInv` was checked with TLC on the
instance of `Console` first, and is violated with the keyboard of ConsoleMute.

### mvar and test_sync

`SyncProofs` proves, for every number of writers, readers, runs, adders and iterations:

* `SlotIsABuffer`: `Spec => IsAOneSlotBuffer`
* `NobodyEverStranded`: `Spec => []NobodyStranded`
* `SumAlwaysZero`: `Spec => []SumIsZero`

from `SyncAssumption` and `OneAtATime`, which says when this is true:

* no command is started while another goes on: `SyncBackground` below shows a second
  `mvar` that takes the semaphores of the first away;
* Ctrl+C comes once all workers are in the foreground (`SyncCtrlC` shows one that comes
  earlier), and then between any two steps of the workers, in the critical section too;
* a user types any number of `mvar`, or one `test_sync`;
* the table has room for three names, and the heap for three semaphores of each
  run: with a name missing, each wait on it fails at once and nobody is excluded. A run
  that ends by Ctrl+C closes nothing; the next one closes the names before it opens
  them, and frees the slots while dead workers still stand in the queues.

`SyncInv` is `MvarInv` or `TestInv`, by what the user types.

`MvarInv` says of each step of `mvarCommand` which workers there are (`Roster`), which
names are open and on how many semaphores (`Opened`), and who is queued (`Queued`). A
semaphore `keeps` a set of processes when its queue holds members of it only, each once,
and as many as its value is short. `libre` keeps the blocked writers, `lleno` the blocked
readers, and `excl` nobody, since a worker takes it only in its turn. `Turn` is the core of the
protocol: a token in `libre`, a token in `lleno` and a worker between its first wait and
its last post exclude each other, there is at most one of them, and which one decides whether the slot is
unread. No single semaphore says so; the three are one token that is handed on, by a
post without a waiter to the value, by one with a waiter to the process it wakes. Death
loses the token, and nothing is left to exclude then. `Carries` says which readers hold
a letter between their read and their print.

`TestInv` is about a semaphore that comes and goes: `refCount` is the number of adders
between their open and their close (`TestOpened`), so that the close that frees it is that
of the only one that is inside, and the semaphore the next adder makes starts with nobody
in. `TestBaton` says that one adder at a time is between its wait and its post and that
what it loaded is still the value of `global`, and `TestSum` that `global` is the number of increments stored
less that of decrements. At the last `waitpid` every adder is dead and has stored all of its own.

Below are lemmas on one semaphore (`WaitTakes`, `WaitBlocks`, `PostFrees`, `PostWakes`),
on the table of names (`OpenNew`, `OpenAgain`, `CloseLast`, `CloseOneOfMany`,
`NamesAreUnique`) and on what the step at each index of each program does
(`MvarSteps`, `WriterSteps`, `ReaderSteps`, `AdderSteps`). In the refinement a writer's write
is `Put`, a reader's read is `Take`, its print and Ctrl+C are `Done`, the start of a run is
`Restart`, and all else stutters. Both invariants were checked with TLC on the instance of
`SyncCommands` first.

### Time and restarts

`WaitsLastLongEnough` proves `Spec => []TimesAreKept` if the ticks of forced scheduler
calls count as time (`CountForced`; `RestartYield` below shows what they do to the
timer's time), for every period, width of the clock, length of wait and sound.
`TimeInv` relates the history counters to the clock: while a sound plays
(`SoundOK`) or a process waits (`WaitsOK`), the time read at its start and the ticks
since then add up to the present reading *modulo* the clock's width, which survives
overflow where their difference as integers does not. From there the arithmetic has
to show that the casts do no harm: `ToIntIs` (the cast to `int` is the one signed
number with the right remainder), `TickShift` (counting ticks modulo the width is
enough), `NotYetSlept` and `NotYetPassed` (the unsigned 64-bit comparisons of `sleep`
and `loopCommand` agree with the signed difference, except across the signs that
`AcrossTheSign` names). `RestartAssumption` asks that a wait is shorter than half the
clock and a sound and a tick together shorter than the clock (24 and 49 days), and
that a process whose wait is over may be one tick late (`Slack`).

`OnlyTheseGoStale` proves `Spec => NothingElseStale` from `StaleInv`: the scheduler's
pointers are always of this boot, a stale keyboard end means that init is not done,
a stale stack that the scheduler has not dispatched yet, and a name with a stale
semaphore was open at the last restart. The last part needs that a name without
references has no semaphore, since `leftOpen` is the names that still have references
when `main` is called. What is on the stale stack stays intact in the code: nothing of
the new boot is put there before the first dispatch, because the allocations of
`initializeScheduler` for idle and init, the first of the new heap, land where those
of the earlier boot were, which are never freed. Both invariants were checked with TLC on the instance of
`Restart` first.

### Only model-checked

* Liveness under fairness (`ReadyRuns`, `OrphansReaped`, `ReadersEnd`, `WritesEnd`,
  `CommandsEnd`, `PromptReturns`, `EveryWorkerServed`,
  `FaultEndsInPrompt`): out of the prover's reach.
* What the RECURSIVE operators of `Buddy`, `LibC` and `CommandLine` compute, and with
  them all properties of `Memory` and `Commands`: the SMT backend is not available in
  modules that reach such an operator.
* `ScreenShowsTheLine` of `Console`, which is about a fold over what is written.

## Observed deviations

Calls the code accepts, or orders it allows, that break a property the runs above
show to hold otherwise. The first table has a configuration for each, beside the
runs' own; `tlc -config X.cfg M` with the module given prints the trace.

| configuration (module) | property | what happens |
|---|---|---|
| `KernelIdle` (`MCKernel`) | `IdleRunsAlone` | idle takes turns in the round robin instead of running only when nobody is ready |
| `KernelSelfBlock` (`MCKernel`) | `ReadyQueueExact` | block, unblock and wait of the running process leave a BLOCKED PID in `readyQueue` |
| `KernelCtrlC` (`MCKernel`) | `DeadStaysDead` | the running process, made ZOMBIE by Ctrl+C, goes on, waits on a semaphore and becomes BLOCKED |
| `KernelReuse` (`MCKernel`) | `PostWakesItsWaiter` | a killed waiter's PID is reused and the post wakes the wrong process |
| `KernelNice` (`MCKernel`) | `EveryReadyRuns` | `sys_nice` refills the caller's quantums, so that it is never preempted |
| `PipeIdle` (`MCPipe`) | `NoBusyWait` | a key on a full pipe with everyone blocked: idle is "blocked" and goes on, trying again and again |
| `SyncCtrlC` (`MCSync`) | `IsAOneSlotBuffer` | Ctrl+C between the creation of a worker and its entry in the foreground set leaves it alive in the next run |

Those of the second table are a run's configuration with the change given.

| deviation | run | change | property | what happens |
|---|---|---|---|---|
| KernelForeground | `KernelSched` | - | `ForegroundIsKept` | between `processTable[pid] = 0` and `foregroundSet[pid] = 0` (`scheduler.c:203-204`) a tick lets another process take init's freed slot and put the new process in the foreground; init then takes it out, and Ctrl+C no longer reaches it |
| PipeTokens | `Pipe` | `Setups <- Simple` | `DataAvailableCountsBytes` | `dataAvailable` is not the number of readable bytes, as `pipe.h` says |
| PipeCtrlD | `Pipe` | `Setups <- CtrlDs` | `CtrlDEndsReads` | a reader outside the foreground set takes the NUL of Ctrl+D and the marked reader sleeps on |
| FilesCtrlC | `Files` | `SPECIFICATION CtrlCSpec`, no symmetry | `ZombieHoldsNothing` | the running process opens descriptors after Ctrl+C has closed its own; nobody closes them |
| SyncBackground | `SyncCommands` | `Sessions <- TwoMvars`, `MayBackground = TRUE` | `NobodyStranded` | a second `mvar` beside the first closes the semaphores the first one waits on |
| MemoryLarge | `Memory` | `Requests = {8, 33}`, `Managers = {"buddy"}` | `IsAnAllocator` | the buddy manager grants the whole heap to a request larger than it |
| ConsoleTab | `Console` | `KeySets <- WithTab` | `ScreenShowsTheLine` | a backspace after a tab takes back one of its columns |
| ConsoleMute | `Console` | `KeySets <- WithMute` | `KeysMeanWhatTheySay` | an extended key with the code of C or D, pressed with Ctrl, is taken for Ctrl+C or Ctrl+D |
| ConsoleCaps | `Console` | `KeySets <- WithCaps`, `Repeats <- CapsLock` | `KeysMeanWhatTheySay` | caps lock changes with every repetition of the key held down |
| CommandsWidth | `Commands` | - | `NeverAnotherProcess` | a PID beyond the width of `pid_t` (16 bits) on the line names another process |
| ShellIdleKept | `Shell` | - | `IdleIsKept` | `help` piped into an unknown command (or Ctrl+C between a stage's end and its `sys_foreground`): the dead stage is announced again, and the prompt takes the extra token for PID 0 and frees idle |
| ShellEveryLine | `Shell` | - | `EveryLineEnds` | a first stage that writes more than 1024 bytes into a second one that ends without reading (`help`, then `echo x`) is left writing to the full pipe, and the shell waits for it |
| RestartYield | `Restart` | `Programs <- Yielding`, `CountForced = FALSE` | `TimesAreKept` | forced scheduler calls tick the clock, so that `sleep` returns early by the timer's time |
| RestartWrap | `Restart` | - | `TimesAreAlwaysKept` | `sleep` and `loop` break when the clock reaches 2^31 ms |
| RestartStale | `Restart` | - | `NothingStale` | a key before init has run, a name left open at the fault, or `main` on the stack it was called on, uses memory of the old heap |

Seen while reading, without a configuration: `README.md:204-206` says that `mvar`
ends at once and leaves its children, while `mvar.c:129` yields in a loop until
Ctrl+C; `README.md:82` says that `music` plays a song, but `init_music` is never
called and the songs are empty; the countdown after a fault runs in the faulting
process and Ctrl+C can cancel it.

## Not modelled

* The spinlock's acquire and release as separate steps. Init takes it with
  interrupts on; a tick inside the section would give the CPU to a process whose
  exit spins on that lock with interrupts off. `Kernel` takes each use of the lock as
  one step, so this is an assumption of every run of it.
* A tick inside a call that init makes in `wait_any` with interrupts on: `pollQueue` and
  `removeFromQueue` on its lists, to which a dying process may append meanwhile;
  `freeProcess`, whose `mem_free`s may be interrupted by another process's allocation;
  and between `freeProcess` and the clearing of the `processTable` entry, which points
  to freed memory for that moment. `Kernel` has a step for each call, so what a tick does
  between them is checked and what it does inside them is not.
* The linked nodes of `queue.c` and their failed allocation; stacks, argument
  copies, `ps`.
* FILE_NONBLOCK and `setFileFlags` and its kin, which no caller uses.
* A free of an address that was not allocated, sizes near 2^64, names longer than a
  slot of the semaphore table.
* The auxiliary framebuffer, circles, alpha, a pitch other than three bytes per
  pixel; the tone of a sound; the tables of `music.c`; the drawing and the pure
  output commands; `scanf`, random numbers and memory copies of libc.
* The RTC reads of `dateTime.c`, the register dump, the module loader.
* Several writers of the terminal at once: its parser keeps one escape sequence for
  all of them.
* Bootloader and toolchain: third-party or build-time code.
