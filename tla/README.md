# A verification project for the kernel

The repository is a small multiprocessor x86 kernel in C++ (`src/kernel`) with user programs
(`src/t0.dir/sbin`): preemptive threads on several cores, locks and semaphores built on them,
virtual memory with demand paging, processes with Unix-like system calls, a read-only ext2 file
system, a keyboard and a shell. This directory holds TLA+ models of its parts, TLC runs over
small instances, and TLAPS proofs for instances of any size. `PROJECT.json` maps every
definition to the lines it models.

## 1. Inventory

| component | state | operations | how it interacts |
|---|---|---|---|
| `InterruptSafeLock`, `SpinLock`, `ISL` (`atomic.h`) | `taken`, the saved interrupt flag `was`, IF of each CPU | `lock`, `unlock` | under the ready queue, the frame allocator, the console and conditions; taken by threads and by interrupt handlers |
| Scheduler (`threads.h`, `threads.cc`, `context.s`, `queue.h`, `pit.cc`) | `readyQ`, `zombies`, `activeThreads`, `idleThreads`, per TCB `no_preempt` and saved context | `block`, `schedule`, `yield`, `stop`, `thread`, `delete_zombies`, timer interrupt | every blocking primitive calls `block`; the switch handler runs on the next thread's stack |
| `Semaphore`, `BlockingLock` | `count`, `waiting`, an `ISL` | `down`, `up` | hands its lock to the switch handler; `schedule`s the thread it wakes |
| `Condition`, `ReusableBarrier`, `Barrier` | epoch, queue, count | `wait`, `notify`, `sync` | release and retake a shared lock around `block` |
| `BoundedBuffer`, `stream` | ring, three semaphores | `put`, `get` | producer and consumer threads |
| `Future` | `isReady`, `t`, `go` | `set`, `get` | `exit` sets what `wait` gets |
| `Shared<T>` | `ref_count` in the object | copy, move, assign, destroy | all tables of a process |
| Physical and virtual memory (`physmem.cc`, `vmm.cc`, `machine.S`) | free list, `avail`, page directories and tables, CR2, CR3, TLBs | `alloc_frame`, `dealloc_frame`, `map`, `unmap`, `make_pd`, `delete_pd`, page fault | `fork`, `execl`, `exit`, the context switch |
| Processes (`sys.cc`, `process.h`) | PCB: `fd[10]`, `cp[10]`, `sp[10]`, `future` | `fork`, `execl`, `exit`, `wait`, `sem`, `up`, `down`, `close` | share semaphores and descriptors through `fork` |
| File descriptors (`sys.cc`, `process.h`) | node, `offset`, `valid` | `open`, `close`, `read`, `seek`, `len`, `write` | call `BlockIO`, which sleeps in the IDE driver |
| `BlockIO`, ext2 nodes, directories | sizes, block references, directory entries | `read`, `read_all`, `read_block`, `find`, `entries` | read blocks of the disk |
| Working directory | `fs->current`, `fs->cwd`, one for all processes | `changeDir`, `pwd`, `ls` | used by `open` and `execl` |
| Keyboard, command line | `buf`, `bufSize`, `done` | key interrupt, `getCommand`, `done`, `setDone` | interrupt handler writes, the shell's system calls read |
| Shell and programs (`sbin/shell.c`, `shellHandler.c`, `ls.c`, `exec.c`, ...) | processes, the address of the line | poll, `fork`, dispatch, `execl`, `wait`, the built-in demo | read `buf` in place through `getCommand` |
| Heaps (`heap.cc`, `sbin/heap.c`) | boundary tags, free list | `malloc`, `free`, `realloc` | everything that says `new`; user programs |
| Boot, configuration (`init.cc`, `smp.cc`, `config.cc`) | `smpInitDone`, `SMP::running`, `howManyAreHere`, the PIC's mask | `kernelInit` on every processor, the walk over the MADT | before the scheduler runs; the last processor makes the thread for `kernelMain` |
| IDE, ELF, formatting | device | polling reads, load, print | below the file system and everything |

**What is hard.** Code of two cores interleaves at every instruction that is not under a lock;
the timer preempts between any two; a handler runs on top of the thread that holds a lock; a
thread that gives up its core is still on its stack while it publishes itself; page faults,
forks and execls race for frames and leave translations behind; `Future`, descriptors and the
working directory are shared without a lock; the keyboard handler and the shell share a buffer
byte by byte; processors come up while others already run; a heap trusts tags that lie between
the clients' data; tables, offsets and identifiers meet their limits. Each of these is a line of
`hazards` in `PROJECT.json`, with the property that would catch it or the reason why there is
none.

**What makes each component correct.** A lock excludes, and restores what it changed. A TCB is
always in exactly one place, and nobody runs or deletes it while a core uses its stack. A permit
is never stored beside a sleeper, and a semaphore behaves as if `down` and `up` were atomic. A
frame has one use, memory is private and starts zeroed. A reference count is the number of
references. `wait` returns, with the exit code of the child it names. A read returns bytes of the
file, and no more than asked for. A file read is the file's bytes, block boundaries or not. A path
leads where its entries lead, and `pwd` names the directory that `ls` lists. A line is executed as
typed, by one process, and answered. A heap gives each client memory of its own and finds what
is free. Nobody passes a barrier early and everybody passes it; a buffer is a FIFO queue. The
kernel starts once, on all processors.

## 2. Modules

| module | models | state and actions |
|---|---|---|
| `InterruptSafeLock` | `lock()`, `unlock()`, `Interrupts`, MONITOR/MWAIT | one label per observable instruction; each CPU has a thread level and a handler level, and `Interrupt` pushes a handler when IF is set |
| `Scheduler` | `block()`, context switch, `yield`, `stop`, `thread`, reaper, timer | the steps of `block()` from the disabling of preemption to the handler on the new stack; `loaded[c]` is the stack core `c` is on, `activeThreads[c]` what the kernel believes; idle TCBs are the cores themselves. Queue operations are atomic (`InterruptSafeLock`) |
| `AtomicSemaphore` | what `Semaphore` promises | abstract: `Down`, `Up` and `Return` in one step each, FIFO |
| `Semaphore` | `down()`, `up()` and their `ISL` | one action per step, among them the switch handler that queues the caller and releases its lock, and the `schedule` after the unlock |
| `VirtualMemory` | `physmem.cc`, `vmm.cc`, the loops of `fork` and `execl`, `exit` | frames with contents, page tables whose `Entries` are the pages and those of the two APICs (`Device(i)`: no frame), TLB and CR2 of each core; `ContextSwitch` may happen between any two steps; `mem` is a history of what each process stored |
| `Process` | the calls on children and semaphores, `Future`, reference counts | tables `cp` and `sp`; a call is cut where it sleeps and between the steps of `Future::set()` and `Future::get()`; `leaked` counts the references on stacks that are never unwound |
| `Files` | `open`, `close`, `read`, `seek`, sharing by `fork` | `read` in five steps, one for each load or store of the offset: the test of the clamp, its difference, `read_all`, and the two halves of `+=`; arithmetic modulo `Word`; `moved` remembers a store of another process between the test and the call |
| `BlockIO` | `BlockIO::read`, `read_all`, `Node::read_block` | one step per turn of the loop; byte `k` of the file is the number `k`, so that a buffer shows where its bytes come from |
| `Filesystem` | mounting, `get_node`, `Node::find`, `Ext2::find`, `changeDir` | strings are sequences of tokens, a directory is the sequence of its entries, deleted ones too; one action per branch of `changeDir`; `plain` remembers whether `cd` was only used in the ways that work |
| `Heap` | `malloc`, `free`, `realloc` of both heaps | the array of ints with tags, links and client data; one action per call (the kernel's run under a lock, a user program has one thread); `live` is a history of what the clients stored |
| `Channel` | what `BoundedBuffer` promises | abstract: `Call`, `Put` and `Get`, FIFO |
| `BoundedBuffer` | `put`, `get`, `stream` | one step per `down`, `up` and assignment |
| `Barrier` | `Barrier::sync` | the atomic decrement, `down`, `up` |
| `ReusableBarrier` | `ReusableBarrier::sync`, `Condition::wait`, `notifyAll` | one step per acquisition of the lock and per decision; the handler of `block()` is a step of its own that takes the lock again |
| `Boot` | `kernelInit`, `pickKernelStack`, `configInit`, `SMP::init`, `KeyBoard::init` | a program counter for each processor; the MADT is a constant |
| `Console` | `keyBoardHandler`, `done`, `getCommand`, `setDone`, the shell and its children | one step per access to `buf`, `bufSize` and `done`; a key is a word of the line; processes with program counters, which `exec` can turn into any program of `/sbin`; `execl` measures an argument in one step and copies it in the next; `typed`, `line`, `touched` and `ahead` are a history of the user |
| `...Proofs` | | the theorems about the module they extend (section 5) |
| `MCRendezvous`, `MCStorage` | | several components that share no state in one run (below) |
| other `MC...` | | instances for TLC, and symmetry sets |

`MCRendezvous` instantiates `BoundedBuffer`, `Barrier`, `ReusableBarrier` and `Boot`, `MCStorage`
instantiates `Files`, `Filesystem`, `BlockIO` and `Heap`. A variable `which` fixes at the start
whose behaviour a behaviour is; the variables of the others keep their initial values. The states
of the run are the disjoint union of the states of its components, not their product, and each
property says of each behaviour what the component's own property says. The `...Assumption` of
such a component is assumed by the MC module.

`Semaphore` uses `AtomicSemaphore` as its refinement target, and `Process`, `BoundedBuffer` and
`Barrier` in turn treat `down` and `up` as atomic; `BoundedBuffer` is shown to implement `Channel`; `Scheduler`, `Semaphore` and `VirtualMemory` treat a critical section of an
`InterruptSafeLock` as atomic.

Operators whose comment starts with "Faulty:" are not part of the model: each is a variant of the
definition after it with a plausible mistake in the code (a dropped guard, a swapped order).
Replacing the definition by the variant must make TLC report the property named in
`PROJECT.json` under `mutants`; that shows the property depends on the code.

A kernel panic is a value of `failure`, or a place where a thread or process can be (`Barrier`,
`Console`), after which nothing happens.

## 3. Runs

Passing runs:

| run | instance | question |
|---|---|---|
| `lock` | 2 CPUs, each with a thread and a handler, fairness | exclusion, no handler on a holder, no sleep on a free lock, each caller's own flag restored; somebody gets the lock while somebody tries |
| `scheduler_safety` | 2 cores, 4 threads (reaper, main, two more) | every TCB in one place, preemption only where safe, `current()` right, idle threads at home |
| `scheduler_liveness` | 2 cores, 3 threads, fairness of cores and timers | ready threads run, stopped ones are deleted, although no thread cooperates |
| `semaphore` | 3 threads, initial count 1, at most 2 permits | no stranded permit, only switched-out threads scheduled, flag restored, implements `AtomicSemaphore` |
| `memory_cores` | 2 cores, 2 processes, 1 page, 8 frames | frames have one use, TLBs are coherent |
| `memory_pages` | 1 core, 2 processes and the fork of a third, 2 pages beside those of the APICs, 8 frames (see the bounds) | the loops of `fork` and `execl`, memory private and zeroed, APICs never copied, freed or unmapped, faults served for their own address |
| `process_safety` | 3 processes, 1 semaphore, tables of 2 | exact reference counts, live semaphores, one parent, right exit code |
| `process_wait` | 3 processes, tables of 1, fairness | `wait` returns |
| `rendezvous` | a ring of 2 with 2 + 2 threads and 4 puts; 3 threads and one too many at a barrier; 3 threads in 3 rounds; 3 processors and 6 tables; fairness | the buffer implements `Channel` and delivers everything; nobody passes a barrier early, all pass, no signal is missed; processors boot apart, `kernelMain` starts last, once, and does start |
| `storage` | 2 processes, 3-byte file, word 8; 4 trees, 16 paths, 6 i-nodes in 2 groups; blocks of 3 bytes, all sizes to 14, all arguments to 16; heaps of 22 ints with up to 4 blocks | reference counts and bounds of reads; `find` and `pwd`; `read_all` is exact; both heaps are consistent and keep their clients' data |
| `console` | 4 keys out of 7 words and the newline, a demo of 2 lines, 7 processes, fairness | one reader, the line as typed, every line answered |

Several properties are conjunctions of named parts, defined beside them: `OneHome`, `BootedApart`,
`OneReader`, `PwdNamesCurrent`, `HeapConsistent` and `RefsExact` of `Process` include the type
invariant of their module.

* `CurrentIsLoaded` includes `IdleStays`: the four assertions of the idle loop hold.
* `RefsExact` of `Process` includes `SemaphoreAlive`, `WaitSeesExitCode` includes `OneParent`.
* `ReadBounded` is `ReadInFile` and `ReadFits`. The first holds however calls interleave, the
  second unless another process stores to the offset between the test of the clamp and the call of
  `read_all` (`moved`, see below): sharing the descriptor alone does not break it.
* `MemoryIsOwn` and `FrameExclusive` also say what the tests for the APICs in the loops of `fork` and
  `execl` are for: a live process has both mapped, and the free list has only frames on it.
* `ReadyRuns` and `Reclaimed` are about everything but `CoresTaken`: from some time on every core runs
  a thread on which `block()` left `no_preempt` set (see `scheduler_preemptible`).
* `ReadAllExact` includes `BufferBounded` and `PanicsOnlyBeyond`.
* `FindFollowsEntries` compares the walk of `find` with a definition by entries (`LeadsTo`), for
  every tree without a deleted entry behind a live one of the same name (`NoGhosts`).
* `HeapConsistent` is `BlocksTile`, `FreeListExact` and `FailsOnlyWhenFull`; `DataIntact` also sees
  clients that store what looks like a tag.
* `NothingLost` is `NoMissedSignal` and `SlotsAccounted`; `NobodyEarly` and `AllPass` of the run are about
  `Barrier` and, as `NobodyAhead` and `AllRounds`, about `ReusableBarrier`.
* `MainLast` includes `CountedOnce`.
* `LineAsTyped` is about lines of which no key was typed while the last one was answered. `touched`
  remembers a key that came while `done` was set; `ahead` keeps it until a whole line has been cleared
  undisturbed. So it also says that the buffer recovers from keys typed ahead, and from those that
  raced with `setDone()`.
* `LineAnswered` names two ways out: a panic, and a shell that `exec` or `init` has started, which
  takes the line that started it for its own, again and again (`cmd = "shell"`).

One run is to be refuted, for a sentence in the repository that the code does not keep
(`findings` has the quotation):

| run | what the counterexample shows |
|---|---|
| `scheduler_preemptible` | a `yield` (or a preemption) that finds nothing ready leaves `no_preempt` set: that thread is not preempted again until it really blocks, or a later `yield` finds a ready thread |

Other disagreements between the code and what its documents or its users would expect. Most are
visible in one or two calls; the models have these branches, as steps that set `failure` or as
the preconditions of the properties (`plain`, `NoGhosts`, `ahead`, `moved`):

* `up` and `down` of an identifier whose slot is empty panic (`sys.cc:210`, `sys.cc:218`), and so
  do `read` of a closed console (`sys.cc:240`) and `seek` of a closed file (`sys.cc:325`); `sys.h`
  says that all calls return a negative value on failure.
* `execl` of a missing file panics (`sys.cc:179`); `sys.h`: "returning indicates an error".
* `close(30)` and `wait(30)` go past the table of children into the semaphores (`sys.cc:51`,
  `sys.cc:189`).
* `read` takes no lock and checks no offset before `read_all` (`sys.cc:258`); `block_io.h` makes
  its caller responsible for both.
* `len` of a console is 0 (`sys.cc:285`); `sys.h` says negative. (`len` changes no state and is not
  in the model.)
* With a descriptor shared by `fork`, a seek or the end of another `read` between the test of the clamp
  and the read makes `read` store more than `nbyte` bytes (`sys.cc:255-258`); `sys.h:40`: "reads up to
  nbytes". `ReadFits` without its precondition is violated. `marker->offset += ret` loads and stores,
  and may lose the move of the other process.
* `open` looks up every path from the current directory, also one with a slash in front
  (`sys.cc:300`).
* `cd` below the first level looks the whole new `cwd` up from the current directory and writes no
  separator: `current` becomes null, after which `ls` faults; so does any `cd` to a name that does
  not exist. `cd ..` leaves a slash at the end of `cwd`, and `cd /x` is `cd /` (`sys.cc:355-413`).
* `find` takes the last entry of a name: a deleted one behind a live one hides it; a path through
  a file panics (`ext2.cc:205-215`).
* A command that does not exist, an empty line, and the demo leave the child as a new shell, below
  a parent that waits for ever (`shell.c:173`); `exec` of a program that does not exist panics.
* `exec shell`, and `init`, start a shell while `done` is still set: it takes the same line again and
  starts the next shell, until the memory is used up (`shell.c:192-196`).
* Programs make the kernel follow null or wild pointers: after a `cd` to nowhere `ls` (`sys.cc:331`) and
  the `open` of `cat`, `grep` and `wc` (`sys.cc:300`); for a file that does not exist these ask for the
  length of descriptor -1, and `init` for that of 100 (`sys.cc:280`). `ProgFaults` has the fault as a
  choice of any program, since which names exist is not in `Console`.
* Keys typed before the last line is answered are lost, or end up in it (`sys.cc:555-561`); the
  50 bytes of `buf` are not bounded (`keyboard.cc:126`).
* `malloc` of nearly 2^32 bytes wraps to a small block; `realloc` frees the old block when there is
  no new one; a second `free` of a block that was merged to the left is not noticed.
* The walk over the MADT never sees the first entry and looks at what follows the last
  (`config.cc:149-156`), passes over the processor with ACPI id 0, while the IPIs go to the APIC ids from 1
  up, whatever the table says; a processor that is counted and does not answer is waited for without
  end (`init.cc:137`).

**Bounds and why they are enough.** Two CPUs or cores show every pairwise interleaving, and the
handler level adds a third and a fourth context to the lock. In the scheduler four threads let
one core stop a thread while the other creates, wakes or reaps another; both idle threads run
when all wait. Three threads on a semaphore allow a queue of two with an `up` in progress.
Eight frames let a frame be freed and reused by another process, and also run out. A `fork` of two
mapped pages needs all eight (a directory, a table and two pages for each process); the constraint
`SixOrNoneFreed` of `memory_pages` follows every behaviour as long as six frames are enough for it, and
beyond that the states without a freed frame, to keep the run short. Of a third
process only the `fork` is in that run (`TwoBorn`): when the other two have all frames, it panics.
Tables of two slots can be empty, half full and full; of one slot, full at once, so that `fork`
and `sem` fail. The word of 8 with a file of 3 bytes lets `offset + nbyte` and `size - offset`
wrap. Blocks of 3 bytes with 2 + 2 references cover partial first and last blocks, the step
from direct to indirect, and the end of the indirect block. A ring of two with two threads on
each side is empty, full and contended; three rounds let a fast thread enter a round while a slow
one leaves the last. Three processors let two late ones mask the interrupt controller after one
has opened it; the tables have the first processor's entry first, later and missing, and too many
and too few processors. The trees have a directory below a directory, a file where a directory is
looked for, i-nodes on both sides of a group's end, and deleted entries alone, before and behind a
live one. 18 ints of heap hold up to four blocks, so that a block can have available neighbours
on neither, either and both sides, be split, not be split for want of 4 ints, and not be found.
Four keys are two lines of a word each, or one line with up to three words (`exec` of `exec` of a
program); seven processes are enough for all children of four keys, and for the shells that `exec`
starts one on the other. In the liveness run of the scheduler two cores and three threads let one core
stay with a thread for ever while the others need the second. TCBs, PCBs, semaphores and
descriptors are used once in `VirtualMemory`, `Process` and `Files`; the number of each bounds
how many are ever made. Other bounds: `MaxCount` (permits), `MaxExecl` (calls of `execl`,
because each leaks a reference), `MaxValue` (contents of a page), `MaxPuts`, `Rounds`, `MaxKeys`,
`MaxProcs`, `MaxCwd` (tokens of `cwd`, below its 100 bytes), `MaxLive` (blocks). Symmetry is used only in runs
without temporal properties, over elements that no other constant names.

`CHECK_DEADLOCK FALSE` stands where the system may stop: a panic, all processes gone, every
thread asleep with nobody to wake it, a finished `read_all`, a system that has booted, a user who
types no more. The run `lock` checks deadlock.

**Fairness.**

* `InterruptSafeLock`: a CPU goes on executing (weak fairness of a handler, strong of a thread,
  which handlers interrupt again and again), handlers return, and the periodic timer set up by
  `Pit::init` keeps interrupting. Nothing is assumed about who calls `lock()`.
* `Scheduler`: cores execute (weak fairness of the steps of `block()` and of the idle loop); the timer
  of each core is periodic (`Pit::init`, `apitHandler`), so that a thread that stays preemptible is
  preempted; and a time slice is longer than a step, so that the code of a thread which gets a core
  again and again goes on (strong fairness of the steps inside the reaper's loop and `thread()`).
  Nothing is assumed of the threads: they need not stop, wait, yield or wake anybody, as the main
  thread does not while the shell polls (`shell.c:192-194`). Only the heap lock, for which a thread may
  sleep inside `new` and `delete`, comes round (`HeapLockPasses`): it is held inside `malloc()` and
  `free()` only. Because of `scheduler_preemptible` that is not enough when every core ends up with a
  thread the timer passes over; `CoresTaken` is that case, and both properties hold in all others.
  `Reclaimed` is stated up to a kernel in which all other threads wait.
* `Semaphore`: a thread inside `down()` or `up()` goes on, except that nothing is assumed of a
  thread that spins for the lock.
* `Process`: a thread inside `exit` or `wait` that is not asleep goes on.
* `BoundedBuffer`, `Barrier`, `ReusableBarrier`: a thread inside a call goes on when it is not
  asleep (`ReadyRuns`, and so for `Process` and `Semaphore`: what `ReadyRuns` leaves out, that every
  core stays with a stuck thread, is left out here too); nobody has to call `put` or `Barrier::sync`. In `ReusableBarrier` each
  thread does call `sync()` until its rounds are over, and a thread that spins for a lock which is
  free again and again gets it: weak fairness is enough, since all others end up waiting for it.
* `Boot`: a processor that was started runs; one that does not exist never does.
* `Console`: the handler, which runs with interrupts off, ends; each process that can make a step
  does (`ReadyRuns`). At most one of the processes is not waiting for its child (`OneActive`), so
  none takes the cores from another. The user may stop typing at any time.

## 4. What the models abstract

Contents of files, pages and messages are small numbers; text, formatting and logging are left
out. Page faults below 0x80000000 and faults by kernel code panic and are not modelled. The
system calls check that buffers lie in user memory; those checks are left out of `Files`. The
path lookup of `open` and `execl` is a nondeterministic "found" or "not found" there, and computed
in `Filesystem`, which takes the bytes behind `cwd[0]` to be zero at mount. Outside `Heap`, `malloc` does not fail. `MONITOR` lines of different objects are
not told apart in `Scheduler`: the idle loop can sleep through an `add`, because the lock of the
queue arms the monitor again, but only until the next timer interrupt. In `Console` a key is a
word and programs that only print are one program, which may also fault; in `Filesystem` names next to each other
without a slash are a name that does not exist. In `Heap` the data are ints, and the dead ints of
available blocks, which nobody reads, are 0.

Losses of memory that no document rules out are part of the models but not findings:
`delete_pd` does not free the frames that page tables map; the `Shared<PCB>` on the stack of
`exit` and of a successful `execl` is never dropped, so PCBs, and what they refer to, stay; a
`fork` that finds a full table loses the thread it made; a failed read moves the offset back by
one.

## 5. Proofs

Each theorem is about the specification that the runs check, for every value of its constants
that satisfies the `...Assumption` of the module; the assumptions are evaluated by TLC on the
instances. None of the properties below is inductive alone. Each component has one inductive
invariant, which was first checked as an invariant of the component's run, and one lemma per action
that keeps it; the properties follow from it. (`MemoryInv` of the heaps says that there are blocks
and ranks; TLC checked it with the blocks that `Headers` finds and the places in `FreeList` as
ranks.)

`InterruptSafeLockProofs`, for any set of CPUs, with no assumption on constants:

* `Invariant`: `Spec => []IInv`. `IInv` adds to the properties:
  handlers run masked (`HandlersMasked`), an owner sees `taken` (`OwnedIsTaken`), the local and
  then the shared copy of the flag is the caller's (`FlagSaved`), the flag is the caller's
  between two attempts (`FlagBetween`), and an armed monitor of a caller with interrupts off
  means a taken lock (`ArmedIsTaken`). Exclusion needs `OwnedIsTaken`; that the flag is one's own
  needs exclusion, because only the owner may write `was`; all need that a masked thread is not
  overlaid.
* `TypeCorrect`, `LockIsExclusive`, `HolderIsUninterrupted`, `WakeupIsNotLost` and
  `FlagIsRestored` (an action property) follow.

`SemaphoreProofs`, for any set of threads and any initial count, from `SemaphoreAssumption`:

* `Invariant`: `IInv` says that the lock has one owner, also while it travels to the switch
  handler (`OneOwner`); that queued threads are asleep and queued once (`QueueAsleep`); that a
  thread removed by an `up` is asleep, in no queue and in no other `up` (`NextAsleep`); that the
  saved flag is the caller's (`FlagSaved`); and `NoStrandedWaiter`.
* `TypeCorrect`, `WaiterIsNotStranded`, `SchedulesSwitchedOut`, `FlagIsRestored` follow.
* `Refinement`: `Spec => Abstract!Spec`. Initial states map to initial states; the test in
  `down()` and the queueing in the switch handler map to `Down`, the removal in `up()` maps to
  `Up`, the end of `down()` maps to `Return`, and every other step is a stutter.

`SchedulerProofs`, for any sets of cores and threads, finite or not:

* `SchedulerInvariant`: `SchedulerInv` says how far the `block()` of each core has come
  (`CoresOk`: what `activeThreads` names at each label, that preemption is off inside, that the
  next thread is a TCB), that an idle TCB stays with its core (`IdlesOk`), that no place holds a
  TCB twice (`Single`), and that a TCB which does not run is parked in exactly one kind of place:
  on its way through the switch handler, chosen by a core, ready, a zombie, waiting, or being
  deleted (`PlacesOk`). A core may reuse a stack only because whoever is on it is not parked;
  that needs `CoresOk` and `PlacesOk` together.
* `EveryTCBHasOneHome`, `TimerIsSafe` and `CurrentIsTrue` follow.

`ProcessProofs`, for any sets of processes and semaphores and tables of any size:

* `ProcessInvariant`: the counts are exact and what they count is finite (`PcbsCounted`,
  `SemsCounted`), a child is in one slot (`OneSlot`), nobody refers to what is not made yet
  (`UnbornOk`, `MadeOk`), sleepers are in the queue of the semaphore in their slot, once
  (`SleepersOk`), and a process past the test in `Future::get()` has a child whose exit code is
  stored (`FuturesOk`). The cardinality lemmas (`RefsRow`, `RefsSlot`) say what the change of one
  row, or one slot, does to a count.
* `CountsAreExact` and `WaitGetsTheCode` follow.

`VirtualMemoryProofs`, for any processes, cores, pages, regions and frames (at least two frames,
since the first process starts with a directory and a page table):

* `MemoryInvariant`: `MemoryInv` treats directories, page tables, page table entries and the
  frame in a caller's hands as places; a place holds a frame that was given out and is not on the
  free list (`PlacesUsed`), and no two places hold the same one (`PlacesApart`). It adds that a
  core caches only entries of the process it runs, with the exception of the one page that
  `execl` has unmapped and not yet invalidated (`CoreOk`); where the address of a pending fault is,
  in CR2 or saved (`FaultOk`); and what `fork` has copied (`ForkOk`). `ApicInv`, which needs
  `MemoryInv` and is kept apart, says that live processes, those in the loops of `fork` and `execl`
  and the children of the former have both APICs mapped (`HasApic`).
* `FramesHaveOneUse`, `TlbIsTrue`, `FaultIsServed` and `MemoryIsPrivate` follow.

`RendezvousProofs`, over `MCRendezvous`, one invariant per component:

* `BootInvariant`, for any number of processors and any tables: processors are woken one after the
  other, and what is counted at each place of the first one (`BootOrder`); then `BootsApart` and
  `MainStartsLast`. The difficult part is that somebody still has to unmask the keyboard as long as
  it is masked (`BootOpen`).
* `RoundsInvariant`, for any finite set of threads and any number of rounds: the lock has one
  holder, and `count` is the number of threads that have yet to enter the open round, whichever
  round the slow ones are still leaving; then `RoundsKeepTogether`.
* `OnceInvariant`, for any threads and count: one permit travels from thread to thread. With
  `RoundsKeepTogether` it gives `BarriersHold`.
* `BufferInvariant`, for any ring and any putters and getters, finitely many or not: the permits
  of the three semaphores, the threads between them and `n` add up (`BufferCounts`). With the
  rounds it gives `NothingIsLost`, and `BufferIsChannel`: `put` and `get` take effect in `Channel`
  when they count, every other step is a stutter.

`StorageProofs`, over `MCStorage`:

* `TablesInvariant`, for any processes, descriptors (that are no consoles), table and file sizes
  and any width of the word: counts as in `ProcessProofs`, and what a `read` in progress has loaded of
  the offset, tested and clamped still agrees with the offset, unless another process has stored to
  it since (`ReadOk`, `moved`); then `DescriptorsAreCounted` and `ReadsAreBounded`.
* `ReadingInvariant`, for any block size and number of block references: after each turn of its
  loop `read_all()` has stored the bytes before `offset` and counted them; then `ReadAllIsExact`.
* `LookupInvariant`, for any disk, i-nodes per group and paths: after plain uses of `cd`, `current`
  and `cwd` are the root and `/`, or one of its directories and the path of its name; then
  `PwdIsCurrent`. `FindIsLookup` holds for each path and needs no more than `TypeOK`: token by
  token, `find()` is where the entries lead (`Agrees`), or, behind a name that no slash ended yet,
  where they led before it (`InStep`); null or a panic stand for nowhere, and stay.
  About the disk, `FilesystemAssumption` says what `mkfs.ext2 -d` (`Makefile:178`) and the tools of
  the host guarantee and the kernel, which never writes the disk, cannot change (`WellFormed`): the
  live names of a directory differ and have no slash, and the `..` of the root and of its directories is the
  root. Entries may be deleted, and `..` of deeper directories may be anything.
* `MemoryInvariant`, for any array of at least 8 ints, any requests for which `bytes + 3` does not
  wrap, any values that clients store and any bound of the kernel's search. `MemoryInv` says that
  there are headers `B`, each with its right neighbour `R` (`Cut`), available blocks `F` that have
  no available neighbours (`Spaced`) and ranks `r` such that the tags are those of `B`, `R` and `F`
  (`Tagged`), and each available block has the next lower and the next higher rank as its links
  (`Linked`); and that each client has a block of its own and finds its data there (`Kept`).
  None of this refers to the order in which `right()` or `next()` reach the blocks, so `remove()`
  (`Unlinks`), the push of `makeAvail()` (`Pushes`), the merges of `free()` (`Merges`) and the split of
  `malloc()` (`Splits`) change a few blocks each. What the code and the properties do walk is
  derived: `right()` from the first sentinel reaches exactly `B` (`HeadersAre`); `next()` from
  `avail` reaches exactly `F`, in falling ranks, and ends within `Ints \div 4` steps, since there is
  no room for more blocks (`ChainEnds`, by the pigeonhole principle); so both searches find a block
  if one fits (`FitFound`), and if none does there is no gap (`NoGap`).
  `HeapIsConsistent` and `DataIsIntact` follow.
* What the recursive functions of both components compute comes from three lemmas on numbers: a
  non-empty set of naturals has a least element (`Least`), hence what holds for 0 and goes from a
  number to the next holds up to any bound (`UpTo`), hence a function that takes one step per
  number exists and stays where the steps do (`Iterates`).

`ConsoleProofs`, for any words, demo script (a sequence of non-empty lines), processes and keys:

* `ConsoleInvariant`: of the shell and all its descendants at most one is not waiting for its child
  (`OneActive`); while a line is answered, nothing moves in the handler unless somebody types
  (`Quiet`), and a line is answered only while `done` is set (`PhaseOk`); and, when nobody has typed ahead, what `buf` and `bufSize` hold while the handler stores
  a line (`Typing`), while it is measured and copied, and at each byte that `setDone()` clears
  (`Answering`). `touched` and `ahead` are two variables because a clearing that a key disturbs leaves a
  buffer which only the next undisturbed one makes empty. The types hold for every user, and bound
  `bufSize` by the keys typed although `bufSize++` may write back what it read before `setDone()`.
* `OneReads` and `LineIsAsTyped` follow. That the letters up to the first Nul are the line needs a
  least element (lemma `Least`), from the well-foundedness of `<`.

Only model-checked: all liveness (`Progress`, `ReadyRuns`, `Reclaimed`, `WaitReturns`,
`EverythingGot`, `AllPass`, `BootCompletes`, `LineAnswered` and the fairness part of
`ImplementsAtomic`), since liveness under fairness is out of the prover's reach. Every invariant and
every action property of the passing runs is stated by a theorem.

## 6. Plan

Modelled, in the order of importance: locks, scheduler, semaphores, memory, processes,
descriptors, block reads; then conditions, barriers, the bounded buffer, boot, heaps, path lookup
and the working directory, the keyboard and the shell. Proved: every safety property of these.

What could come next: the search for the ACPI root table in `config.cc`; a model of the IDE
handshake, if the behaviour of the controller is written down; the entries that `get_dir_entries`
prints; and the unsynchronised `Shared` of `fs->current`, should the code determine what a race does.

## 7. Not modelled

* Formatting (`snprintf.cc`, `printf.c`: a third-party printf in two copies) and the serial port:
  no other component reads what they write.
* The IDE driver: port I/O with a device whose behaviour is not in the repository. `kernel.cc` and
  `sys.cc` each make an `Ide` object, with a lock of its own, for one controller; `kernel.cc` no
  longer reads when the first system call does.
* The ELF loader: one sequential pass over the program headers. Its stores are stores of
  `VirtualMemory`, its failures are failures of `Execl`.
* The boot sector and the descriptor tables: assembler and tables that are written once.
* The text processing of `cat`, `grep`, `wc`, `echo` and of the listing that `ls` prints; scan
  codes; the bytes of a directory entry; the search for the ACPI root table.
* The race of two threads in `Shared::operator=` and its copy constructor on `fs->current`: a use of
  freed memory, whose outcome the code does not determine. The shell waits for each program it
  starts, so its own commands do not reach it.
