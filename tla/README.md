# FreeCROS in TLA+

A verification project for FreeCROS, a small C++ kernel for x86: TLA+ modules
translated from its source, TLC runs that check them on small instances, and
theorems checked by TLAPS for every value of the constants.

`tlc -config X.cfg M` checks a run, `tlapm M.tla` a proof module. The runs, the
mutated definitions that show that each property can fail, the source lines of
every definition, the hazards and the theorems are listed in `PROJECT.json`.

## 1. The system

FreeCROS boots through Multiboot, sets up memory, interrupts and the clock on
the boot processor, creates one kernel thread and from then on is driven by the
clock interrupt and by system calls (`int`). The code to start the other
processors is there (`InitAPs`), but nothing calls it: at this commit all threads
run on the boot processor, and the spin lock is written for more than the kernel
uses. So there are three kinds of concurrency: threads preempted by ticks,
handlers that interrupt kernel code on the same processor, and, in the spin lock
and in the start of the other processors, several processors.

| component | state | operations | interacts with | hard parts | what makes it correct |
|---|---|---|---|---|---|
| **Spin lock** (`x86/SpinLock.cpp`) | guard byte, lock byte, owner's CPU id, depth | Lock, Unlock, Try | used by thread manager, threads, waitable objects | interleaved memory accesses, order of the release | exclusion; depth equals nesting; never all blocked |
| **Thread states** (`thread/ThreadState.cpp`) | one object per thread | ToRun, ToReady, ToPause, ToIOBlocked, ToZombie | call the scheduler | the same thread made ready from several places | a thread is in a list exactly when it is READY |
| **Default scheduler** (`thread/SchedulerDefault.cpp`) | ten lists of threads | ThreadAdded, ThreadRemoved, NextThread | dispatcher, thread states | levels clamp priorities | highest level first, FIFO inside a level |
| **CPU dispatcher** (`x86/CPUx86.cpp`) | current and idle thread, end of the slice, `allDone` | Run, ExhaustCurrThread, StartService, SetIdleThread | clock, waitable objects | Run acts before its last early return; switches in the middle of callers | one RUNNING thread; blocked threads do not run |
| **Waitable objects** (`thread/WaitableObj.cpp`) | one thread pointer; the previous one on the blocked thread's stack | Wait, Sleep, Wake | message passing | the chain of saved waiters; stale waiters | no wake-up is lost |
| **Thread manager** (`thread/ThreadManager.cpp`) | map from pid to thread, pid generator | create, find, dispatch next | all thread code | its lock is taken by code and by the tick | dispatches what the scheduler names |
| **Threads** (`x86/Thread.cpp`) | state, priority, stack, message queues, shared stack bitmap | constructors, ReceiveMessage, ExtractMessage | message passing | stacks of a family share one bitmap; queue limit | bounded queues; children have distinct stacks |
| **Message passing** (`syscall/SystemCalls.cpp`) | (in the threads) | SendMessageTo, ReceiveFrom, ReceiveAll | waitable objects, queues | check-then-block, retries | FIFO per pair, no loss or duplication, no sleeper left behind |
| **System call entry** (`syscall/SystemCallEntry.cpp`) | map from number to call | Call | all calls | turns interrupts off for the whole call | a call is not preempted, except where it blocks |
| **Clock** (`x86/Clock.cpp`) | microsecond counter, period | ClockHandler, KernelWait, SetPeriod | CPU manager | 64-bit counter truncated in KernelWait; reload arithmetic | time advances once per tick |
| **CPU manager** (`x86/CPUManager.cpp`) | map of CPUs | Initialize, ClockNotify, GetCurrentCPU | clock, CPUs | order of boot: interrupts are on before the map has a CPU | a handler that asks for its CPU finds it |
| **Kernel entry** (`Main.cpp`) | none | bspmain | all | the clock already ticks while it sets up | the kernel has an idle thread |
| **List allocator** (`memory/MemoryListAllocator.cpp`) | linked heads inside the zone | Allocate, Deallocate, Reserve, Dereserve | operator new, buddy allocator | unsigned arithmetic, merging across the guard | blocks are disjoint and tile the zone |
| **Buddy allocator** (`memory/MemoryBuddyAllocator.cpp`) | availability per level and block | the same | page tables, stacks | splitting around a range, alignment | blocks are disjoint; merging restores the zone |
| **Memory manager** (`memory/MemoryManager.cpp`) | three zones, modules | layout, move of the modules, new and delete, Reserve | allocators, Multiboot | modules lie where a zone will start; borders of zones | zones are disjoint; modules intact; delete finds the owner |
| **Address spaces** (`memory/AddressSpaceManager.cpp`, `x86/AddressSpaceX86.cpp`) | page directories and tables | map, create, copy, page fault | page allocator, interrupts | faults preempted between test, allocation and write, and before CR2 is read; tables with stale entries | the kernel is mapped to itself everywhere; no two pages of users get one frame; a copy follows the pages |
| **Local APIC and start of the processors** (`x86/apci/LocalAPCI.cpp`, `x86/Boot.S`) | interrupts that wait and are in service; a stack and a flag in the image and in its copy | EOI, InitAPs, start-up code | clock, ACPI tables | handshake through bytes of memory; absent processors; waits | every processor has its own stack; InitAPs returns |
| **IO APIC** (`x86/apci/IOAPCI.cpp`) | mask and destination of every pin | route, mask, unmask | interrupts | edges lost while masked | the clock's pin is unmasked when the clock is started |
| **ACPI tables** (`x86/apci/APCI.cpp`) | the firmware's memory | FindRSDP, FindEntry, FindIntrCtrlStructInMADT | start of the processors | damaged tables, two formats | the processors an intact table lists are started |
| **Interrupts** (`x86/Interrupt.cpp`, `.S`) | handlers per vector | register, dispatch, Cli, Sti | all | two acknowledgements of one tick; nesting across switches | no interrupt of the clock or a device is acknowledged by another handler; the clock never stops |
| **C library** (`lib/libc`) | strtok's position | strings, memory, printing and reading numbers | all | overlaps, ends of strings, ends of the number range, the table of character classes | what C promises, where the code keeps it |
| **HAL, segments, task state, log, Multiboot, ELF** | device registers, text cursor | set-up and pure functions | boot | bit layouts | see section 5 |
| **Containers** (`lib/liblalr`) | external: the submodule is empty | | used everywhere | | sequences and functions in the models |

## 2. Modules

| module | models | state |
|---|---|---|
| `ReentrantLock` | what a lock promises: an owner and a nesting level | `owner`, `level` |
| `SpinLock` | `SpinLock.cpp`, one action per memory access | `tmplock`, `lock`, `currCPU`, `depth` of the code; per CPU the program counter, the call, and what its client holds |
| `Threads` | thread states, scheduler, dispatcher, tick and waitable objects as operators on a kernel record | no variables |
| `Scheduling` | the kernel from `StartService` on: boot, ticks, creating children, waiting, sleeping and waking | the kernel record, `boot`, `stacks`, `frame` |
| `Channels` | what message passing promises: one bounded FIFO per pair | `channel`, `received` |
| `IPC` | the three message calls on top of `Threads` | the kernel record, `msgMap`, `frame`, `received` |
| `Heap` | what an allocator promises: disjoint ranges of a zone | `held` |
| `ListAllocator` | `MemoryListAllocator.cpp`, one action per operation | `heads` in list order; `granted` and `reserved`, what callers remember |
| `BuddyAllocator` | `MemoryBuddyAllocator.cpp`, one action per operation | `avail`; `granted` |
| `MemoryManager` | the constructor of the memory manager, one action per step and module, and delete's choice of an allocator | `mmap`, `mods` (what the boot loader left), `mm`, `memSize`, `zone`, `used`, `written`, `modules` |
| `AddressSpaces` | page directories and tables, threads of kernel, own and shared spaces, page faults; extends `MemoryManager` | `dirs`, `tables`, `free`, `kernel`, `space`, `cr2`, `fault`; `partial` and the mark `written` of an entry, what the properties remember |
| `Interrupts` | boot order, local APIC, IO APIC pins, common handler and clock handler, switches in the middle | `boot`, `handlers`, `hasCPU`, `masked`, `routed`, `timer`, `irr`, `isr`, `cur`, `frames` |
| `ACPI` | the searches of the firmware's tables, as functions | none |
| `Processors` | the start of the other processors, one action per write that another one reads; extends `ACPI` | `pc`, `n`, `original`, `copy`, `counter`, `since`, `ap`, `stack`; `initAt` |
| `Strings` | `string.h` over a memory of bytes | `mem`, strtok's `save`; `text`, `tokens`, `done` |
| `Numbers` | `vsprintf`, `itoa`, `strtol`, `atoi` | `pc`, `call`, `out`, `result` |
| `MC*` | instances for TLC; `MCLibrary` runs `Strings` and `Numbers` side by side | |
| `ThreadsProofs`, `SchedulingProofs` (of `Scheduling` and `SpinLock`), `IPCProofs`, `ListAllocatorProofs`, `BuddyAllocatorProofs`, `MemoryProofs` (of `MemoryManager` and `AddressSpaces`), `APICProofs` (of `Interrupts` and `Processors`), `LibraryProofs` (of `Strings` and `Numbers`) | proofs | |

**SpinLock.** Each CPU runs one client that calls Lock or Try up to `MaxDepth`
times nested and Unlock as often as it acquired. `xchg` is one step; so is every
plain load and store that another CPU can see. The steps are sequentially
consistent. The code needs no more of x86: its stores become visible in program
order, and the only load that could overtake an earlier store, the owner test,
comes after a locked `xchg`. `Deepen`, `CountAndReturn` and `BeginUnlock` are a
read and a write of `depth` in one step; the lock invariant shows that only the
CPU with the lock byte executes them, so splitting them adds no behaviour.

**Threads.** The kernel's operations call each other: a `Wait` pauses the thread,
exhausts its slice and dispatches, which dequeues one thread and may enqueue
another. Each is an operator from kernel record to kernel record, and an action
is the composition its code is. `budget` is `endCounter` minus the clock; every
overrun is the same to `Run`, so it stops at -1.

Two things of `Run` matter and are kept: `GetNextThreadToExecute` already makes
the next thread RUNNING, also when it is the current one and `Run` then returns
without switching and without a new slice; and without a READY thread the idle
thread is made ready first, from whatever state it is in.

**Scheduling.** A system call runs with interrupts off until it returns or
blocks, so it is one action; `Wait` and `Sleep` are cut where `Run` switches
away, and their rest is `Return`. The previous waiter they saved is in `frame`.
A thread whose `Run` did not switch is at its `Return` at once. `Sleep` has no
caller in the kernel yet; it is included because `ToIOBlocked` is part of the
thread states' promise. `bspmain` is not a thread: once a tick has dispatched
one, nothing switches back to it, and its remaining statements never run. Then
the kernel has no idle thread for ever, and a thread that blocks with nobody READY
stays on the CPU. `CurrentIsNotBlocked` says that it does so in this case only,
that its slice is over, so that the next tick gives the CPU to whoever is READY by
then, and that a zombie never has the CPU.

`currThread` has no initialiser (`CPUx86.h` 36). The models start it as nullptr,
which it is if the heap memory of the CPU object was never written; of any other
value the first switch would save the registers to an arbitrary place.

A tick is one action and ends before the next: the clock handler is short
against its period. In `Scheduling` the first thread makes calls like any other,
since only it can create children; in `IPC` the idle thread makes none.

**IPC.** A call is tried from the start after every wake-up, as in the `while`
loops of the code; `frame` holds a blocked call and the waiter its `Wait` saved.
The threads are ready in any order at first, as their creation may leave them.
`received` records what the last receiving call wrote and which of its arguments
it wrote through. A message is in its channel from the call that sends it, also
while that call is blocked: hence capacity three over queues of two.

**Allocators.** Both are called with interrupts off, in the clock handler, or at
boot, when a tick has no thread to dispatch and allocates nothing. The one
exception is the handler of page faults, which takes a page with interrupts on;
a tick in the middle of it could let a second fault into the same allocator. The
models take an operation as one action, and so do not speak of that case.
An allocation that fails returns null and changes nothing. `ListAllocator` keeps
the order of the list, which the code searches and merges along, and computes
sizes modulo the word; the guard that closes the list is never free and is left
out. `BuddyAllocator` counts in pages. Its splitting and joining are loops over
the levels: the path of a split is a function from level to cell, and the level
where a loop ends is the lowest or highest one up to which its condition holds.
Neither allocator knows its callers, so what they remember is a variable of its
own, and `Heap` speaks of that variable: what callers were given is disjoint,
whatever the allocator believes. `operator delete` finds the allocator of an
address but does not call it at this commit, and nothing calls `Reserve`; both
are modelled as the interface has them.

**MemoryManager.** The boot loader may leave modules anywhere behind the start of
the image's last part. The constructor makes the allocator inside the image,
moves the modules into it one by one, and only then lays out the zones, whose
list allocator writes a head to the first bytes behind the image. `written` is
what of the memory behind the image has been written, which is all a module's
copy depends on. A failed `Assert` stops the boot and is a missing step.

**AddressSpaces.** A space is the frame of its directory. A table is used as the
allocator returns it, so its other entries are any of `Stale`. The handler of a
fault runs with interrupts on and a tick may switch threads anywhere in it. So it
is cut where other threads can make a difference: before it reads CR2, which the
next fault of any thread overwrites; after it has a page; after it has found the
entry of the directory empty; after it has a table; and before it writes the page's
entry. Handlers that overlap can map one page twice, map the page of another
thread's fault, and take two tables for one entry, of which one is lost with its
entries; all of this is in the model. What remains one step is the reading of CR2
with the request for a page, the stores of one entry, and the creation of a space,
which nobody else knows yet. When no page is left, nullptr is mapped: frame 0. A
handler that gets no table clears the table's address in the directory and returns;
if another handler has made the entry present, its table is at address 0 from then
on (`LowTable`). Which frame the buddy allocator returns
does not matter here, so the lowest is taken; runs of frames are aligned.
`CopyDataFromAnotherSpace` is a function of the two spaces: the loop that goes on
from byte to byte and looks an address up again at the end of a page.

**Interrupts.** The local APIC holds interrupts that wait (`irr`) and are in
service (`isr`), accepts one only above the class of all in service, and an EOI
ends the highest in service, whoever sends it. A frame is a handler on the stack
of a context. All gates are trap gates, so handlers nest; the clock handler
acknowledges, runs the dispatcher, and the common handler acknowledges again
when the context is resumed, perhaps much later. Whom the dispatcher picks is
left open; `Threads` has that. The boot is the list of the calls of
`CPUManager::Initialize`, with interrupts enabled in the middle of it. It is that
of a machine with a MADT: without one `InitBSP` returns early and the boot ends in
a pointer nobody set. The handler of system calls is registered by the first use of
`SystemCallEntry`, which has no caller yet: `RegisterSystemCalls` may happen any
time after the boot, or never.

**Processors.** `original` is the stack and the flag in the kernel's image,
`copy` the same in low memory. The boot processor writes both into the image,
copies, and sends INIT and SIPI; the started processor takes its stack from the
copy and lowers the flag in the image. `KernelWait` compares a 32-bit sum with
the 64-bit counter. The tables come from `ACPI`, good or damaged.

**Strings, Numbers.** A string function is an operator on a memory from addresses
to signed bytes, as the string instructions compare them, and a step is a call C
allows, with a buffer that may be exactly as large as C asks. A number is printed
by one directive and what was printed is read back. `vsprintf` is a recursive
function of a place in the format and the next argument, and parses any text. The
calls of the model print by the directives a program writes
(`DirectivesAssumption`): flags in any order and number, a width without a 0 in
front (that 0 is a flag), a precision, and texts without blanks, which could not
be told from the filling. `strtol` classifies characters by the macros of
`ctype.h`, which look up `(_ctype+1)[c]` in a table without an entry for EOF: each
class is that of the next character. So `DigitOf` has '/' and '@' for digits, and
'9' and 'z' for none, and `IsSpace` does not hold of a blank. (`vsprintf` has an
`is_digit` of its own.)

## 3. Runs

| run | instance | properties | what it shows |
|---|---|---|---|
| `spinlock` | 3 CPUs, nesting 2; 5832 states | `MutualExclusion` `DepthIsNesting` `ImplementsReentrantLock` `LockProgress` | The lock is exclusive and counts its nesting, refines the reentrant lock, and some waiting CPU gets it |
| `scheduling` | 4 threads on 3 levels, 2 stacks; 59 657 states | `TypeOK` `QueuesAreExact` `OnlyCurrentRuns` `CurrentIsNotBlocked` `SwitchesToHighest` `ReadyGetsCPU` | Lists and states agree; a switch is to the highest level; nobody of the highest level starves; a thread that blocks keeps the CPU only if nobody else is there |
| `ipc` | 2 threads and the idle one that send each other messages, two payloads one way; 11 760 states | `NoSleepWithMail` `NoSleepWithRoom` `ImplementsChannels` `CallsReturn` | No lost wake-up; queues plus blocked calls are FIFOs of capacity 3; a blocked call whose condition holds returns |
| `ipc_limit` | as `ipc` | `SleepsOnlyAtMax` (fails) | A queue refuses the third message of a sender, where a comment gives it ten |
| `list_allocator` | a zone of 26 bytes with heads of 2, requests of 1, 2 and 5, two reservable ranges; 17 983 states | `TilesZone` `Coalesced` `ImplementsHeap` | No byte is lost or handed out twice; free neighbours are joined |
| `list_merge` | the same with `Reserve` and `Deallocate` in any order | `ReservedIsKept` (fails) | Merging joins blocks across a reserved range |
| `buddy_allocator` | 11 units, 8 of them usable, requests of 1 to 3, aligned or not, two reservable ranges; 1521 states | `UnitsCoveredOnce` `FreeRegionIsAllocatable` `GrantsAreBlocks` `ImplementsHeap` | Each unit is in one block; joining restores large blocks |
| `spaces` | 2 maps of memory, modules none or two, 3 threads in spaces of their own, of the kernel or shared; 472 551 states | `ZonesAreDisjoint` `ModulesAreIntact` `KernelIsIdentity` `UserFramesArePrivate` `CopyFollowsPages` `DeleteFindsOwner` | The layout is sound, modules survive it, and page faults whose handlers overlap anywhere, until memory runs out, keep the kernel mapped and give no frame to two pages |
| `interrupts` | 2 threads and the boot's stack, nesting 2, one interrupt of the device; 701 922 states | `InServiceIsCurrent` `ClockFindsProcessor` `AcknowledgesItsOwn` `TicksKeepComing` | No acknowledgement ends another handler's interrupt of the clock or the device (the timer's it may), and the clock never stops |
| `processors` | 3 firmwares, 3 processors of which any are present, 4 values of the counter; 1448 states | `OwnStack` `StartsTheOthers` `InitAPsReturns` `SipiComesLater` | Every listed processor that is there starts on its own stack, and the boot goes on |
| `library` | memories of 7 bytes over 3 characters, numbers of 8 bits; 55 430 states | `SearchesAreExact` `CopiesAreExact` `TokensAreExact` `RoundTrip` `FieldIsFilled` | Searches, copies and tokens are what C promises, but for strncat's second 0 and the order of bytes from 128 on; fields are filled; what is printed without a blank in front and without a 9 is read back |
| `library_blanks` | as `library` | `SkipsBlanks` (fails) | `strtol` does not skip blanks, because the table of character classes is read one place too far |

**Why the bounds are enough.** Three CPUs give a holder, a CPU that wins the byte
it leaves and one that loses it; nesting 2 distinguishes the first acquisition, a
nested one and the last release. Four threads are a running, a READY and a blocked
one and a zombie that found no stack, on three levels of which the highest has
two. The period of 1800 is the code's. The slice of 10000 is shortened to two
ticks and, for messages, to one, which adds preemptions and removes none: with a
longer slice a tick that does not switch only counts down. The queues' limit is
the code's, which is not that of its comment (`ipc_limit`); two payloads of one
sender show the order.

The list zone holds up to seven blocks, so that a block is given back between
used and free neighbours on either side, and the ends of the zone are reached;
requests leave rests of zero, of less than a head and of more. Eight usable units
are four levels: a block is split and joined over more than one of them, and
eleven units give two levels an odd number of cells.

In `spaces` the memory has frames for two spaces and a few pages, so that faults
find a page, then a page but no table, then nothing; directories of 16 entries
make the kernel's pages cross from one table into the next; a stale entry is
empty, or present, for users, and names a used frame. Threads are interchangeable,
and the run checks no liveness, so symmetry is sound. In `interrupts` a nesting of
2 puts a handler on top of one that has not acknowledged and of one that has; the
device's pin has a class above the clock's, the case in which a device nests on a
tick that has not acknowledged (the other case is covered by the proof). In
`processors` the word has 32 values, the counter starts before and after its wrap,
and the waits are longer than one tick and shorter. Seven bytes hold two strings
with overlaps at every distance; a long of 8 bits has all its edges among the
values, and a precision or width below, at and above the number of digits.

**What callers of the list allocator may do.** The code trusts them, and
`CarefulNext`, of which `list_allocator` and the proofs speak, says with what. A
range is set aside only if it holds a head and there is room behind it for
another one (`LeavesRoom`): otherwise the size of the head behind it wraps.
Nothing is given back while a range is set aside: merging joins blocks across it
(`list_merge`). No alignment is asked for, and none is in the kernel: a short
block that ends before the aligned start passes the unsigned comparison.

**Fairness.** `SpinLock`: a CPU goes on executing the call it is in, and critical
sections end. Nothing is assumed about which contender an `xchg` serves, so
progress is of the lock and not of each CPU. `Scheduling` and `IPC`: the clock
keeps ticking while the running thread has interrupts on (it is a periodic
timer), and a dispatched thread runs its kernel code, which has interrupts off,
to its end. No thread has to make a call, to wake anyone or to return from user
code. `ReadyGetsCPU` is claimed for threads of the highest level; lower levels can
starve, by the design of the scheduler. `Interrupts`: the timer chip ticks, an
interrupt that can again and again be accepted is, and what a tick interrupts goes
on before the next, because handlers take less than a tick's period. So the boot
and the handlers of each depth, which a tick disables only while it runs, are
strongly fair. `Processors`: the clock ticks during waits, and every processor
goes on.

**What fails by design of the code and is not claimed.** With two senders on one
receiver, `NoSleepWithRoom` and `CallsReturn` do not hold: a waitable object
remembers one thread, the others are chained through the stacks of those that
came later, and a sender that is woken, finds the queue full again and blocks
again can leave another one asleep. A processor that is listed but absent never
lowers the flag, and the next one is waited for without end; so `InitAPsReturns`
is claimed if only the last is absent. `SipiComesLater` ends where the counter no
longer fits in 32 bits. `TicksKeepComing` assumes that the clock's pin leads to
the boot processor, because its destination is a word that nobody sets.

## 4. Proofs

All proofs hold for every value of the constants under the named assumptions of
the modules, which TLC evaluates in the runs.

**The spin lock** (`SchedulingProofs`). Mutual exclusion is not inductive: one has
to know who may be between the `xchg` and the store of the owner. `LockInvariant`
says, instruction by instruction, which CPU has the lock byte (`HasByte`), that
it is the only one (`OneByte`), that it alone is the recorded owner except
between winning and recording and between disowning and clearing
(`OwnerIsRecorded`), that `depth` is its nesting (`DepthIsCounted`), and that
nesting stays in its bound (`NestingBounded`). The proof has one step per action.
`MutualExclusion`, `DepthIsNesting` and `FreeIsClean` follow from it, and so does
the refinement: `TakeLock`, `ReenterAndReturn` or `CountAndReturn` is an abstract
acquisition, `BeginUnlock` a release, everything else stutters. `BasicMode` is a
constant, so what is proved holds for the lock's plain mode too; the run has the
mode the kernel uses.

**The kernel record** (`ThreadsProofs`, `SchedulingProofs`). The invariant `Good`
says that the scheduler's lists hold exactly the READY threads, each once and in
the list of its level, and that no thread but the current one is RUNNING.
`ThreadsProofs` has one lemma per operator of `Threads`, built up as the code is:
appending to and removing from a list without duplicates, adding and removing a
thread, each state transition, the switch, `Run`, the tick, `Wait`, `Sleep`,
`Wake`. Each says that `Good` is kept and what else is left alone. A switch
needs more than `Good`: between `GetNextThreadToExecute` and the switch two
threads are RUNNING, so its lemma assumes only that those are the new and the
current one. `SchedulingProofs` adds the types of boot, stacks and frames and
`NothingYet`: until `bspmain` creates the first thread no tick dispatches
anything, so the thread it then creates is in no list. From these follow
`TypeOK`, `QueuesAreExact` and `OnlyCurrentRuns`. `SwitchesToHighest` needs that
the list `NextThread` takes from is the highest that is not empty. For
`CurrentIsNotBlocked` two facts are added: a kernel with an idle thread always has
someone to run, and a current thread that is blocked has exhausted its slice and
found no READY thread when it did (`Lasting`). Ticks take the CPU from it if
anyone is READY, and nothing else changes its budget.

**Message passing** (`IPCProofs`). On top of `Good`: a call that is tried blocks,
delivers or receives (`Attempt`), and each of the three changes at most one cell
of the matrix of queues. A channel of the abstract specification is a queue
followed by the message of the sender blocked on it, so blocking a sender is
sending, its retry that delivers stutters, and receiving is receiving. That gives
`ImplementsChannels` for any threads, payloads and pairs. That no receiver sleeps
with mail needs two more facts: the waitable object of a sleeping receiver still
names it (`ReceiversAreNamed`), because nobody else waits on that object, and a
frame names the object of its call (`FramesNameObjects`). For senders the same
holds if no two of them send to one receiver, which is the hypothesis `OneSender`
of the theorem, which the run `ipc` satisfies. `ChannelsCorrect` needs no such
hypothesis: with competing senders, whose saved waiters overwrite each other, still
no message is lost, repeated or reordered.

**Memory** (`MemoryProofs`). `MemoryInvariant`: what is taken of the image's zone
covers the copies, nothing behind the image is written before the last step, and
the zones are then cut as the layout says. With the arithmetic of rounding to
pages, and more than `MinMemory` bytes, `ZonesAreDisjoint` follows, and so does
`ModulesAreIntact`. These hold in `AddressSpaces` because no step of it touches
the memory manager's variables. `DeleteFindsOwner` follows from the layout: no
frame lies where the zone of the image ends, the one address that belongs to two
zones for a request of size 0.

**Address spaces** (`MemoryProofs`). `SpacesGood` says what the three properties
of the spaces rest on: directories, tables, the pages of users and the free frames
are apart and no two entries of directories name the same table (`WellFormed`),
frames of users are neither and belong to one entry or one handler each (`Apart`),
and every space maps the kernel's pages to themselves, except those whose tables
could not all be had (`Identity`). Creating a space and copying from one are
loops, recursive functions in the model. That such a function exists, and what it
keeps, is proved by an induction over its rounds (`CountUp`): the numbers for
which a statement holds are a set, and a set with 0 and with every successor has
all numbers. For the mapping of the kernel one round is one page, for the copy one
byte. For `UserFramesArePrivate` what handlers hold counts as well, pages and
tables, and so do the entries of tables that no directory names any more: `Apart`
says of all of them that no frame is used twice. `Handlers` says what each handler
relies on at the place where it was cut: the tables of the kernel's pages are in
their places, so no handler finds them missing, only users' pages are mapped for
users, and who is about to write an entry has a table for it, if perhaps another
one than it found. The property excepts pages of frame 0 and of the table at
address 0, which the code makes when memory has run out, and entries nobody wrote,
which may name anything. The assumptions are that the kernel and the addresses of
users fit into a directory (`AddressAssumption`, `TablesAssumption`) and that
stale entries have the type of entries (`StaleAssumption`).

**The list allocator** (`ListAllocatorProofs`). `ListGood`: the blocks and the
range that is set aside fill the zone in order (`Tiles`), no two free blocks touch
(`JoinedBut(heads, 0)`), at most one range is set aside (`OneGap`), and the used
blocks are those callers have. Each operation makes one of three lists of another:
one where a block is cut in two or a gap filled (`Doubled`), one where a block is
set free, and one where a run of free blocks becomes one (`Joining`); lemmas say
for any list what the three keep. Between setting a block free and joining it,
free blocks touch at one place (`JoinedBut`), so the run that is joined has at
most three blocks, and the sum of its sizes is the distance of its ends.
`TilesZone`, `Coalesced` and `ImplementsHeap` follow, for zones, heads and
requests of any size below the word's, and that what is set aside is handed to
nobody. All of them are theorems of `CarefulSpec`.

**The buddy allocator** (`BuddyAllocatorProofs`). `BuddyGood`: over every usable
unit there is exactly one level whose block is free or in use, and two halves are
never both free (`Tree`). So these blocks are the leaves of a tree of halves, for
a zone of any size, its unusable end included. What a call does to the array is
seen along a chain, one block on each level, each a half of the next: splitting
opens a free block at its upper end (`Opened`), joining closes what begins at its
lower end (`Closed`), and of the blocks a unit has, those on the chain, the one
beside it and the others are apart (`ChainSplits`). That the loops of
`SplitLargeSpace` and `MergeBuddy` work along a chain is proved by the same kind
of induction as for address spaces, over levels. `UnitsCoveredOnce` and
`FreeRegionIsAllocatable` follow for any ranges reserved: in a free region the
lowest leaf would have a buddy with no leaf around it, or a free one.
`GrantsAreBlocks` and `ImplementsHeap` rest on a correspondence of what callers
hold and blocks in use (`OneGrantEach`). Their hypothesis `ReservesBlocks` says
that a reserved range lies in one of the smallest blocks that can hold it, which
the ranges of the run do: the code tests the left half only for the range (section
5), so a range across two halves may get the one behind it. For `Allocate` nothing
of the kind is needed: with no ranges reserved the hypothesis is true.

**Interrupts** (`APICProofs`). `ClockFindsProcessor` rests on the order of
the boot: where interrupts can already arrive, the handlers that use the processor
are not registered (`HandlersComeLater`). `InServiceIsCurrent` is not inductive:
a handler that has not acknowledged an interrupt of the clock's class or above
(`Holding`) is on the running stack, its interrupt is in service, and all handlers
on top of it are the device's, of a higher class (`Held`). So an acknowledgement
from a handler on top ends its own interrupt (`TopIsHighest`), and one from a
handler that holds nothing finds at most the timer's (`NothingHeld`). From that
follows `AcknowledgesItsOwn` (`OwnEndsHolds`). The timer's interrupt is left out of
it rightly: when a tick interrupts the timer's handler before that has acknowledged,
the tick's second acknowledgement ends the timer's interrupt. That lets the timer in
again earlier, and blocks no clock, whose class is higher.

**Processors** (`APICProofs`). At most one processor is between INIT and
lowering the flag, and it keeps the flag up (`OneStarts`); the stack in the copy
is the one made for it (`StackIsReady`). This holds for any firmware, also one
that lists a processor twice or not at all. `SipiComesLater` adds that who has got
INIT only is being waited for since then. `StartsTheOthers` needs tables that mean
something: its hypothesis `Sound` says that intact tables are where ACPI has them
and that the structures of the table fill it one after the other, and lets any
table be damaged; `MCProcessors` assumes it of the three firmwares, so the run
evaluates it. Then `StructOffsets` collects exactly the structures of the table
(`OffsetsAreStructs`, by descent over offsets, like the levels above), the
structures of one type have the ranks 0, 1, ... without a gap (`RanksHaveNoGap`),
and the search that ends at the first missing rank has met all of them. The
invariant `StartedInOrder` relates what has been sent an INIT to the ranks tried.

**The C library's strings** (`LibraryProofs`). `StringsSpec` is what the run's
specification does to the strings, in a memory of any size. Its only invariant is
that bytes are of `Char` (`BytesAreBytes`); the rest is about the operators. After
i rounds `rep movsb` has moved i bytes and nothing else (`Part`, upward and
downward); that a byte is read before it is overwritten is where memmove's test of
the addresses counts. A search is a loop that ends at the first place where it may
stop (`LoopEnds`, by counting back from that place). Such a loop is a recursive
function and exists only if it stops at the end of its range, so the loops of
`Strings` range to the string's 0 and no further, as the code does. strstr's
comparison in memory is one of sequences, because a 0 ends the longer one
(`MatchOccurs`), and all comparisons are decided at their first difference, before
which no string ends (`FirstDifference`). `CopiesAreExact` and `SearchesAreExact`
follow for strings of any length, overlapping ones included. The first says where
strncat differs from C: it writes a second 0 exactly when it may copy more than
there is, behind a buffer of the size C asks for. The second says where the
comparisons do: they take bytes for signed, so their sign is C's if both bytes are
below 128 or both are not. `TokensAreExact` is about a sequence of calls. Its
invariant (`TokensGood`) says that the tokens returned are the runs that begin
before some place n, in order, and that strtok's position is NULL, with all runs
returned, or at n, behind a delimiter, with the string unread as it was. Such a
place is what a call needs to find exactly the next run (`RunsGrow`), and the 0 it
writes leaves the delimiters and what is unread (`CutLeavesDelimiters`).

**The C library's numbers** (`LibraryProofs`). `NumbersSpec` is what the run's
specification does to the numbers, with a long of any width, any words and texts,
and any directives. The invariant (`NumbersTruth`) only says that the buffer holds
what the last call printed and that the result was read from there; the work is in
the functions.

- *Digits.* A text shows a number (`Shown`) if it has no zero in front and reading
  its digits one after the other gives the number. `Digits` shows its argument, by
  descent over quotients, and has as many digits as there are powers of the base
  not above it (`DigitCount`).
- *Printing.* `number` writes six parts: blanks, sign, prefix, zeros, digits,
  blanks (`NumberIsLaid`), of which the flags let only some be there. Their
  lengths add up to the width or to what the number needs, and the blanks are on
  one side (`NumberFills`); for texts and characters `PaddedFills` says the same.
- *Reading.* `strtol` finds in such a text, if there is no blank in front and no 9
  in it, the sign, the prefix and the base (`LineReads`). Its loop stops adding at
  the right digit: `cutoff` and `cutlim` are exact for both signs, so a number
  above the limit becomes the limit and no other does (`AccReads`). For
  `NumberReads` the base is the number's, or is left to the text, which then has
  to show it (`Showing`).
- *The format.* `FormatOf` writes a directive as text, and `vsprintf` parses it:
  where the flags, the width, the precision and the conversion begin is found
  character by character (`DirectiveIs`), `skip_atoi` reads back the digits of
  width and precision (`SkipReads`), and the recursion goes on behind what it
  printed, so it defines a function (`PrintExists`). Hence `VsprintfPrints`.

`RoundTrip` and `FieldIsFilled` follow, the first for `itoa` as well. The run has
longs of 8 bits, two widths and two precisions; in the theorems a width or precision
is any long, so that the parsing of numbers of several digits counts too.

**Model-checked only.** Liveness (`LockProgress`, `ReadyGetsCPU`, `CallsReturn`,
`TicksKeepComing`, `InitAPsReturns`), which is out of the prover's reach. Every other
property of a passing run is a theorem.

## 5. Not modelled

Segments and task-state bits, the log on the text screen, the flags of the
Multiboot information and the headers of executables: sequential code without
state another part reads, or code nothing calls at this commit. The containers are
external. Of modelled components: the hardware task switch and the registers of
timer chip and APICs, as far as no property depends on them; `RemoveThread`,
`RaisePriority`, `DownPriority`, `UnregisterIRQ`, `UnmapVirtAddr`,
`SetPageWritable`, `MemoryManager::Reserve` and `Dereserve`, which have no caller;
`%n` and the macros of `ctype.h` nobody uses.
`Thread::priority` is never initialised; the models take any value for it
(`Priority`), fixed from the creation of the thread. Of the two copies of
`Thread.cpp` the one under `x86/` is modelled; the other differs in the stack
size of kernel threads and in copying the CPU state.

The models take from the machine what the kernel assumes: less than 256 MB of
memory (`SmallMemoryAssumption`). With more, pages of users and of the kernel's
identity mapping are the same, and a fault replaces the one by the other.

**Observations without a run.** They were met while translating the code.

- Messages: `ReceiveFrom` looks up the source by its first argument and then
  writes the message to the address of that same argument (`SystemCalls.cpp` 91),
  although its arguments are "Source,Message*" (`SystemCalls.h` 33);
  `DeliversToBuffer` of `IPC` states what it should do, and fails in `MCIPC`.
  `ReceiveMessage` returns on a full queue without unlocking `msgLock`, and
  `WaitableObj::Wait` sleeps with its lock held; both are harmless while one CPU
  runs all threads, because the lock is owned by the CPU.
- Threads: stack addresses of children wrap after 96 (`Thread.cpp` 56). The
  context that boots the kernel is never resumed after the first switch; the `Sti`
  behind a system call that does not return is not reached.
- Buddy allocator: `Reserve` of a range across two halves marks the half behind
  the range (`MemoryBuddyAllocator.cpp` 245, `leftAvail` for `rightAvai`).
  `ALIGN_UP` moves an address that is aligned already, so a page costs two
  (`Macros.h` 55). List allocator: unsigned edge cases at
  `MemoryListAllocator.cpp` 99 and 133.
- Address spaces: when no page is left frame 0 is mapped, for every user alike;
  without a frame for a directory `CreateAddressSpace` writes through nullptr, and
  `pageDirUsedCount` is written through a pointer that is never set. The kernel's
  own space is mapped twice, the second time for users. A copy from an address
  without a table reads low memory.
- Interrupts: the common handler acknowledges traps too. It iterates over the map
  of handlers, into which `RegisterIRQ` may insert. Destinations of the IO APIC's
  pins are read from a word nobody writes, because `RegHigh` is no union; the last
  pin is skipped, because the highest index is taken for the number. The clock's
  `SetPeriod` stores one of its two periods twice.
- Start of the processors: `enabled` is not looked at; a wait of 200 µs can end at
  once, because the counter moves in steps of 1800; past 2^32 µs every wait does.
  `FindRSDP` takes the word of the BIOS data area for an address without shifting
  it, and the revision is not looked at before the 64-bit address is used.
- C library: `strtol` ends a number at a 9, by the same fault of the table as
  `library_blanks` shows: 129 is read as 12. `memcmp` of no bytes depends on flags
  from before, `memmove` leaves the direction flag set (`string.h` 360), `strtok`
  with an empty set of delimiters returns NULL. `strtol` of "0x" without digits
  gives back the whole text; `atoi` takes the base from the text; `vsnprintf`
  ignores the size; a `*` takes an argument but is not passed over.

## 6. Plan

1. The spin lock with handlers on the same CPU: a tick between the `xchg` and the
   store of the owner whose handler takes the same lock.
2. Page faults and the page allocator, access by access, with a tick between.
3. Thread stacks: addresses in units of 32 MB modulo 128.
4. ELF regions and Multiboot flags as pure functions.
