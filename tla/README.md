# A verification project for Mikage

Mikage is an emulator of a handheld console.  It interprets the console's ARM
code, re-implements its operating system kernel in C++ (`source/os.cpp`,
`source/os.hpp`), emulates the system services that the kernel's processes
offer to each other (`source/processes/`), and renders what the emulated GPU
draws (`source/video_core/`).  This directory holds TLA+ models of the parts
whose correctness is hard to see from the code and hard to test, TLC
configurations that check them on small instances, and TLAPS proofs of what
matters most.

## 1. Inventory of the system

### The emulated kernel (`source/os.cpp`, `source/os.hpp`)

The kernel is single-threaded C++: `OS::EnterExecutionLoop` resumes the thread
at the front of `ready_queue`, runs it up to its next system call, elapses the
emulated time and performs the call.  What makes it hard is that everything
that looks like concurrency of the emulated programs ends up in lists and weak
references that several functions update on their own.

| Part | State | Operations | What makes it correct |
|---|---|---|---|
| Dispatcher and scheduler | `ready_queue`, `waiting_queue`, `threads`, `Thread::status` | `EnterExecutionLoop`, `Reschedule`, `ElapseTime`, `SwitchToSchedulerFromThread` | the queue holds exactly the ready threads; every timeout ends |
| Synchronisation objects | `ObserverSubject::observers`, `Thread::wait_list`, the state of `Mutex`, `Semaphore`, `Event`, `Timer` | `SVCWaitSynchronizationN`, `OnResourceReady`, `OnResourceAcquired`, the release and signal calls | registration and wait lists agree; no lost wake-up; a locked mutex has a living owner |
| Thread and process life cycle | `Process::threads`, handle table, `Thread::Status`, `Process::Status` | `SVCCreateThread`, `SVCExitThread`, `SVCTerminateProcess`, `TriggerThreadDestruction`, `CloseHandle` | an exited thread stays stopped; the last thread takes the process with it, and every resource is given back |
| Physical memory | `MemoryManager::free`, `taken` | `AllocateBlock`, `DeallocateBlock`, `TransferOwnership` | the blocks partition the region; a range has one owner |
| Virtual memory | `Process::virtual_memory` | `MapVirtualMemory`, `UnmapVirtualMemory`, `FindAvailableVirtualMemory`, `SVCControlMemory` | mappings do not overlap; unmapping removes exactly the range |
| IPC | `Port`, `ServerPort::available_sessions`, `Session`, `CommandReady`, `ClientSession::threads` | `SVCConnectToPort`, `SVCCreateSession`, `SVCAcceptSession`, `SVCSendSyncRequest`, `SVCReplyAndReceive`, `TranslateIPCMessage` | a reply reaches the thread that asked; slots are neither lost nor created; a closed peer is noticed |
| Address arbiter | `Thread::arbitration_address`, `OS::threads` | `SVCArbitrateAddress` | a signal wakes as many threads as asked for, highest priority first |
| Thread-local storage | `TLSManager` | allocation of slots and pages | no two threads share a slot |
| Host coroutines | `ThreadControl` | resume and yield of emulated threads that run on host threads | exactly one side runs |
| HLE processes | `FakePort`, `FakeService`, `FakeProcess` | the service loops | every request is answered once |
| Interrupts and DMA | `bound_interrupts` | `NotifyInterrupt`, `SVCBindInterrupt`, `SVCStartInterprocessDMA` | every bound event is signalled |

### Around the kernel

- **CPU** (`interpreter.cpp`, `arm/`, `arm.h`): decoding and interpreting ARM
  and Thumb instructions; the state is the register file and the flags.
- **Memory bus** (`memory.cpp`, `memory.h`): address decoding, hooks on ranges
  that the renderer caches, I/O registers, LCD and GPU register files.
- **GPU** (`video_core/`): the command processor, primitive assembly, clipper,
  vertex and geometry shaders (interpreter, GLSL back end), the software
  rasterizer and the Vulkan renderer with its resource manager and pipeline
  cache; `pica.cpp`, `display.cpp` connect it with the kernel and the host.
- **HLE services** (`processes/`): FS and its PXI counterpart, PXI, NS, AM,
  HID, I2C, MCU, GPIO, DSP, CSND, CAM, PTM, CFG, FRIEND, NWM, HTTP, SSL ...
- **Hypervisor and debugging** (`os_hypervisor*.cpp`, `*_hpv.cpp`,
  `gdb_stub.cpp`, `debug_server.cpp`, `os_console.cpp`, `debug/`): observers of
  the IPC traffic, the GDB remote protocol, a telnet console.
- **Loading** (`loader/`, `platform/file_formats/`, `ui/installer.cpp`): game
  card images, NCCH/CIA containers, bootstrapping of the virtual NAND.
- **Host side** (`gui-sdl/`, `session.cpp`, `settings.cpp`, `input.cpp`,
  `framework/`, `utility/`): windowing, input, configuration, serialisation,
  bit fields, logging.
- **Vendored** (`video_core/externals/nihstro`): a shader assembler, not part
  of this project.

### How the parts interact

The interpreter runs a thread until a system call; the kernel changes queues
and objects and picks the next thread.  Services are kernel processes that
receive requests through sessions, so every service call is two system calls
of two processes and two scheduler decisions.  The GPU is told by a kernel
service (GSP) and answers with interrupts, which signal events.  All of these
share `OnResourceReady`: every wake-up of the system goes through its loop.

### What is hard about it

Interleavings of emulated threads at system calls; waits on several objects,
some of which become ready while others are still being tried; timeouts that
race with wake-ups; entries of `waiting_queue` and `threads` that outlive what
they were made for; threads and processes that end while others wait for them,
while they hold locks or while a request is being answered; block splitting
and merging; counters of sessions; and emulated time, which one system call
advances without telling anyone.  `PROJECT.json` lists them with their lines.

## 2. Plan and state of it

The kernel came first, because every other part of the emulator runs on its
scheduler; then the resources it hands out; then what runs on top of it.

| | Modules | What they model | State |
|---|---|---|---|
| 1 | `Kernel` | dispatcher, timeouts, synchronisation objects, thread life cycle | checked and proved (`KernelProofs`) |
| 2 | `PhysicalMemory`, `MemoryManager` | the allocator, and the abstract map from pages to owners that it implements | checked and proved (`MemoryManagerProofs`) |
| 3 | `Sessions`, `Messages` | ports, sessions, requests and replies; the words of a command and their translation | checked; `Sessions` proved (`SessionsProofs`) |
| 4 | `AddressSpace` | virtual memory of a process, page table of the processor, hooks | checked and proved (`AddressSpaceProofs`) |
| 5 | `Processes` | code sets, handle tables, shared memory, termination, TLS slots, on the physical memory of `PhysicalMemory` | checked |
| 6 | `Arbiter` | `SVCArbitrateAddress` and the programs it is made for | checked and proved (`SystemProofs`) |
| 7 | `Arm` | the interpreter's handlers, slices and exclusive accesses | checked |
| 8 | `Debugger`, `Packets` | the handshake of the GDB stub with the core; its packet protocol | checked and proved (`DebuggerProofs`, `PacketsProofs`) |
| 9 | `CommandProcessor`, `Shader`, `ShaderArithmetic`, `Rasterizer`, `Fragment` | the GPU from a command list to a pixel, in every engine and both renderers | checked |
| 10 | `ResourceManager` | the renderer's copies of memory and the hooks of the bus | checked |
| 11 | `FileSystem`, `Pxi`, `Dsp`, `Hypervisor` | the services with state of their own, and the observer of their traffic | checked; `Dsp` proved (`SystemProofs`) |
| 12 | `Images`, `Titles` | containers, converted programs, installation | checked |

`Lists` has the operation on lists of threads that `Kernel`, `Arbiter` and `Packets`
share, and `ListLemmas` what all proofs about lists and searches share.

Next: that an `AddressSpace` without hooks allows everything that a map from
pages to pages allows, as a refinement.  Then a second server thread and exiting clients in
`Sessions`, and the services that are listed as not modelled in section 7.

## 3. The modules and the code

### Kernel

`Kernel` models `EnterExecutionLoop` and everything below it.  A step is one
iteration of one loop of the code: `todo` is the stack of what is still to be
done in the current dispatcher iteration, so `OnResourceReady` can be
interrupted between two observers only by what its own body calls, as in the
code.

| Code | Model |
|---|---|
| `Thread::status`, `wait_list`, `wait_for_all`, `timeout_at`, `promised_result` | `status`, `waitList`, `waitForAll`, `timeoutAt`, `result` |
| `ObserverSubject::observers` | `observers` |
| `Mutex`, `Semaphore`, `Event`, `Timer` | `owner` and `lockCount`, `available`, `signalled`, `timerAt` and `period` |
| `OS::ready_queue`, `waiting_queue` | `readyQueue`, `waitingQueue` |
| handle table, `Process::threads` | `open`, `listed` |
| `EnterExecutionLoop` | `Dispatch`, `Idle`, and `todo` |
| `OnResourceReady`, `OnResourceAcquired` | `NotifyNext`, `NotifyStop`, `NotifyDone`, `Wake` |
| `ElapseTime` | `Elapse`, `Timers`, `Interrupt`, `Expire`, `Drop` |
| `Reschedule` | `Rotate` |
| `SVCExitThread`, `TriggerThreadDestruction` | `SVCExitThread`, `Leave` |

Time is relative: `timeoutAt` counts the units of 500 ns that are left, so the
state space is finite although the clock is not bounded.  A failed assertion or
an exception is a value of `fault`, after which nothing happens any more.
`Erased` (`remove_if` of the ready queue) is a recursive function over the
positions of the queue, and so are `ReadyPrefix` and `Released` of `Sessions`
and the search of `AddressSpace`: such a function can be reasoned about, which
a recursive operator cannot.

### PhysicalMemory and MemoryManager

`MemoryManager` keeps the two maps of the code as sets of blocks.  An operation
takes blocks apart and then runs the two merging loops, one merge a step, with
`phase` saying which loop is running.  `WindDown`, `WindDownBlock` and
`DestroyOwner` are the part of `TriggerThreadDestruction` that gives the blocks
of a process back before its owner goes away.  `PhysicalMemory` is what the
allocator promises: a function from pages to owners, first fit for requests,
and operations that change the owner of exactly the given pages.  `PageOwner`
maps the former to the latter.

### Sessions

A client process with several threads, one port, one server thread.  A system
call is one step; the callbacks that run when a thread is scheduled again are
steps of their own (`SendSyncRequestContinuation`, `Woken`).  Handles
(`handles`, `moved`), the `weak_ptr`s to either end of a session (`ClientAlive`,
`accepted`), the counter of commands (`pending`), the list of threads that the
server answers (`threads`) and the list of threads that it wakes (`observers`)
are kept apart, as the code keeps them apart.  `IsFakePort` selects the server:
`FakePort::Run`, or a system module that closes what its clients left.  `Serve`
may create a session and send its client end with the reply.

### AddressSpace

Addresses are counted in pages.  `vm` is `Process::virtual_memory`, a function
from the first page of a mapping; `physical`, `virtual` and `host` are the three
tables of `PageTable`; `pages` is a history variable with what the calls so far
should have made of them.  A recursion of `UnmapVirtualMemory` is a step; the
map it leaves is the union (`Merged`) of what is before, beside and beyond the
cut.  `FindAvailableVirtualMemory` moves its candidate past one mapping after
the other, in the order of their addresses.
`SetHook` and `ClearHook` stand for the first and the last hook of a physical
page, which are the ones the processor is told of.

### Processes and Arbiter

`Processes` is the life of processes and threads in one record `os`.  Objects
of the code are shared pointers, so use counts and ends of life are derived
from who refers to an object instead of being kept; a system call is one step
together with the destruction of the threads that it stops.  The physical
memory underneath is a map from pages to owners, which is what
`MemoryManagerProofs` proves the allocator to be.

`Arbiter` has the ready queue, the list of all threads (with created threads
in it twice, as in the code), and programs as they use the call: they open and
close a gate or put and take tokens, and signal one waiter or all.

### Messages

The command buffer of a client is written, translated by the kernel, read by
the server, and back.  Descriptors, headers, the table of static buffers, the
physical pieces of PXI buffers and mapped ranges are words and byte addresses
with pages of four bytes; every kind of tag of `ipc.hpp` occurs.

### Arm

The handlers of ARM, Thumb and VFP instructions over words of `WordBits` bits,
as functions of an execution context that run small programs.  The patterns
that select a handler are left out; the fields a handler reads are kept.
Several threads share the memory, are preempted after any instruction of their
slice, and use LDREX and STREX with a monitor of their own.

### Debugger and Packets

`Debugger` is the three flags that the network thread and the emulation thread
spin on, with every access a step.  `Packets` is what the stub answers to a
stopped program's debugger, with a packet a step: threads that were selected
may have ended when the program stops again.

### The GPU

`CommandProcessor` iterates over command lists whose handlers take words
themselves, jump to other lists, upload shaders and uniforms, load vertices and
assemble triangles.  `Shader` runs one program in the interpreter, in the
recompiled micro code and as GLSL text; its data is the history of what was
computed, so that two runs agree only if they took the same way.
`ShaderArithmetic` compares the operands of single instructions in the three.
`ShaderPrograms` enumerates programs.  `Rasterizer` clips in exact homogeneous
integers and fills in fixed-point numbers; `Fragment` has the combiner stages,
the tests and the blend of both renderers and the cache of pipelines.
`ResourceManager` reduces contents to who holds the newest one of a cell.
`MCGraphics` puts the parts next to each other; one of them runs in a behaviour.

### Services

`FileSystem` is the fs module over a tree of inodes of the host, with the
service's two parallel lists of handles and sessions.  `Pxi` is the process
behind it: sections of encrypted containers, with cells that carry key and
counter, and streams that hold back the last write.  `Dsp` is a ring of bytes
with cursors and the service that works on a copy of its header.  `Hypervisor`
keeps its own object for every handle of every process.  `Images` measures
containers in cells and patches relocations; `Titles` installs files that are
`Partial` until they are closed, with runs that may be killed at any time.
`MCSystem` puts them and `Processes`, `Messages`, `Arbiter` and `Packets` next
to each other; one of them runs in a behaviour, as they share no state.  It
extends `Arbiter`, `Packets` and `Dsp`, which keep variables of their own that
stand still while another part runs, so that the run checks what their proofs
state.

## 4. What is checked

| Run | Instance | What it shows |
|---|---|---|
| `kernel_wait` | two threads, a mutex that may be listed twice, an event, waits for any and for all, timeouts that may be satisfied early, exits and destroyed threads | whomever an entry that is left in `waiting_queue` wakes, the lists of observers, the wait lists and the ready queue agree (`ListsConsistent`), and nobody sleeps on an object that it could have |
| `kernel_exit` | three threads, one of them created later, that join each other, exit, and close handles; a mutex locked up to twice | exiting releases mutexes and wakes the waiters, no assertion fails; without timed waits an exited thread stays stopped |
| `kernel_timers` | a pulse timer, a semaphore, an interrupt event, sleeps | every timed wait and every sleep ends |
| `kernel_stopped` (violation) | two threads, timed waits, exits | an outlived entry of `waiting_queue` makes an exited thread ready again |
| `memory_manager` | five units, two owners, sizes 1 to 3 | blocks partition the region, are merged when idle, have living owners; the allocator implements `PhysicalMemory` |
| `sessions` | three clients, two sessions | slots are conserved, each request is read once and answered to its sender, no wake-up is lost, requests end, closed sessions are given back |
| `address_space` | four virtual and three physical pages, ranges of up to three pages | the map and both directions of the page table are what the calls demand, the search finds the first free range, exactly the pages without a hook are on the fast path |
| `address_space_gaps` (violation) | the same, ranges that are not fully mapped | unmapping removes pages behind the range |
| `processor` | programs on words of eight bits, from all combinations of corner values | what an instruction leaves in registers, flags and memory is what the architecture says, apart from eleven programs whose handlers are wrong (`Deviating`, section 6); calls return in the right instruction set, increments with exclusive accesses are not lost and end |
| `debugger` | two debugged threads and one other, breakpoints, attaching before and after the start | what GDB takes to be stopped is held; its commands return, except a step that overtakes the core and one whose notification is lost (section 6) |
| `graphics` | lists of a few commands, all shaders of seven instructions with two scopes, single instructions, pairs of triangles, register sets, six cells of memory | `ListsTaken`, `DrawsCurrent`, `EnginesAgree`, `CopiesCoherent`, `TrianglesRight`, `PixelsAgree` |
| `system` | see the comments of `MCSystem` | `MemoryAccounted`, `SessionsServed`, `CommandsDelivered`, `SectionsServed`, `ObserverRight`, `PipesServed`, `TitlesRight`, `WaitersServed`, `InspectionRight` |

The properties of `graphics` and `system`, in words:

- `ListsTaken`: the words of a list are taken in order, each once and by the
  handler of its register; uploads of several words end up as if every word were
  handled by itself; as many vertices are submitted as announced; triangles have
  the vertices and the winding of their topology.  A partial upload of a uniform
  takes the commands after it, and a lone word is announced as a vertex and never
  submitted: the lists contain both, and section 6 says why.
- `DrawsCurrent`: a draw never uses an engine of another program.
- `EnginesAgree`: interpreter, micro code and GLSL take the same way, leave all
  scopes and use the same operands.
- `CopiesCoherent`: hooks are exactly where copies need them, and whoever reads
  gets the newest contents.
- `TrianglesRight`: two triangles at one edge draw every pixel once; what is
  clipped lies inside of the view volume and keeps its winding.
- `PixelsAgree`: the rasterizer and the generated pipeline leave the same pixel.
- `MemoryAccounted`: a page in use belongs to something that exists, and no two
  threads share a slot of thread-local storage.
- `SessionsServed`: a request reaches the file its session was opened for; a
  file is kept from use exactly while a sub file of it is open.
- `CommandsDelivered`: arguments and results arrive as they were sent, and a
  command leaves each side the handles and buffers it is meant to have.
- `SectionsServed`: a handle for a section reads its plain contents; a save
  keeps every write through one handle.
- `ObserverRight`: the hypervisor knows every session by what it was opened for.
- `PipesServed`: a pipe is a queue, and no announcement is lost.
- `TitlesRight`: a converted program is what its headers promise; a title boots
  what its last installation brought, whatever was killed or refused before.
- `WaitersServed`: nobody sleeps at an open gate or beside free tokens.
- `InspectionRight`: GDB and the stub mean the same thread after every stop.

### Bounds

- `MaxLock` bounds the recursion of a mutex: 2 tells a recursive lock from a
  simple one.  `MaxWaiting` bounds `waiting_queue`: 2 lets an outlived entry and
  a current one of the same thread coexist.  Timeouts of 1 and 3 units against
  a step of 1 let a timeout fall before, at and after a wake-up.  `IdleTicks`
  and `SystemTicks` are larger than every timeout, as in the code.
- Three threads, in `kernel_exit`, are what two waiters on one object and a
  releaser need.
- `RegionSize` 5 with sizes 1 to 3 leaves room for a block with two neighbours
  and a rest; `RegionStart` is not zero, so that addresses and offsets differ.
- Two sessions are the maximum of the port with three clients, so that slots
  run out, threads share a session, and a session is opened again after it was
  closed.
- A range of three pages can be cut in the middle, which leaves two mappings; a
  fourth virtual page leaves one to move things to.

- Words of eight bits have bytes of two and half words of four, so that every
  extraction, extension and carry still has a boundary; three threads can take
  a monitor in turn.
- Shaders of seven instructions hold two scopes one inside of or after the
  other, with something before, between and behind them.
- Triangles lie on a grid of quarters of a pixel, clipped ones in a set of
  eleven vertices on both sides of every plane.
- Six pages, three processes, two handles and two threads each let every
  object outlive whoever made it.  Two requests after a session has ended are
  what a stale handle needs (`MaxRequests` 3).  A pipe of five bytes is
  crossed by a transfer of four.  Two runs of the installer are a killed one
  and the next (`MaxRuns`).  The other bounds are commented where `MCSystem`
  sets them.

Deadlock is checked in the runs of `Kernel`, `MemoryManager`, `AddressSpace` and `Arm`.
It is not in `sessions`, where three clients may hold all slots and wait for one
more and no call of the code gives up; nor where work ends (`graphics`,
`system`) or the debugger may fall silent (`debugger`).

### Fairness

`Kernel`: the dispatcher is a loop that never waits (weak fairness of its
steps), programs keep making system calls, and emulated code uses up cycles
(strong fairness of the dispatch before which the time advances): the loop adds
the cycles of every slice to the clock.  `Sessions`: the dispatcher rotates its
queue, so the server and every thread inside a request take their steps; what
clients do between requests is not assumed.  `RequestsAnswered` speaks of
behaviours in which at most one other client is busy for ever: the server tries
its handles in a fixed order, and with three clients TLC shows that two of them
starve the third.  `ClosedSessionsEnd` for the same reason speaks of behaviours
in which the clients fall silent.  `Debugger`: both
host threads run (weak fairness of their steps), and the emulated programs keep
executing, so every thread that may run gets its slices again (strong fairness).
The debugger's next command may come at any time, so `CommandsReturn` names the
two states in which one hangs: the notification was lost, or a step waits for a
core that waits for the stub (section 6).

## 5. What is proved

Everything here holds for every value of the constants, from the assumptions
that the modules declare (`KernelAssumption`, `MemoryManagerAssumption`,
`SessionsAssumption`, `AddressSpaceAssumption`, `ArbiterAssumption`,
`PacketsAssumption`, `DspAssumption`; `Debugger` needs none): any number of
threads, objects, clients, sessions, pages, blocks, registers and bytes, and
pipes of any size.  Where a run
checks the same property, it does so on the small instance of section 4.

| Property | Theorem | What else has to hold |
|---|---|---|
| `ListsConsistent` | `KernelProofs!ListsHold` | |
| five of the `ValidateContract`s on the kernel's lists | `KernelProofs!BookkeepingHolds` | |
| `NoLostWakeup` | `KernelProofs!NoWakeupLost` | |
| `MutexOwnerLives` | `KernelProofs!MutexOwnersLive` | |
| `AssertionsHold` | `KernelProofs!AssertionsNeverFail` | no thread exits, or no wait has a timeout |
| `StoppedIsFinal` | `KernelProofs!StoppedThreadsStay` | no wait has a timeout (`kernel_stopped` violates it then) |
| `TryAcquireImpl` meets no mutex of a destroyed thread | `KernelProofs!OwnersNotDestroyed` | |
| `TypeOK`, `Partition`, `Coalesced`, `OwnersExist` | `MemoryManagerProofs` | |
| `Implements` | `MemoryManagerProofs!Refinement` | |
| `SlotsConserved`, `ExchangeOK`, `SessionWakeups` | `SessionsProofs` | |
| `WaitersServed` | `SystemProofs!WaitersServedHolds` | no two processes keep tokens at one address (`TokensApart`) |
| its parts `GatesOpen` and `QueuesRight` | `SystemProofs!GatesHold`, `QueuesAreRight` | |
| `FindsFirst`, `NoOverlap` | `AddressSpaceProofs` | |
| `Translates` | `AddressSpaceProofs!TranslationIsExact` | no program unmaps a range with gaps (`address_space_gaps` violates it then) |
| `PageTableRight` | `AddressSpaceProofs!PageTableIsExact` | every physical page is mapped once (section 6) |
| `StoppedMeansHeld` | `DebuggerProofs!StoppedHolds` | |
| no step runs what GDB takes to be stopped | `DebuggerProofs!StoppedFrozen` | |
| assertions of `vAttach` and `RequestStep` | `DebuggerProofs!StepAssertionsHold` | |
| `InspectionRight` | `PacketsProofs!InspectionHolds` | |
| `PipesServed` | `SystemProofs!PipesAreServed` | the signal processor behaves as the header of `Dsp` says |

Every proof module has the types of its component as `TypeCorrect` (of `Dsp` as
`DspTypeCorrect`).  None of
the other properties is inductive; the arguments are these.

**Memory manager.**  `Partition` says only that the blocks cover the region
without overlap in terms of cells, and `Coalesced` only speaks of the idle
state.  `Inv` joins to the type invariant that every taken block has a living
owner (`DeallocateBlock` relies on `lock()` giving it), what each merging loop
has established so far (`LoopInv`), and `Tiles`, which states the partition
with the end points of the blocks.  Two lemmas carry it: replacing a block by
blocks that tile it keeps a tiling (`SplitTiles`), and so does joining two
adjacent blocks (`MergeTiles`); every operation is one of the two.  The
refinement needs one more fact: when the allocator is idle, a range whose pages
all belong to one owner lies within one block (`OneBlock`).  That is where
`Coalesced` is used, and it is why `DeallocateBlock` may look at a single block.

**Kernel.**  The lists of the kernel agree only between two dispatcher
iterations.  Within one, `Control` says for every thread which of the tasks on
`todo` still has to repair its lists: all threads are consistent (`Agree`)
except the one that is about to be woken, or whose wait list is being emptied.
`GoodTask` and `Rests` say what can be on the stack at all: what is left of a
system call belongs to the running thread, and a wake-up is only ever on top.
With `ReadyInv`, `MutexInv` and `RegistrationConsistent` this is inductive, and
five of the contracts of the kernel follow (`Bookkeeping`).

`NoLostWakeup` needs four more facts (`WakeupInv`): a thread that could acquire
an object it is registered with is either being taken care of or the object
still has a `notify` on the stack (`Served`); a thread waits for a mutex of its
own only if it was registered with it several times, and is next to get it then
(`OwnWait`), for which its entries have to stand together (`Contiguous`); and
the loop over a wait list has passed only what it could not have (`Tried`).
`MutexOwnerLives` needs that the loop of `ExitThread` over the mutexes has still
to come to every mutex that the thread owns (`GivesUp`): a mutex that it has
already given up cannot come back to it, although waiters acquire mutexes in
the middle of that loop.

The assertions on what the dispatcher finds need `ThreadInv`.  A thread that has
been created is listed by its process until it ends, and nobody waits, owns or
is woken before (`LifeInv`).  The mutexes that a pending `notify` or the loop of
a wait will look at are in the handle table, or their owners have not ended and
are not about to (`ReachInv`); with `OwnersLive`, the owner of a locked mutex is
there when `TryAcquireImpl` asks for it, also after the handle of the mutex has
been closed.  Without timeouts, `waiting_queue` holds nobody but the threads that
`SVCSleepThread` put there, once each, so that a thread that has ended is never
woken again (`FinalInv`); without exits there is no such thread (`NoneEnded`).
Either makes the front of `ready_queue` a living thread.

**Sessions.**  What the module promises about slots, wake-ups and answers rests
on each other: the server finds a request when a command wakes it because
announced commands are counted (`CountInv`); the count is right because a
thread stands in the list of its session exactly while its request is
unanswered (`ListsInv`); it stays right over a reply because the server answers
the thread whose request it has read (`ServingInv`).  A client that closes a
session on which another of its threads spins ends the emulation in the middle
of that thread's call, so that the counts are claimed only without a fault.

**Arbiter.**  `GatesOpen` and `QueuesRight` are inductive together with
`ThreadsRight`: a thread that sleeps found the word too low in the very step in
which it fell asleep, and it is in the list of all threads, so that a signal for
all reaches it; who waits for other reasons at the same address may be woken
too, and only tries again.  `TokensReach` is not inductive, because the minimum
in it forgets tokens while few threads wait.  `TokensCovered` is: as long as any
thread of the process sleeps, at least as many are awake as there are tokens.
Putting a token makes its thread one that signals; a signal for one moves a
thread from asleep to awake and lets the signaller go back to its loop, also if
the woken one is in the list twice; and taking a token lowers both sides.  The
middle of these needs `TokensApart`.  Without it, TLC finds a process that
signals for its token and wakes the thread of another process whose word has
the same virtual address; the waiter of its own sleeps on beside the token.

**Address space.**  `GoodMap` says that the mappings follow each other, and
is kept by every recursion, also over gaps.  From it, a page is translated by
the one mapping that covers it, the tests of `MapVirtualMemory` see all that is
in the way, and the search (`SearchInv`: the candidate is behind all mappings
that it has passed, and every earlier address has one in its way) finds the
first free range.  `Agree` relates the map, in the middle of a system call, to
what the calls so far demand: it is `pages` before the calls that are left
(`AfterAll`).  For the page table, `Claim` adds that the pages about to be
mapped have no hook and are mapped at most where the unmapping before removes
them; that makes the virtual address that `PageTable::Remove` forgets the only
one of its page.

**Debugger.**  `request_continue` is set exactly while the stub is between two
points of `RequestContinue` or `RequestStep` (`Handshake`), and the core gives
up `paused` only when it sees that flag (`PausedPoints`).  So `paused`, once it
is set, stays until the stub asks for it, and the core waits at "noticed" for
the flag to be taken back, which is why a second pause is never mistaken for
the end of the first.

**Packets.**  A packet moves nothing while GDB waits for its answer, so the
threads that GDB has been told of since the stop exist, and with them the one
that the stub looks up (`Known`); what ran before the stop may have ended any
thread that was selected, which is why `ReportSignal` has to replace the entry
of 'g'.  An answer is right about the thread that the stub looks up before and
after the packet (`TargetStays`).  For 'X', `DecodedEncoded` shows that the loop
over escaped bytes takes out what GDB put in, for data of any length: the n-th
piece of the text begins where the escapes before it have moved `start`
(`EscapesCounted`, from what `FlattenSeq` does to a sequence of pieces).

**Dsp.**  `PipesServed` compares a read of everything with what was sent, which
is not inductive: it says nothing of where the bytes lie.  `PipesHold` does: the
i-th byte that is under way lies at the i-th place from the cursor of the reader
on (`Place`), and there are as many as the cursors are apart.  A write goes to
places where nothing is under way, whichever way the iterations differ
(`WritePlaces`), a read takes the first (`ReadPlaces`); each loop runs at most
twice, since a chunk that ends at the wrap leaves the cursor at zero, from where
the rest is in one piece (`WriteChunkLast`, `ReadChunksRight`).  That the service
stores both cursors back is harmless as the signal processor does not run between
the last load and the store.  For announcements, `WordFirst` says that handlers
are there whenever the signal processor may announce, and that the half that the
service has noted is always the word; the semaphore then finds it.

Recursive functions (`Erased`, `FlattenSeq`, `EscapesBefore`, the search) are reasoned about
through the set of positions up to which the function exists and has the
property in question; `UpTo` in `ListLemmas` is the induction over them, with
the set in the place of a predicate.

### What stays with TLC

- Liveness (`TimeoutsEnd`, `RequestsAnswered`, `ClosedSessionsEnd`,
  `CommandsReturn`): fairness and ENABLED are out of reach of the proof system.
- `AssertionsHold` of `Kernel` for programs with timed waits and exits.  It is
  false in general: on the instance of `kernel_stopped`, the entry that a wait
  has left in `waiting_queue` makes an ended thread ready and the dispatcher
  resumes it.  So `kernel_exit`, which checks it, has no timeouts.
- The invariants of `processor`, `graphics` and, apart from `WaitersServed`,
  `InspectionRight` and `PipesServed`, `system`.  Their modules compute with
  recursive operators or `Bitwise`, or check an algorithm as a function over
  enumerated inputs, and what a recursive definition computes for every input
  takes an induction over data.

## 6. Disagreements between the code and what it says

With a run that shows them:

- `kernel_stopped`: `Thread::Status` says that a stopped thread awaits its
  destruction; `ElapseTime` makes it ready again if an entry of a wait that
  ended early is still in `waiting_queue`.
- `address_space_gaps`: `UnmapVirtualMemory` unmaps "the given virtual memory
  range", and more than it if the range begins before the first mapping.

Seen while modelling.  The modules translate the code as it is; where a
deviation would break a property, the property or the inputs leave it out, and
the place says so.

Kernel and memory:
- `Reschedule(thread)` rotates whatever is at the front of `ready_queue`.
- `ClientSession::SetReady` promises to release the first waiting thread;
  threads are answered in one order and woken in another.  `FakePort::Run`
  ignores the error that tells it to close a session.
- `PageTable::Remove` forgets the other addresses of a physical page; operation
  6 of `SVCControlProcessMemory` remaps a range from the physical address of
  its first page; a page that is mapped after it was hooked is on the fast path.
- The arbiter wakes the largest priority value first, against its comments; a
  signal for two may count one thread, which is listed twice, two times; a
  thread of another process at the same virtual address can take a signal.
- Pages of a shared block stay mapped after its last handle is closed;
  terminating a created process without threads takes the front of an empty
  list; a code set may come with a bss of size zero.
- The capacity check of PXI buffers never counts the entries already written,
  and the bound of `PXIBuffer::LookupAddress` lets one offset too many pass.

Processor and debugger:
- A notification of `TryAccess` before `AwaitProcessing` waits is lost; a step
  that is requested before the core has reached its hold loop does not return;
  `CommandsReturn` has exactly these two exceptions;
  breakpoints are queued and never reported; a packet with a wrong checksum is
  refused and yet executed; 'T' looks for the process twice and never for the
  thread; 'g' without an accepted 'H' before it throws.
- `HandlerSmulxx` and `HandlerSmlaxx` keep the shift of the second operand in a
  `bool`, so the top half is the word shifted by one bit (interpreter.cpp:1031,
  1133).  `HandlerUadd8`, `HandlerUhadd8` and `HandlerXsub8` cut every lane but
  the lowest to nothing (or a bit) before it is moved; `HandlerXsub8` writes
  every comparison to GE0; `HandlerUqadd8` wraps before it saturates;
  `HandlerQsub8` compares as if bytes had no sign, and answers zero or the wrapped
  difference; `HandlerPkhtb` lets a shifted
  sign into the upper half.  The programs for these (`Deviating` in `MCArm`) run,
  but nothing is claimed of their results.  The packing instructions write Rd
  before they read their last operand; no program uses one register for both.

Graphics:
- The recompiler takes seven bits for the operand descriptor of MADI; GLSL
  takes the first enabled component for RCP and RSQ; two scopes that end
  together, or with a CALL, make the engines differ (`Tame`).
- The hash of a shader leaves out swizzles, integer uniforms and the entry
  point; the hash of a pipeline leaves out the colour mask.
- The check for a partial upload of a uniform asks for an id below 0x2c1 and
  above 0x2c8 at once (command_processor.cpp:586), so the upload takes whatever
  commands follow as its data, interrupts and jumps included, and at the end of
  the list its last word.  A single word of immediate data with none after it is
  announced as a vertex, and neither submitted nor refused.
- A fan gets a triangle at its second vertex.  An empty secondary list keeps
  the old command.  A display transfer of size zero raises no interrupt.
- A texture that is configured anew stays tracked; a partial invalidation
  drops newer contents; depth targets are not written back by a flush.
- The renderers differ in some combiner and logic operations and in whether
  depth is written without a depth test.  The fill rule draws a pixel twice in
  triangles thinner than a step of the fixed-point numbers.

Services and titles:
- The fs module drops the error of a read from a closed file, grows extdata
  files that its comment says have a fixed size, and keeps the files of an
  archive that it formats.  `FileSaveData::SetSize` does not flush the zeroes it
  appends: a second object for the file, opened before the first reads, writes,
  grows again or ends, measures the shorter file and keeps that size.
  `FileSystem` holds the zeroes back (`held`), assumes that they fit into the
  buffer of the stream, and `SizesRight` compares a size with what the file has
  once the object's own stream is written.
- A save that is resized while a write is buffered gets that write back beyond
  its new end; two handles on one save do not see each other's writes; an
  unencrypted title without a RomFS cannot be opened, though a comment says
  that the loader always does.
- The hypervisor forgets an archive when its closing is requested, whether or
  not the server agrees; `DspService` reads a state before it is set.
- The DSP service tests bit 15 of a register for being equal to 1, so it
  overwrites a pending word; a read of more than a pipe holds never returns.
- `InstallCIA` tests the content mask with a remainder that refuses every
  eighth content, and compares the hash of the wrong bytes from the second
  group on.  `3dsx_to_cia` writes its mask over the certificates and cannot
  read its own files; relative relocations subtract a count of words.  A
  bootstrap empties `placeholder_logo.bin` before it knows that it has a logo.

## 7. What is not modelled

Within the modelled parts: thread priorities outside of the arbiter (the
dispatcher does not look at them), client threads that are destroyed in the
middle of a request, several server threads on one session, addresses near the
end of the 32-bit range, the wrap of the handle counter, coprocessor registers
other than the thread's, floating-point arithmetic (TLC has integers only), the
lighting of fragments and the decoding of texture formats, paths that leave
their archive, contents of files in `FileSystem`.

Not at all: the services that answer with constants or only log (CAM, CSND,
FRIEND, NWM, HTTP, SSL, PTM, CFG and others), the applet states of NS, I2C, MCU
and GPIO registers; host threads as an alternative to the coroutines that the
build selects; the decoding of system call registers, resource limits and DMA;
the display and its windows, input, configuration, logging, the telnet console;
the serialisation framework and the bit fields; driver calls of Vulkan; and the
vendored shader assembler.  `PROJECT.json` lists every part with its reason.
