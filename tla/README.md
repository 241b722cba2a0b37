# Niski: a verification project

Niski is a small computer: a RISC-V processor with its bus and devices for an
FPGA (`src/Hardware`) and an operating system for it (`src/Software`): a
preemptive thread kernel, drivers and a C library. This directory holds a
TLA+ model of its core logic, the TLC configurations that check it on small
instances, and theorems about it that TLAPS checks for every instance.

Run, in this directory, `tlc -config X.cfg M` for a run of `PROJECT.json`, and
`tlapm M.tla` for the proofs, with M one of `KernelProofs`, `MutexProofs`,
`SignalProofs`, `InterruptProofs`, `HeapProofs`, `ThreadLocalProofs`, `BusProofs` and
`LibraryProofs`.

## 1. Inventory

| Component | Source | State | Operations | Status |
|---|---|---|---|---|
| Scheduler and dispatch | `kernel/sync/scheduler.c`, `thread.c` | the ready list (two static pointers), `kthread_current`, the fields of every `struct kthread` | enqueue, dequeue, create, dispatch, stop, destroy | modelled |
| Mutexes | `kernel/sync/mutex.c` | owner, recursive count, queue of waiters | init, lock, try_lock, unlock, destroy | modelled |
| Conditions | `kernel/sync/condition.c` | queue of sleepers | init, wait, signal, signal_all, destroy | modelled |
| System calls | `kernel/exceptions/syscalls.c` | none of their own | the table at 332-366 | partly: thread, mutex, condition, signal, memory and storage calls |
| Traps | `kernel/trap.S`, `exceptions/handler.c`, `entry.S`, `init.c` | the saved context | system call, fault, timer, external interrupt, idle loop | partly: timer, system call, fault, buttons, idle loop, boot |
| Signals | `kernel/signals.c` | ring of 10 pending signals, handlers, one processor thread | send, handle, the processor's loop | modelled |
| Interrupt path | `Hardware/CPU/CSRs.v`, `Devices/PLIC`, `external_interrupts.c` | pending bits, enables, claim | raise, claim, handle, clear | partly: register writes left out |
| Bus | `Hardware/Bus`, `CPU/BusInterface.v`, `Memory/BusInterface.sv`, `RAM.sv`, `ROM.sv` | grants, handshakes, watchdog counter, the memories' output registers | request, grant, answer, stop | modelled |
| DMA | `Hardware/Devices/DMA`, `devices/dma.c` | addresses, count, steps, state | program, start, copy a byte, stop | modelled |
| Kernel heap | `mem_alloc/heap_allocator.c` | doubly linked free list in the heap's own headers | init, alloc, dealloc, try_expand | modelled |
| Thread-local storage | `sync/thread_local.c`, `thread.c:101-120` | every datum is on two doubly linked lists | create, get, set, destroy, end of a thread | modelled |
| Library algorithms | `std/stdlib`, `std/string` | `strtok`'s static pointer; an `errno` for each file and thread | `strtol` and its kin, `bsearch`, `strtok`, string and memory functions | partly: those that compute at the limits of a type or keep state |
| Datapath | `Hardware/CPU` | PC, registers, state of the control unit | fetch, execute, access, trap | partly: its control, in `BusSystem` and `InterruptSystem` |
| Buddy, slab, cache | `mem_alloc/*_allocator.c` | free lists, slabs | alloc, dealloc | not modelled (see 6) |
| Library wrappers, devices, clocks, board | the rest of `std`, of the drivers, of `src/Hardware` | data | register transfers, formatting, pins | not modelled (see 6) |

How they interact: user programs run with interrupts enabled and enter the
kernel by `ecall`; `trap.S` saves the context of `kthread_current`, calls
`exception_handler` with interrupts masked and returns to whatever
`kthread_current` then is. The system calls compose the functions of
`thread.c`, `mutex.c` and `condition.c`, which share two pieces of state: the
ready list and the one `next` link of each thread, which the ready list, the
mutexes and the conditions all use. Faults and button interrupts reach user
code through `ksignal_send` and the signal processor, a thread the kernel creates that
runs in user mode: it sleeps on a condition, and the sender that wakes it locks its
mutex for it. Every object lives in the kernel heap. The DMA fills the thread-local block of a new thread over the bus
it shares with the processor.

Hard parts: a thread can lose the processor between any two instructions of user
code, and for its own reasons at every blocking call; one link serves many lists;
wake-ups pass a mutex directly to a waiter; conditions lock mutexes on behalf of
threads that are not running; the signal processor checks and sleeps with interrupts
on; interrupts are edge triggered; the bus has two masters that know nothing of each
other, memories that answer from registers, and a watchdog that stops either; the
allocator writes headers next to its users' data; thread-local data are on two lists
at once. `PROJECT.json` lists the hazards one by one with the property that watches
each.

## 2. Modules

| Module | What it is |
|---|---|
| `Kernel` | the C functions of `scheduler.c`, `thread.c`, `mutex.c`, `condition.c`, as operators from the kernel's memory to the memory they leave |
| `MutexSystem` | the system: variables, one action per system call and interrupt, users, fairness, properties |
| `Monitor` | the abstract specification: sequences, no pointers |
| `MutexRefinement` | the linked lists read as sequences; `ImplementsMonitor` |
| `CondSystem` | `MutexSystem` plus the condition calls |
| `KernelInvariant` | what it means for the kernel's queues to be in order |
| `KernelProofs` | lemmas: what each C function of `Kernel` does to the queues |
| `MutexInvariant`, `CondInvariant` | the inductive invariants of `MutexSystem` and `CondSystem` |
| `MutexProofs` | theorems and proofs about `MutexSystem` and `CondSystem`, and that both implement `Monitor` |
| `SignalSystem` | `Kernel` with the signal ring and the processor thread |
| `SignalInvariant`, `SignalProofs` | its inductive invariant; theorems and proofs |
| `InterruptSystem` | buttons, PLIC, edge detector, pending bits and handler, one step per clock edge |
| `InterruptProofs` | theorems and proofs about `InterruptSystem` |
| `Heap` | `heap_allocator.c`, one operator per function, on a record that is the memory |
| `HeapSystem` | its users: memory calls, creation and end of threads; properties, inductive invariant |
| `HeapProofs` | theorems and proofs about `HeapSystem` |
| `Bus` | arbiter, watchdog, processor's interface, memories, DMA: the wires, and each part's registers at a clock edge |
| `BusSystem` | `Bus` with the processor and the driver `dma_transfer`; fairness, properties |
| `BusInvariant` | the inductive invariant of `BusSystem` |
| `BusProofs` | theorems and proofs about `BusSystem` |
| `LocalStore` | the abstract specification of thread-local storage: a table |
| `ThreadLocal` | `thread_local.c` and the end of a thread on the two lists; `ActsAsTable`, inductive invariant |
| `ThreadLocalProofs` | theorems and proofs about `ThreadLocal` |
| `Library` | the conversions, `bsearch`, `strtok`; their reference definitions, inductive invariants |
| `LibraryProofs` | theorems and proofs about `Library` |
| `MCMutexSystem`, `MCCondSystem`, `MCThreadLocal`, `MCBusSystem`, `MCLibrary` | TLC instances (lock orders, symmetry, transfers, strings); the other runs instantiate their module directly |

The `Mutant_*` operators beside a definition are plausible mistakes in its code;
each property is tested against one (`mutants` in `PROJECT.json`).

### Kernel and MutexSystem

`k` is one record, the kernel's memory: `current` is `kthread_current`; `next`,
`state`, `waiting_on` are the fields of `struct kthread`; `head`, `tail` the
static pointers of `scheduler.c`; `owner`, `lock_count`, `mhead`, `mtail` those
of `struct kmutex`; `chead`, `ctail` those of `struct kcond`; `heap` the set of
objects the heap has handed out. A C function is an operator of the same name
on such a record. A trap runs with interrupts masked (the `sret` of `trap.S`
enables them again), so a system call is one step: `syscall_mutex_lock` is
`kmutex_lock` followed, if the caller's state became BLOCKED, by
`kthread_dispatch`, exactly as in `syscalls.c:98-112`.

Freed objects keep the values of their fields, as memory does, and an address
may be allocated again. Null arguments and allocation failures return without a
change and are not actions. The register context, the stacks and the
thread-local block are left out.

Two variables belong to the users: `depth[t][m]`, how many times `t` has locked
`m` by its own account, calls still blocked included, and `exited`. What users
may do is in the guards, each with a comment: they destroy what nobody uses,
relock only recursive mutexes, unlock whatever they like (an unlock by another
thread fails), exit with nothing held, and detach exited threads
(`DetachLive = FALSE`) or any thread (`TRUE`). They take mutexes in any order or
in the order `LockAfter` gives.

### CondSystem

Adds `syscall_cond_*`. Users wait holding the mutex once, with one mutex per
condition. Two constants say how they signal: `HoldToSignal` (only with the
mutex held) and `OneSleeper` (`cnd_signal` only when at most one thread
sleeps; `cnd_broadcast` at any time). The passing runs need both to be TRUE;
section 4 says what goes wrong without either. `HeldAsleep` says
which mutexes they may hold besides while they sleep.

`Monitor` keeps, of a sleeper, the mutex it gave up. Its `Wait` asks that all sleepers
of a condition gave up the same one and its `Wake` that those woken did: what users
guarantee is part of what the monitor says, and `ImplementsMonitor` checks it.

### SignalSystem

The same memory `k`, with one mutex and one condition, `signals.c`'s ring
(`requests`, `head`, `tail`), its `handlers`, and the signal processor's program
counter `pc` and local variable `sig`. A trap is one step and may come between
any two steps of the processor, whose loop is cut at every access to shared
memory: `lock`, `test`, `wait`, `take`, `advance`, `unlock`, `fetch`, `return`
are lines 56, 57, 58, 63, 64, 65, 67 and 68 of `signals.c`. Its system calls,
`lock` and `wait`, are steps of their own because interrupts are on between the
test and the `ecall`. Senders are `syscall_sig_raise`, `fault` (which stops the
thread that faulted, the processor included, if `HandlersFault`) and
`handle_ext_intr`; all run `ksignal_send` with interrupts masked. `pending` is a
history variable: what was sent and neither taken nor lost, oldest first. Other
threads are reduced to running, being preempted, raising, faulting, creating and
exiting; what they do with mutexes of their own is `MutexSystem`'s subject.

`ksignal_send` does not look whether there is room, and nothing holds senders back:
one signal after the last free slot makes `tail` meet `head`. The ring is then `Full`,
which the loop's test takes for empty, and the next signal is written over the oldest:
it is the only one left, and a ringful is gone. `SignalInv` says that this is the
only way in which signals are lost, and that the ring and its indices agree with
`pending` all the same. If the ring overflows while the processor is between `take`
and `advance`, it is the new signal that `advance` skips.

### InterruptSystem

All the hardware between a button and the processor runs on one 50 MHz clock
(`Tests/NiskiDUT.v` is the netlist), so a step is a clock edge: `Next` chooses
which lines pulse and whether the timer ticks, takes one step of the processor,
and gives every register its next value: the PLIC's pending bits and state, the
two flip-flops of the edge detector, bits 9 and 5 of `sip`. The processor is its
place in the program, `cpu`: a user thread, a system call, the timer's trap, the
idle loop, or a place in `handle_ext_intr`. The load of `PLIC.claim` takes the three
cycles it has on the bus: granted (the PLIC sees the request), acknowledged (the
processor takes `next_intr`), released (the PLIC sees the end and clears
`next_intr` as it then is). The `csrc` is one cycle. Between them any number of
cycles may pass (`Elapse`). `owed` (pressed, handler not called) and `slice_over`
(a tick since the last timer trap) are history variables. All inputs are enabled,
as `init()` leaves them. `Late` says whether buttons may be pressed while the
handler runs.

### Heap and HeapSystem

`h` is the memory the allocator works on: `head_segment` and, for every block of
64 bytes, the three fields of the header it would hold (`blocks`, `next`,
`prev`). Headers keep what was last written there, whoever owns the block now. A
segment and the pointer to its data are the number of its first block. The
loops over the list are `FirstOf`, "the one of a set that is met first", by the
links, whatever order they are in. `asked` records who owns what (history), and
`kthread` the three objects of each thread: `syscall_thread_create` allocates
them one after the other and undoes the earlier ones when a later one fails
(`thread.c:43,52`), `kthread_destroy` frees them.

`kheap_try_expand` has its tests the wrong way round: it "expands" into a free
neighbour when asked to shrink, and when asked to grow frees blocks behind the
segment that belong to somebody else. `kheap_try_expand` in `Heap` does exactly
this, garbage links included. `MayExpand` names the calls that do no harm, and
`Disciplined = TRUE` keeps users to them; the theorems assume it.

### Bus and BusSystem

Everything runs on one clock, so a step is a clock edge: each part's operator
gives its registers after the edge from the wires before it, and `Clock` is
their conjunction. The wires (`addr_bus`, `data_bus`, `fc_bus`, the grants) are
operators on the registers, with what the netlist (`Tests/NiskiDUT.v`) resolves
when nobody drives. Accesses are of one byte, but the memories register a whole word
and the byte is picked at the time of the answer, which is what makes
`AccessIsExact` delicate. The processor is `CPU.v`'s control: fetch, decode, then an
access or none. `drv` is the program: `dma_transfer`'s four stores and its polling
loop, access by access, or any other loads and stores at `Targets`. A
memory fault sends the driver anywhere: back to its caller or on, since a program
may handle the signal. `ghost` is history: the RAM when the transfer was asked for.

### ThreadLocal and LocalStore

Every datum has two pairs of links, `next_data`/`prev_data` on the list of its
thread and `next_thread`/`prev_thread` on that of its storage. `kthread_ls_set`
puts a new one at the head of both. `kthread_ls_destroy` and `kthread_clean_td`
each walk one list and take every datum from the other one, with the links of the
list they walk (`thread_local.c:21-27`, `thread.c:102-109`), which `UnlinkFromThread`
and `UnlinkFromStorage` keep. They are right when the datum is alone on both
lists: `MayEnd` and `MayDestroy`, which `Disciplined = TRUE` asks of users. Freed
data keep their fields and are allocated again. `handed` is history: what the
last step gave to destructors.

A C loop over a list is `Chain`: the data met from a head along one of the four kinds
of links, as a sequence, so that `kthread_ls_get` finds the first on it (`Find`) and
a destruction folds its unlinking over it.

`LocalStore` promises a table from threads and storages to values, and that the
end of a thread hands its values to the destructors (`Owed`). `ActsAsTable` maps each
place of the table to what the lookup on the thread's list finds.

### Library

A behaviour runs one function. A conversion returns in one step; `bsearch` takes
a step per turn of its loop, with `size_t` arithmetic modulo `SIZE_MAX + 1` and an
arbitrary comparison for memory outside the array; `strtok` is a step per call, by
users who take turns. Characters are their codes. The conversions' loop is a
recursive function with the code's overflow test. `own_errno` is what a conversion does
to the `errno` of `conv_functions.c`: `errno.h` gives each file that includes it, and each
thread, an `errno` of its own, so no caller sees it. Where a conversion stops
(`str_end`) is not modelled.

The reference is the C standard's, and shares nothing with the code's operators but the
values of the digits: `Number` skips white space with the space, a sign, and `0x` for
base 0 and base 16, and takes the unbounded value of the digits; `Tokens` are the longest
runs of characters that are no delimiters. The properties are about the strings that
both read alike (`ReadAlike`), the limits they name, and texts without empty fields
(`HasEmptyField`). Section 4 lists what differs elsewhere.

## 3. Runs

| Run | Instance | Shows |
|---|---|---|
| `mutex_safety` | 4 threads, a plain and a recursive mutex, depth 3, count modulo 4, any lock order | the inductive invariant, exclusion, no lost thread, no dangling pointer, no orphaned waiter, exact counts, only owners release; implements `Monitor` |
| `cond_safety` | 4 threads, both mutexes, a condition | exclusion, one queue each, no blocked owner; implements `Monitor` with wait, signal, broadcast |
| `liveness` | 3 threads, two plain mutexes, lock order m1 < m2, a condition on which users sleep with one mutex only, fairness | every ready thread runs, every waiter is served |
| `signals` | the processor, 2 users, 2 signals, ring of 3 slots, any number of signals, handlers may fault, fairness | ring and pending agree, overflows included, oldest first, wakes with the mutex, senders wake, an awake processor takes what is pending unless the ring fills up |
| `interrupts` | 3 inputs, `Late = FALSE`, fairness | the inductive invariant; presses are tracked, the line is never left unseen, no spurious trap, every press is handled unless idle |
| `heap` | 6 blocks, two sizes of request that take one and two blocks, a thread of three objects, users that keep to `MayExpand` | every block has one segment, first fit, large enough, sizes are kept |
| `thread_local` | 2 threads, 2 storages, 3 data, 2 values, users that keep to `MayEnd` and `MayDestroy` | both lists of every datum are right, none is lost or orphaned; implements `LocalStore` |
| `bus` | ROM and RAM of two words of two bytes, the DMA, 6 transfers, 3 targets, fairness | grants are held, accesses are exact and end, stops are deserved, transfers from ROM arrive and end with one byte too many |
| `library` | strings of up to 4 of 12 characters in 4 bases, sorted arrays of up to 5, texts of up to 3 and two users | the conversions give the standard's values within limits, the search is right and ends, tokens are the standard's if no field is empty |
| `signal_two_sleepers` | as `cond_safety`, `OneSleeper = FALSE` | violation, see below |
| `time_slice` | as `interrupts`, the claim that a thread has its time slice | violation, see below |
| `dma_copy` | as `bus`, a RAM of three words, the claim that a copy is exact | violation, see below |

Bounds. Four threads give an owner, a queue of two (head, tail and a link
between) and another thread running; a fifth only lengthens the queue. Two
mutexes give two queues beside the ready list, nested locks and, in any order,
deadlock with the idle thread running; one is recursive, one is not. `MaxDepth`
= 3 with `CountMod` = 4 is the deepest count below the wrap. Exited threads can
be detached and their addresses reused, so runs have no bound in time. Symmetry
over threads is used in safety runs only. The proofs lift all these bounds for
the properties they are about (section 5): threads, mutexes, conditions and depths
of any number, any ring, any inputs, any heap, any data, any memories and transfers,
any strings, arrays and widths of the types.

The ring of 3 slots (10 in the code) holds a signal being taken, one queued and one
that fills it; the next one overflows it, and its indices wrap. Two signals,
one fatal and one a button's, are enough to tell the order of any two. Two users
let one fault or exit while another runs, and both together leave the idle thread.
Three inputs of the PLIC give the most urgent, the least and one between; presses
come any number of times and several at once.

Six blocks hold a thread (one block, two and one), or enough segments of one and two
blocks for a freed one to have both neighbours free, one or none, and for the heap
to be exhausted at each of a creation's three allocations. `SizeMod` only has to
exceed every request: the wrap is excluded by `HeapSystemAssumption`. Three data
with two threads and two storages give a thread with data in both storages, a
storage with data of both threads, and reuse of freed data; the data are symmetric
(only model values distinguish them, and no liveness is checked). Transfers go up
and down, run out of the RAM with their last byte, read where nobody answers, and
stay in the RAM. `ALLOWED_CYCLES` = 9 is the least of more than 7 (no
answered access is stopped: section 5, Bus) that is not a power of two (its register
can count that far), and short enough to be reached. Words of two bytes make
the byte within the word matter. Types of 4 and 6 bits put the limits of `long` and
`long long` within four characters, on both sides. `Library.cfg` does not check for
deadlock: a behaviour ends when its function has returned.

Fairness (`Fairness` of `MutexSystem`): the idle loop keeps dispatching
(`entry.S:22-25` does nothing else), the timer keeps ticking while a user thread
runs, and critical sections end: a thread that is given the processor again and
again while it has locked a mutex `d` times unlocks sometime. The last one is an
obligation of the user programs, which no kernel could do without, and a strong
fairness because the timer takes the processor away between two of its instructions.
The liveness run respects a lock order and lets nobody sleep on a condition with a
second mutex held (`HeldAsleep`), since nothing in the kernel prevents a deadlock of
the users' own making.

`SignalSystem`'s `FairSpec` has the same dispatch, and a strong fairness of the
processor's steps: a time slice is at least an instruction, so a thread that is
given slices for ever executes its next one. It includes `return`: handlers end.
`InterruptSystem`'s has the clock, the progress of the kernel's code, and a strong
fairness of `raise_interrupt`: a thread that runs again and again ends an
instruction that is not an `ecall`. `BusSpec` has the clock, and a strong fairness of
`Access`: a program that comes to the place of its access again and again makes it
(the model has other instructions only so that accesses may be any distance
apart). `LibrarySpec`'s is the progress of one loop.

## 4. What was found

Disagreements with what the repository says of itself, each shown by a run:

* `signal_two_sleepers`: the sleeper that `kcond_signal` (`condition.c:26`) moves
  still points to the next sleeper when `kmutex_lock` appends it to the mutex's
  queue. The unlock that hands the mutex to the first leaves the head of the queue at
  the thread that still sleeps on the condition and its tail at the first, which is now
  in the ready list: the next thread that blocks for the mutex is linked behind it there
  and runs without the mutex. This is the shortest violation; one more unlock
  hands the mutex to the sleeper.
* `time_slice`: nobody clears the timer's bit in `sip`, so after the first tick a
  thread is preempted after every instruction. The system goes on, a trap per
  instruction; `interrupts` shows that external interrupts still get through.
* `dma_copy`: the DMA tests its count before it decrements it, so `cnt + 1` bytes
  are written. Within the RAM the copy is also wrong: between the write of a byte and
  the read of the next the RAM stays selected and its interface ready, so the
  read is answered at once with the word registered before the edge, the one
  just written. A copy from the ROM is not affected (`RomCopyArrives`), because
  its interface was not selected during the write. That is the copy the kernel makes.

Disagreements found while modelling that no run of their own shows. The properties
exclude these cases, and say so:

* `src/README.md:129` lists functions that are "fully implemented". Against the C standard:
  * `isspace` (`src/README.md:184`) excludes the space (`ctype.h:11`), so no
    conversion (`src/README.md:141,142`) skips one: `strtol(" 1", 0, 10)` is 0.
  * With the base given as 16 the prefix `0x` is not skipped (`conv_functions.c:29,96`):
    `strtol("0x1", 0, 16)` is 0.
  * `strtoll` returns `-LLONG_MAX` for `LLONG_MIN` and for everything below. `strtoull`
    clamps to `LLONG_MAX`, and negates what it has clamped. `strtoul` gives numbers
    past `LLONG_MAX`, and negative ones past `-ULONG_MAX`, modulo 2^32.
  * `ERANGE` (`errno.h`: `src/README.md:130`) goes to the `errno` of `conv_functions.c`:
    the variable is a static of an inline function (`errno.h:3-6`), one in each file.
  * `strtok` (`src/README.md:203`) returns empty tokens, for a delimiter at either end of a
    text or two in a row (`string_functions.c:144-156`), where the standard has none.
* `src/README.md:102-103`: "a more efficient buddy/slab algorithm is employed for kernel
  objects". Every kernel object comes from `kheap_alloc`, the first fit of
  `heap_allocator.c` (section 6).
* The signal processor: a ring of 10 that fills up counts as empty
  (`signals.c:57,87-89`), and ten signals are lost with the next one.

What the discipline of the passing runs leaves out. Each line is one constant or
one property changed in a cfg of section 3:

| Change | Violated | Because |
|---|---|---|
| `DetachLive = TRUE` in `MutexSafety.cfg` | `NoDanglingThread` | `syscall_thread_detach` frees the thread at once even if it is running, ready or waiting |
| `HoldToSignal = FALSE` in `CondSafety.cfg` | `NoBlockedOwner` | `kcond_signal` (`condition.c:30`) locks the mutex for the sleeper; when it is free the sleeper becomes its owner, but `syscall_cond_signal` passes `enqueue = false`, so it is never made ready |
| `SignalsAreHandled` as a PROPERTY of `Signals.cfg` | it | between `while (head == tail)` and the `ecall` of the wait (`signals.c:57-58`) interrupts are on and nobody is on the condition: a signal sent there wakes nobody until the next one |
| `Forwarded` as a PROPERTY of `Interrupts.cfg` | it | the idle loop runs in supervisor mode with SIE = 0 (`entry.S:19`, `CSRs.v:57`): when every thread sleeps no button can wake one |
| `Late = TRUE` in `Interrupts.cfg` | `NeverDeaf` | `handle_ext_intr` clears the pending bit after its last claim; a press in between leaves the line high for good, and no later press makes an edge |
| `Disciplined = FALSE` in `Heap.cfg` | `Partition` | the tests of `kheap_try_expand` (`heap_allocator.c:132`) are swapped. Only the system call reaches it: `realloc`, which should, calls a `__try_realloc` that nothing defines (`alloc_functions.c:26`) |
| `Disciplined = FALSE` in `ThreadLocal.cfg` | `ThreadLocalInv`, `ActsAsTable` | each destruction uses the links of the wrong list: data are lost, or stay on a list after they are freed |

Limits that the properties state rather than hide:

* The watchdog's stop stays signalled while the bus is in use, by either master:
  after a stop of the DMA the processor's next access may be stopped although its
  memory answers (`TimeoutsDeserved`).
* The watchdog returns to rest only if it sees an answer after its first cycle of
  counting (`Watchdog.v:28-36`). An access answered in that very cycle, as a write of
  the DMA into the ROM is, leaves it counting while nobody uses the bus, until the next
  answer: a watchdog of less than 8 cycles could stop an access that memory answers.
* A transfer the watchdog stops before its last byte leaves `cnt` above 0, and its
  driver polls for ever: `TransferEnds` is about transfers within memory.
* `Counted` never wraps for the 500 000 cycles of `NiskiDUT.v`; its register has
  `$clog2(ALLOWED_CYCLES)` bits, one too few if the number were a power of two.
* `bsearch` in an empty array or for a key below the first element reads outside the
  array, since its right end wraps.
* `strtok` has one static pointer for all threads: a thread that continues gets the
  tokens of the text passed last, whoever passed it. C promises nothing else, and
  `ReturnsTokens` is about that text.

Users who hold the mutex to signal, prefer broadcast, detach exited threads only, do
not call `__memory_try_expand`, and keep one thread-local datum at a time are safe:
that is what the passing runs show. Late presses, copies within the RAM, and signals that
fill the ring or come before the wait have no such discipline.

## 5. Proofs

Every theorem is about a specification with all its constants left open, up to
assumptions named in its module. Where the code does not protect itself, the
hypothesis is the discipline of the users that section 4 shows to be necessary:
`DetachLive = FALSE` (mutexes and conditions), `HoldToSignal = TRUE` and `OneSleeper =
TRUE` (conditions), `Late = FALSE` (interrupts), `Disciplined = TRUE` (heap,
thread-local storage). Signals, the bus and the library need none: a full ring
is part of `SignalInv`, and what the library's properties leave out (`ReadAlike`,
`Below`, `HasEmptyField` and the limits) is written in them.

### Mutexes and conditions

`MutexProofs` proves, for any sets of threads, mutexes and conditions, any lock order
and any `MaxDepth < CountMod`:

| Theorem | Property |
|---|---|
| `Invariance`, `CondInvariance` | `Spec => []IInv`, `CondSpec => []CondInv` |
| `TypeCorrect`, `Exclusion`, `NoOrphanedWaiters`, `CountCorrect`, `NothingLost`, `NothingDangles` | the invariants `TypeOK`, `MutualExclusion`, `WaitersHaveAnOwner`, `CountIsDepth`, `NoThreadLost`, `NoDanglingThread` of `MutexSystem` |
| `OnlyOwnersRelease` | the action property `OnlyTheOwnerReleases` |
| `CondExclusion`, `CondNoBlockedOwner`, `CondQueues` | the invariants `MutualExclusion`, `NoBlockedOwner`, `OneQueueEach` of `CondSystem` |

The argument. None of the properties is inductive: exclusion, for one, depends
on an unlock finding in the queue exactly the threads whose state is BLOCKED,
and this on no thread carrying a stale link into a queue. The invariant therefore says
what the lists are. `IsQueue(next, h, tl, Q)` says that from `h` to `tl` the
links visit exactly the threads of `Q`, without recursion: links stay in `Q`,
none leads to the head, no two lead to the same thread, the tail's is NULL, and
no proper subset that contains the head is closed (no cycle, no thread out of
reach). `QueuesInv` says the ready list is the queue of the READY threads, each
mutex's list is the queue of the threads blocked for it, and running or new
threads have a NULL link (this is what makes `kmutex_lock`'s not clearing it
harmless). `ThreadsInv` relates states to `current`, `exited` and the heap,
`OwnersInv` owners and counts to `depth`, `GoneHoldNothing` the heap to `depth`.

With conditions the fields of a thread no longer say where it is: a thread asleep on
a condition is BLOCKED with `waiting_on` set, like one in the mutex's queue. So the
invariant is about a memory and a placement `on` of the sleepers (`Good(mem, on, ...)`):
`IInv` is `Good` with nobody asleep, `CondInv` says that there is a placement. The
same lemmas about the traps of `MutexSystem` then serve both systems.

The proof climbs in layers: append, remove and splice on lists (`QueueAppend`,
`QueueRemove`, `QueueConcat`, `QueueFrame`) and each C function as an operation on the
lists (`EnqueueEffect`, `DequeueEffect`, `DispatchEffect`, `BlockEffect`,
`HandOffEffect`, `SpliceEffect`, `WaitEffect`) in `KernelProofs`; what a
composition does to the whole invariant (`CreateKeeps`, `AcquireKeeps`, `RecountKeeps`,
`FreeKeeps`, `HandOffKeeps`, `DispatchRestores`); one lemma per action; the
theorems. `ChainIsQueue` connects the invariant's queues with `Chain`, the set
a C loop over the list visits. The loop of `kcond_signal_all`, which moves sleepers
one at a time, is a recursive function on a number of turns; its result is found by
induction over a set of numbers (`SetInduction`: a subset of Nat with 0 and closed
under successor is Nat), which needs no operator as a parameter.

`MutexProofs` ends with `Spec => ImplementsMonitor` for `MutexSystem`
(`KernelIsMonitor`) and for `CondSystem` (`ConditionsAreMonitor`). Its bridge is
`IsListOf`: the sequence that `MutexRefinement` reads off a list is the only one that
has the list's head, goes by its links and contains each thread of the queue once
(`QueueHasList`, `ListFromIsList`). From it follow the laws of lists (`ListAppend`,
`ListRemove`, `ListFrame`, `ListHead`): what the operations on queues, already proved
right, do to the sequences. Then each action, started where the invariant
holds, is shown to be one step of `Monitor` or to change none of its variables (a
failed unlock, a detach).

### Signals

`SignalProofs` proves, for any users, handlers and signals, however many are sent, and
any ring of two slots or more:

| Theorem | Property |
|---|---|
| `Invariance` | `SignalSpec => []SInv` |
| `RingIsRight` | the invariant `SignalInv` |
| `OldestFirst`, `SendersWake` | the action properties `TakesTheOldest`, `SendingWakes` |

`SInv` joins the queues (`BetweenTraps`: only the processor ever blocks, on the
condition, with the mutex free), the program counter (`ProgramInv`: asleep only at the
test; between take and unlock something is pending) and the ring (`SignalInv`: from
`head` on it holds `pending`, whose length is the distance of its indices, or a ringful
if they have met). A send keeps that in two ways, behind what is pending
(`PutBehind`) and over it (`PutOver`), and `HowFull` tells which from the indices. That
a signal makes a sleeping processor ready with its mutex depends on the queue of the
condition being exactly the processor and on the mutex being free: `WakeSleeper` and
`SendKeeps`. It is proved with the lemmas of `KernelProofs`, as the system calls it
shares with `MutexSystem`.

### Interrupts

`InterruptProofs` proves, for any of the PLIC's fifteen inputs and from
`Late = FALSE`:

| Theorem | Property |
|---|---|
| `Invariance` | `Spec => []IInv` |
| `PressesAreTracked`, `LineIsSeen` | the invariants `OwedIsTracked`, `NeverDeaf` |
| `TrapsAreCalledFor` | the action property `NoSpuriousTrap` |

What makes them inductive: the PLIC is in a read exactly while a claim is on the
bus, so the answer of a claim is what it clears; the handler leaves only when
nothing is pending, and with the detector's flip-flop low, so the next press makes
an edge; and outside the handler a set bit, or an edge on its way, has a request
behind it. `EdgeEffect` says what a clock edge does to the registers,
`ProgramSteps` what the processor's steps are, and `NextInvariant` joins them.
`next_intr` is a CHOOSE, so `MaxExists` first shows that a set of inputs has a
greatest one. With `Late = TRUE` the theorems are false (section 4).

### Heap

`HeapProofs` proves, for a heap of any number of blocks, any sizes of block, header,
requests and thread that `HeapSystemAssumption` admits (no request wraps), and from
`Disciplined = TRUE`:

| Theorem | Property |
|---|---|
| `HeapInvariant`, `HeapTypeInvariant` | `HeapSpec => []HeapInv`, `[]HeapTypeOK` |
| `HeapPartition`, `HeapLargeEnough`, `HeapFirstFit` | the invariants `Partition`, `LargeEnough`, `FirstFit` |
| `HeapSizeIsKept` | the action property `SizeIsKept` |

`Partition` alone says nothing of the links. `HeapInv` is `Sound(h, Free(h), Live)`:
the list goes through the free segments in the order of their addresses, both
ways (`Linked`); free and owned segments tile the heap (`Tiles`); no two free
ones touch (`Coalesced`), which is what makes first fit on segments first fit on
gaps. `Free(h)` is the least set closed under `next`, so that no recursion is needed;
`Linked` determines it. The lemmas go function by function: split, unlink,
insert and join each take a `Shape` with sets F and L to one with other sets, joins
restore `Coalesced`, and the thread's three allocations compose them.

### Thread-local storage

`ThreadLocalProofs` proves, for any threads, storages and values, any finite set of
data, and from `Disciplined = TRUE`:

| Theorem | Property |
|---|---|
| `ThreadLocalInvariance` | `ThreadLocalSpec => []SoundInv` |
| `ListsAreRight` | the invariant `ThreadLocalInv` |
| `StorageIsATable` | the refinement `ActsAsTable` |

`ThreadLocalInv` is about sequences that `Chain` computes by following the links;
`Linked` says of such a sequence that both links of each of its data agree with its
place and that it contains the data of its thread (or storage) once each. A sequence
that does is the chain (`ChainIsList`), and no longer than there are data, which is
why `Chain` may stop. `Unique` (a thread has one datum per storage) is needed for the
table: without it a lookup would depend on the order of the list, and a second
`kthread_ls_set` would hide the first value. There is one lemma for each operation: a
new datum in front of both lists, an overwritten value, an unlinking. The destructions
use the links of the wrong list; for a list of at most one datum, which is alone on the
other list too, these links and the right ones are all NULL, and this is where
`Disciplined` enters and where the proof fails without it. For the refinement, `Lookup`
of a pair is shown to be the value of the one datum that has it (`LookupIsRight`), so each
operation changes the table at one pair, one column or one row.

### Bus

`BusProofs` proves, for any memories, programs and transfers and any watchdog of more
than 7 cycles:

| Theorem | Property |
|---|---|
| `BusGrantHeld` | the invariant `GrantHeld` |
| `BusAccessIsExact` | the action property `AccessIsExact` |
| `BusTurns` | the inductive invariant `TurnsInv` |
| `BusIsRight` | the invariant `BusInv`: types, stops are deserved, one byte more at most |
| `BusReturnsAtRest` | the action property `ReturnsAtRest` |
| `BusRomCopyArrives` | the action property `RomCopyArrives` |

A grant is computed anew in every cycle from the requests
and the arbiter's last decision, so the invariant `GrantInv` has to say that the
arbiter remembers who is in the middle of an access (`Holders`), and that a master
keeps its request up until it is done (`Requests`). `Registers` says that the two
interfaces are records, which the other parts need to read their fields after an
EXCEPT. `AccessInv` adds that while the processor waits for a load, the memory holds
ready the word it asked for, as it is now (`WordReady`).

The other three are about several parts at once, and need to know how far each can be
ahead of the others. `TurnsInv` (`BusInvariant`) says it:

* `Turns` lists the states in which the processor, its interface and the DMA meet. Its
  core is that a transfer holds up the next fetch of the processor, and is over
  before that fetch is answered: this is why `dma_transfer`, which sees `cnt = 0`
  while one byte is still to be written, returns to a DMA at rest.
* `Asking` and `Serving` say which access of the processor is on the bus.
* `Driven` ties the DMA to the driver: only `dma_transfer` stores registers, and
  it alone is polling while the DMA works. `Programmed` says that the registers it has
  stored are those of its transfer, `Progress` that the DMA goes through the
  addresses in order, `Polled` that the count the driver has loaded is still the count.
* `Changed` and `Arrived` say what that does to the RAM: bytes change only where they
  should, what has been copied from the ROM is there, and the byte in hand is the next.
* `Ready`, `Watching` and `Stops` are about the watchdog. A memory answers an access
  in a bounded number of cycles, so `Counts` bounds how far the watchdog
  can have counted at each state of the processor, unless nobody answers the address
  on the bus. The largest bound is 8, reached when the processor is about to be
  answered; that is where more than 7 cycles are needed.

The proof follows the model: a lemma for each part says what a clock edge does to it
(`CpuEdge`, `CbiEdge`, `WdEdge`, `DmaEdge`, `DrvEdge`, `MemEdge`, together `Moves`),
and a lemma for each conjunct of `TurnsInv` shows that it is kept. `Arrived` also
needs arithmetic of its own: the byte picked from the word the ROM has registered
is the one at the DMA's address (`RomRead`), and addresses of one transfer differ
(`AtOther`), which is why a copy with `dest_step = 0` is not in `FromRom`.

### Library

`LibraryProofs` proves, for any strings, texts, delimiters and sorted arrays, and
for any limits of the types of which `long long` is the wider:

| Theorem | Property |
|---|---|
| `SearchFinds` | the invariant `SearchIsRight` |
| `SearchHalves` | the action property `Halves` |
| `TokensAreRight` | the invariant `ReturnsTokens` |
| `ConversionsConvert` | the invariant `ConversionsAreRight` |

`SearchInv` adds to the property that what is left of `left` is less than the key and
what is right of `right` greater (`Between`), as long as the key is not below the
array. Where it is below, `right` wraps, and nothing is claimed but that both stay in
a `size_t`. `Halves`, which no run checks, is the safety half of `SearchEnds`: a turn
leaves half of the elements or fewer, so a search takes a logarithmic number of turns.

`TokenInv` says that what `strtok` has given and the fields of the rest of the text, from
`last` on, are the fields of the text passed last. The fields are defined by all
the cuts of a text at once, `strtok` finds one at a time: `FieldsFrom` shows that the
first field of a rest is the token a call returns, and that the others are the fields
after it. For this the cuts of a text are those of the rest, shifted (`CutsMore`), and
there is one sequence that has the members of a set of numbers in ascending
order (`AscendingExists`, `AscendingUnique`). The NULs the calls write are all before
`last` (`NulWritten`). `TokensAreFields` leads from there to the standard: the tokens of
a text are its fields if none is empty.

The conversions' loop and the value of the digits, `Value`, are recursive functions.
Each is shown to exist (`LoopExists`, `ValuesExist`), then the loop to be in the same
place as the value (`AccumulateIs`): at the i-th digit it holds the value of those
before, as long as that fits, and the first value that does not fit is where it clamps.
`OverflowTest` is the C test `result > (max - digit) / base`, which says that the next
value does not fit without computing it. What the callers add, signs, two's complement and
limits, is `SignedAre` and `UnsignedAre`. `PrefixIs` and `NumberIs` show where the
code's sign, base and digits are the standard's; this is where `ReadAlike` enters. Every induction is over a set of numbers
(`SetInduction`), as in the proofs about `kcond_signal_all`.

### Only model-checked

* Liveness, which is out of the prover's reach: `ReadyThreadsRun`, `WaitersAreServed`,
  `AwakeProcessorTakes`, `HandledUnlessIdle`, `AccessEnds`, `TransferEnds` and
  `SearchEnds`. Every other property of a passing run is a theorem.
* The three claims of section 4 that a run refutes: a counterexample is their proof.

## 6. Not modelled, and plan

Not modelled, and why:

* The buddy, slab and cache allocators: dead code. Nothing calls them,
  `BUDDY_START` is in no linker script, and they cannot work as they stand
  (`kbuddy_alloc` never splits a block, `kbuddy_dealloc` computes an order past the
  end of its table, `kcache_dealloc` never returns a slot of a full slab). No state
  of the running system is theirs.
* String and memory functions other than `strtok`: loops over their arguments,
  which read and write nothing else.
* `printf` and its kin, `time.h`, `setjmp`, the wrappers of system calls: formatting,
  register shuffling, one line each.
* Instructions' results, the ALU, the registers: data of a sequential machine. The
  control of the processor is in `BusSystem` and `InterruptSystem`.
* Character devices, pins, clocks, boards, and devices that nothing connects.
* In modelled parts: the reset, accesses wider than a byte, the PLIC's registers, the
  text shown by the fault handler.

The plan, in order of importance:

1. Done: threads, mutexes, conditions; their invariants proved, and that they
   implement the monitor.
2. Done: signals and their invariant, for every size of the ring.
3. Done: the interrupt path and its theorems.
4. Done: the bus, the DMA and its driver; stable grants, exact accesses, deserved
   stops and the timing of transfers proved.
5. Done: the heap against disjoint segments, with its theorems.
6. Done: thread-local storage as a table, with its invariant and the refinement.
7. Done: the library's conversions, search and tokens, with their theorems.
