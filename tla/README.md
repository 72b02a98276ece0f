# CustomKernel in TLA+

A verification development for the kernel in `src/`: modules that model its
parts, TLC configurations that check them on small instances, and theorems that
TLAPS proves for every value of the constants. Paths below are relative to
`src/src/`.

## The system

A single-CPU x86-64 kernel in Rust, booted by Limine. `_start` (main.rs)
initialises the parts in order, enables interrupts, creates three kernel tasks
and becomes the idle task.

| Part | State | Operations | Properties that make it correct |
|---|---|---|---|
| Scheduler, task table (`multitask/`) | `TASKS`, `CURRENT`, `NEXT_PID`, `TICKS_ON_CURRENT`, `TASK_LOCK`, one stack per task | `new_kernel_task`, `tick`, `schedule`, `yield_cpu`, `sleep_ms`, `exit`, `wait_for` | one task runs and it is CURRENT; switches are atomic; no wakeup is lost; nobody starves; stacks are owned by one task |
| Interrupts (`interrupt/idt.rs`, `pit.rs`, `pic.rs`) | IF, the 8259's request, service and mask bits, `TICK_COUNT`, handler table | init_idt, remap, init, common_handler, on_tick, send_eoi, exceptions | who can be interrupted when; every interrupt has a handler and its own end; no edge is lost |
| Page frames (`memory/pmm.rs`) | bitmap, `FREE_COUNT`, `USABLE_PAGE` | `init_pmm`, `alloc_page`, `free_page` | a frame has one holder; the bitmap does not give itself away; counters match |
| Page tables (`memory/vmm.rs`) | the tables below CR3 | `map_page`, `unmap_page`, `get_phys_addr` | a lookup returns what was mapped last; no frame has two uses |
| Heap (`memory/heap.rs`) | block list, `HEAP_END` | `kmalloc`, `kfree`, expansion | blocks tile the heap; held memory does not overlap |
| Keyboard (`device/keyboard.rs`) | shift flag, ring buffer | IRQ1 handler, `global_pop` | characters in order, lost only when full |
| Shell (`shell/simple_shell.rs`) | command line | `handle_key`, `execute`, `run_shell` | keys are read; the line is what was typed |
| Terminal (`ui/terminal.rs`) | cursor, pixels | `putc`, `backspace`, `scroll`, `clear` | the screen shows the line that a command will be read from |
| System calls (`interrupt/syscall.rs`) | none | dispatch of int 0x80 | (nothing executes it) |
| Serial port (`device/serial.rs`) | none | polled output | |

How they interact. The timer interrupt calls `scheduler::tick`, which may call
`schedule()` *inside the handler, before the end of interrupt*. Task creation
and exit call the page allocator. The heap takes frames from it and maps them
with the VMM, which takes more frames for tables. The keyboard interrupt fills
a ring buffer that the shell task empties; the shell calls the heap (memtest),
the scheduler (sleep) and the terminal. Every part prints to the serial port.

What is hard here is the order of events: a timer tick between two stores of a
task's creation; the switch between two stacks while a handler frame lies on
one of them; interrupts that are off for a reason nobody wrote down; frames that
exit frees while the CPU still stands on them; arithmetic at boundaries (the
bitmap's size, an expansion's page count, the ring's indices).
`PROJECT.json` lists these hazards with their lines and the properties that
cover them.

## Modules

| Module | What it is |
|---|---|
| `TaskManager` | what the scheduler promises the tasks |
| `Scheduler` | multitask/, with the timer interrupt path, which implements it; the core |
| `SchedulerMC` | its instances for TLC |
| `SchedulerProofs` | its inductive invariants and the theorems that follow from them: first the scheduler (atomic switches, round robin, exit() never returns), then the tasks (no lost wakeup, exit codes, stacks, page frames) and the refinement of `TaskManager` |
| `Interrupts` | interrupts from boot on: _start, idt.rs, pic.rs, pit.rs, keyboard::init |
| `InterruptsProofs` | its inductive invariant and the theorems that follow from it |
| `PageAllocator` | what alloc_page and free_page promise |
| `Pmm` | memory/pmm.rs, which implements it |
| `PmmProofs` | the bitmap and its counters, for every memory map; the refinement |
| `BlockAllocator` | what kmalloc and kfree promise |
| `Heap` | memory/heap.rs, which implements it |
| `HeapProofs` | the block list, for every sequence of calls; the refinement |
| `AddressSpace` | what map_page and unmap_page promise: one mapping, obeyed at once |
| `Vmm` | the operations of memory/vmm.rs with the processor's cache, which implement it |
| `Memory`, `MemoryMC` | Vmm, Heap and the stacks of tasks on one set of page frames |
| `MemoryProofs` | the page tables are a tree, for any number of frames and any boot loader's tables that no walk leaves for a large page; every frame has one use; `Heap` on these frames; the refinement of `AddressSpace` |
| `KeyQueue` | what the keyboard buffer promises |
| `Keyboard`, `KeyboardMC` | the buffer of device/keyboard.rs and its reader, which implement it |
| `KeyboardProofs` | the ring is a queue, for every size |
| `Terminal`, `TerminalMC` | ui/terminal.rs with the shell's line editor, and the demo tasks drawing |
| `TerminalProofs` | the screen shows the line, for every screen, prompt and printed text |
| `Arithmetic` | rounding, remainders, least elements, induction up to a bound, and cells of a grid, for the proofs |

Definitions carry the names of the code. One whose comment begins with
`Faulty:` is not part of a model: it is the definition after it with a plausible
mistake, and is there to show that a property notices the mistake.

### Scheduler

*State.* One function per field of `TASKS`, one variable per static, and the
hardware: `cpu` (the slot whose stack RSP is in), `interrupts` (IF), `isr`
(IRQ0 in service). What a stack holds is kept per slot: `pc` (where the task is
in its own code), `irq` (a timer handler frame on top of it), `sched` (where a
`schedule()` frame on top of that is), and the locals. `cpu` and `CURRENT`
differ while `schedule()` is between its assignment and `switch_to`.

*Steps.* Creation is one action per store another context can see
(`alloc_slot`, `AllocPhys0`, ... `StoreExitCode`): it takes no lock and leaves
IF alone, so that `_start` executes it with interrupts on. The development
profile stores in source order, and so does the model. The interrupt handler
up to the call of `schedule()` is one action (`TickQuiet`, `TickPreempt`); it
runs with IF clear. `schedule()` is six: `Acquire`, `PickNext` or `PickNobody`,
`DropGuard` (which restores RFLAGS before the switch), `switch_to`, and
`Resume`, the return into the task or into the handler, which sends the end of
interrupt and executes iretq. `yield_cpu`, `exit` and each turn of `wait_for`
start with cli and are one action up to `schedule()`; `sleep_ms` is two, since
it reads the clock before cli.

*Abstractions.*
- `sleep_until` holds the ticks left, not an absolute tick; `None` stands for 0.
  The deadline a sleeper has computed and not yet stored (`arg`) also counts down.
- A task exits with its own pid as its code, so that codes tell tasks apart.
- A stack is its two frames, `stack_top` the frame after the upper one. Frame 0
  is reserved by the page allocator.
- The page allocator is a set of free frames, the lowest of which is handed
  out (`Pmm` shows that the bitmap does that). alloc_page is one step; only
  `_start` can be interrupted in it, and the one shipped task that allocates
  (the shell, in memtest) is created after the last alloc_page of `_start`.
- A panic begins with cli and never returns: a location `panic`.
- Not kept: names, `ticks_run`, logging.

*The abstract task manager.* `TaskManager` has one task `on`, its atomic
`Switch`, `Tick`, and the calls; a task's status is none, alive, blocked or dead.
`Scheduler` maps `CURRENT` to `on` and Ready and Running to alive; the fields a state
does not use (the deadline of a task that is not Blocked, say) map to None. The
refinement says that whatever schedule() and the handlers do in between, a
Blocked task leaves only on its event, a code is kept until it is taken, and
only a live task that is on the CPU makes calls. It holds after boot; during boot
it does not, because of the first finding.

*Bounds.* `MAX_TASKS` (32 in the code) is 3 or 4, `STACK_PAGES` 2 as in the
code, `TIME_SLICE_TICKS` 3 and `TICKS_PER_SECOND` 100 as in the code, sleeps of
5 ms (less than a tick) and 29 ms (2.9 ticks, rounded to 2). `MaxPid` bounds the
creations by tasks, since `NEXT_PID` only grows. `Available` are the frames that
are free when `_start` creates its tasks. They are any finite set: the memory map
has holes, and so has what the bitmap, the heap and the page tables have left of
it, so that the two frames of a stack need not be neighbours. The instances have
such holes, also between the two frames of a stack; an odd frame is
left in `sched_boot`, and `sched_api` runs out. Only `guard_page` is about an
unbroken range. Four slots have every case of the
table: idle, a caller, another task of each state, an empty slot; the proofs
cover the other values.

### Pmm

Addresses are frames. A bitmap byte has `BITS` bits and a page `PAGE_SIZE` bytes,
both 2 in the run: nine frames take a bitmap of five bytes in three frames, the
last byte of which has a bit past the end. Every set of usable frames is an
initial state. The boot loader is external: usable regions are page aligned, in
order, do not overlap, and do not contain frame 0. `held` records what callers
hold; callers give back only that.

### Heap

The list from `HEAP_HEAD` is a sequence of `[addr, size, used]`. The magic
numbers say the same as `used` and are left out. `Take` is a kmalloc that finds
a block; `expand_heap` one that does not, after which the recursive call is a
`Take` (or would be another expansion) for the size in `retry`. By itself an
expansion is one step that may panic for want of frames; `Memory` composes its
parts differently, with the mapping page by page in between. Sizes are
scaled: `HEADER_SIZE` is 1.5 `ALIGN` as in the code, and the sizes 1, 5 and 9
include one whose expansion would be too small were the header forgotten.

### Keyboard

The ring with its two indices, the shift flag, and the shell's reading loop. A
task runs with IRQ0 in service (proved of `Scheduler`), so the PIC holds back
IRQ1 until the idle context runs: `on_irq1` needs `~running`. The scancode
tables are abstracted to key and shift flag. The keyboard may send any bytes in
any order: the handler drops the prefix E0, so that an extended key, the shift
bytes that PrintScreen sends with it and a release after an overflow all come to
it as plain codes. `shift` is what the last shift byte said; that a shift key is
held while it is set is not true of the code (E0 2A sets it), and not claimed.
`dropped` is an observation, not state of the code.

### Interrupts

`boot` is the number of the step that `_start` executes next; the steps of
`keyboard::init` are separate, because keys may come between them. `stack` holds
the handlers that are open in the idle context and in a task: an interrupt is
`Deliver` (the stub, with IF cleared), the registered handler (`Quiet` or `Switch` for the timer, `on_irq1`), and `send_eoi` with iretq. A
`Switch` leaves its handler open on the idle stack and goes to a task, from
which `TaskBack` returns. Which task that is belongs to `Scheduler`. An
exception may come anywhere once the IDT is loaded; all of them halt for ever.

External: the 8259 starts with any requests pending (its service and mask bits
are those of a reset), latches edges (a
request stays until it is delivered or ICW1 forgets it) and is fully nested; the
keyboard controller has one output buffer, raises line 1 when it becomes full
and CCB bit 0 is set, and may start with a key in it. `Period` is guarded by a
timing assumption: the tick handler itself takes less than a period (10 ms).

*Bounds.* Lines 0, 1 and 3, that is one line that remap masks; `TIME_SLICE_TICKS`
3 as in the code. `KeysAreRead` needs it to be at least 2: with 1 every tick
could end a slice and the keyboard's line never be reached.

### Vmm and Memory

A page is its number, of which `split_indices` makes four indices. `mem` holds
the contents of the frames that are or may become tables, `freePages` those
alloc_page can give out; a fresh frame is full of old entries (`Junk`).
`map_page` is one action: three calls of `next_table_or_create`, the entry,
invlpg. A panic in the second or third call leaves the tables made before.
`Access` and `Evict` are the processor: it translates with what it has cached,
or walks and may keep the result, and forgets translations as it likes. It also
caches the upper levels, but no table is ever freed or replaced. They are
enabled for the device's page alone: pages of the heap are mapped once.

`Memory` is who uses them. `kmalloc_init` and `expand_heap` start a `job`, which
is map_fresh_pages: `AllocFresh` and `MapFresh` for every page, then `Built`,
the block header. Between them only the panics can happen: memory is set up
before interrupts are on, and after that the shell alone uses the heap. Tasks
take two frames and give one back; a driver maps its device's registers
(`enable_lapic_pic_mode`; the interface also allows to move and remove them).

*The boot loader's tables* are constants: a root, a table for the direct map
with a large page in it, tables for the kernel. A walk that entered the large
page would read its data as entries, which `Junk` stands for: `get_table` and
`get_phys_addr` never look at the large-page bit. `DirectMapAssumption` excludes
it, and is an assumption about the machine, not something the code ensures:
`HEAP_START` is `0xffff_8001_0000_0000`, 4 GiB above the usual base of the direct
map, so that on a machine with more memory than that the two meet, and nothing
that is checked or proved of `Memory` applies there. `LoaderAssumption` says that
the loader's tables are a tree: a table is named by one entry. Limine makes a new
table for each entry it finds empty, and maps nothing recursively. `Opaque` are
the frames at which the walks of the kernel end before they enter them: the large
pages, and the loader's own last-level tables, which lie below entries that no
page of the kernel uses.

*Bounds.* Tables of two entries give four levels with four-bit pages: four pages
of heap, which share two tables, and the device's page. Nine frames, of which
three become tables for the heap and two for the device: they run out in every
operation. Two tasks, two device frames, two sizes, one of which takes two pages.

### Terminal

The screen is a grid of glyphs, `cursor` that of the shell's `Terminal`. `putc` is
composed of the glyph or line end, the wrap (`Wrapped`) and the scroll
(`Scrolled`), as in the code. `KeyChar`, `KeyBackspace` and `KeyEnter` are the
arms of `handle_key`; every other key is ignored. A command is what it prints (a
member of `Outputs`), or `cls`, or it never returns, or it is `sleep`, which
prints before and after it sleeps (`Sleeps`, `Awake`). `DemoTask` is a turn of
task_a or task_b, between two keys or while the shell sleeps, which is when other
tasks run: a Terminal of its own, which clears the one framebuffer and prints. `origin`, the place of the prompt, `scrolled`, counted since then, and
`overdrawn` are observations; places are measured in cells from the top of
the screen as it was when the prompt was printed, which is how a position
survives a scroll. `TerminalAssumption`
asks that the prompt and a full line fit on the screen (256 characters; the
usual 80 by 25 is ample); on a smaller one the prompt would scroll off and
backspace stop at the top left. It also says of `Outputs` what the `print` calls
of `execute` and `kmalloc_dump` have in common: every command's last character is
a line end, so that the next prompt begins a row. `print` is the last value of
`Printing`, a recursive function over the characters (`for c in s.chars()`).
The screen of 3 by 3 with a prompt of two and a
line of up to five wraps at every column and scrolls while the line is typed and
when it is executed.

## Runs

| Run | Shows |
|---|---|
| `sched_boot` | the shipped configuration: three tasks created with ticks between any two stores; switches are atomic, one task runs |
| `sched_api` | all calls after boot, with slots, frames and pids running out: the refinement of `TaskManager`, exit never returns, frames are owned by one task and accounted for, no wakeup is lost, `wait_for` returns the right code, no Ready task is overtaken |
| `sched_live` | every ready task runs, every sleeper wakes and runs |
| `boot_lost_wakeup` | **finding**: creation with interrupts on can erase the deadline of the task it creates |
| `guard_page` | **finding**: where the free frames are unbroken, the page below a stack is another task's stack |
| `interrupts` | no interrupt comes before its handler or on a line nobody handles, every end of interrupt ends its own, no key is left in the controller without an interrupt to come, every key is read |
| `pmm` | counters, the safety of the bitmap, None only when exhausted, and the refinement of `PageAllocator`, for every memory map of nine frames |
| `heap` | tiling, no leak, one expansion is enough, and the refinement of `BlockAllocator` |
| `heap_memtest` | **finding**: neighbours freed in list order are not merged |
| `memory` | every frame has one use, also after a panic half way; the heap describes mapped memory; the refinement of `AddressSpace`: no mapping disturbs another, no stale translation is used |
| `terminal` | the cursor is as far behind the prompt as the line is long, and the screen shows the prompt, the line and nothing behind it |
| `keyboard` | whatever bytes come, the refinement of `KeyQueue`; every waiting key is read |

Deadlock is checked in the scheduler and keyboard runs. `Pmm`, `Heap` and
`Memory` stop after a panic or, in Pmm, when no region is usable; `Terminal` stops
after a command that halts or resets the machine, `Interrupts` after an
exception.

That the two frames of a stack are one region, which the code below `stack_top`
relies on, is not among the properties, since it is not true: new_kernel_task
calls alloc_page twice, and the frames it gets may lie on either side of a hole
in the memory map, of a frame that the heap or a page table has taken, or, once
tasks have exited, of somebody else's stack. The stack then is one page, with
foreign memory below. This can befall the tasks of `_start` too; the instances
of `Scheduler` have such a stack. Nothing in the repository says that it cannot.

Other hazards of the list have no property either, for the reasons given there:
a task that exits while it is being created and two creations at once (the
shipped tasks do neither, and during boot the second would break
`ExitNeverReturns`, see below), the shift flag, the demo tasks drawing over the
command line, a cycle of waiters, and the walk into a large page.

*Fairness.* `sched_live` assumes WF of `Tick` (the PIT never stops; a held-back
IRQ0 stays pending) and of `CpuStep` (the CPU executes). WF of `CpuStep` as a
whole says that the running body makes its next call, which the three shipped
bodies do; nothing is assumed of the scheduler's choice. It starts with the
tasks created, because of the first finding. `keyboard` assumes WF of the shell's
loop and of its resumption, which is what `sched_live` shows of the scheduler.
`interrupts` assumes WF of the CPU's own steps (`Boot`, `Handler`), WF of
`TaskBack` (a task's loop comes back to sleep_ms) and SF of every `Deliver`: the
processor looks for interrupts after each instruction, so that a request which
is deliverable again and again is delivered; a period is longer than that.

*Findings.* Besides the three runs, reading the sources showed disagreements
that no run models: `help` says of breakpoint "trigger int3 (returns normally)"
(simple_shell.rs:72) and every exception handler halts for ever
(idt.rs:246-251); it says of synwrite "via the int 0x80 syscall path" (line 76)
and the wrapper executes `syscall` (syscall.rs:66-79); it says of uptime "show
ticks/seconds since boot" (line 74), and the ticks that come while a task runs
with IRQ0 in service are latched as one, so that the clock is slow by the rest.
`keyboard::init` takes the first byte in the controller's buffer for the answer to
its command (keyboard.rs:150) and writes it back as the configuration, be it a
scancode: the interrupt is enabled all the same, which `KeyboardAlive` needs, but
the translation of scancodes may be off.

## Proofs

TLAPS checks the modules whose names end in `Proofs`, and `Arithmetic`. Each is
about its component with arbitrary constants that satisfy the component's named
assumption (`Memory` has four: one for its sizes, one for the boot loader's
tables, `DirectMapAssumption` for the machine, and that of `Vmm`): any number of
slots, tasks and pids, any set of frames, any memory map, byte width, page size, ring size, header size, alignment. TLC evaluates these
assumptions in the runs, and checked each invariant below on the run's instance
before it was proved. None of the properties is inductive by itself.

### Scheduler

    IInv == TypeOK /\ StackInv /\ LockInv /\ TableInv /\ CreateInv

(the first half of `SchedulerProofs`) says: what is saved on the stack of every slot that is not on the CPU
(`StackInv`: it is at the return of `schedule()`, only the idle stack has a
handler frame, and IRQ0 is in service whenever another task is on the CPU); that
the lock is held exactly between `Acquire` and `DropGuard` or the early return,
with IF clear throughout and saved as clear (`LockInv`); that CURRENT and the
table agree up to the switch in progress (`TableInv`); and what a creation in
progress has reserved, so that the slot it writes is not one that runs
(`CreateInv`). `Invariance` proves it with one step per action. From it follow
`TypeCorrect`, `Preemption`, `ScheduleAtomic`, `LockFree` and `OneRunning`.

`ExitIsFinal` needs more: that `schedule()` called by exit finds a task. Its
lemmas prove that the round-robin scan reaches every slot, by the least-number
principle, and that the idle context is Ready while another task is on the CPU.
It assumes `Made = BootTasks`. While `_start` still creates tasks the statement
is false for tasks that create others (the shipped ones do not): `_start`
suspended between `alloc_slot` and its store of `Ready` has chosen a slot that a
task may also choose, fill, run and exit from; the late store makes the exited
context Ready, and `schedule()` returns into exit().

`RoundRobin` is the safety half of `ReadyRuns`, and needs no fairness: a Ready
task stays Ready until `schedule()` chooses it, and each choice of another slot
brings it nearer to its turn, so that it is passed over fewer than `MAX_TASKS`
times (`NeverOvertaken`, which `sched_api` checks). It holds during boot too. Its heart is
`ChoiceNears`: the scan would have met the task before the slot it chose, were
that not nearer. What is left to fairness is that `schedule()` is called again.

The theorems of the second half of `SchedulerProofs` need the tasks' side as well,

    TaskInv == NewInv /\ PidInv /\ WaitInv /\ ArgInv /\ PageInv

that is: what new_kernel_task has stored so far (`NewInv`); that a pid is given
once (`PidInv`); that a Blocked task has a deadline or waits for a task that is
alive, never both, and a dead task's code is its own (`WaitInv`); that what a
wait_for returns is -1 or the code of the pid it was called with (`ArgInv`); and
that free frames, the stacks of living tasks, the stack in use and the frames a
creation has taken are pairwise disjoint (`PageInv`). They assume `Made = BootTasks` too: during boot
`NoLostWakeup` is false, which is the first finding. With it are proved
`NoLostWakeup`, `ExitCodeDelivered`, `StacksDisjoint`, `FramesAddUp` (by counting
the frames with the cardinality theorems) and `SchedulerImplementsManager`: each
action of `Scheduler` maps to a step of `TaskManager` or to none, slot by slot.

### Interrupts

    IInv == TypeOK /\ BootInv /\ StackInv /\ AliveInv

says what the steps of `_start` have set up, that nothing is open before the last
of them (`BootInv`); that at most one handler is open at any time, in the idle
context, and that a task runs only above an open timer handler, whose line in
service holds back every other (`StackInv`); and that from `read_ccb` on a full
buffer has its edge if the CCB enables it (`AliveInv`). This is why an end of
interrupt that names no line is safe (`EoiIsOwn`), why no interrupt misses its
handler (`EveryLineHandled`), and why the keyboard never falls silent
(`KeyboardStaysAlive`).

### Pmm

    IInv == Typed /\ NotUp /\ Partition /\ BitmapIsUsable /\ CountsAgree

`Partition` is the heart: once the allocator is up, each frame that init_pmm
freed is free in the bitmap or held, never both, and no other frame is either.
The lemmas about init_pmm say which frames it frees; those about alloc_page that
the search, byte by byte and then bit by bit, finds the least zero bit. Clearing
or setting a bit then moves one frame from one side to the other, and the
counters with it. Hence `CountersMatchBitmap`, `BitmapNeverGivenAway` (which also
shows that the bitmap's pages, rounded up twice, hold a bit for every frame),
`NoFrameMissed`, `FreePageNeverPanics` (the assertions of free_page) and
`PmmImplementsAllocator`.

### Heap

    IInv == TypeOK /\ NoHeap /\ Tiling /\ HeldInv /\ RetryFinds

`HeldInv` restates `UsedIsHeld` of the *set* of used blocks, and adds that no
pointer is held twice. The first half of `HeapProofs` is about lists: what
putting, inserting, removing or appending a block makes of a list that tiles,
and of its used blocks; and that the blocks of such a list are in address order
(`Ordered`). That is an induction over the list, which the provers cannot do; it
is proved by the least-number principle instead: the first block that began too
early would have a predecessor that did. Every operation then is one such change
(`TakeShape`, `ExtendIInv`, `FreeShape`), and `Tiling` with `HeldInv` follows:
`BlocksTile`, `UsedMatchesHeld`, `OneExpansionEnough` (the page count is rounded
down, and the one page added in bytes makes up for it), `KfreeNeverPanics` (the
block of a held pointer is still a block, and used, whatever was split and merged
around it) and `HeapImplementsAllocator`, where `Ordered` makes a new block
disjoint from those held.

### Keyboard

    IInv == TypeOK /\ WaitingIsTyped

`WaitingIsTyped` says that each slot from tail to head holds a character that was
typed. With the arithmetic of indices modulo the size, `KeyboardImplementsQueue`
shows the ring to be a queue of one less than its size: `push` appends to it, or
drops what finds it full, and `pop` takes its first.

### Memory

    IInv == JobInv /\ HeapEnd /\ JobPages /\ MapsInv /\ CacheInv /\ FramesInv

`FramesInv` says that there is a function `R` from frames to roles: a table of
level 1 to 4, free, in hand, mapped, lower or upper half of a stack, lost, or
the boot loader's and not walked. As a function it gives each frame one role by
construction; what has to be shown is that the state agrees with it. `Tree` says
that entries of a table of level l lead to tables of level l + 1, that every
table but the root is named by one entry of one table, and that entries of the
boot loader are as it left them. `Roles` and `Once` say that the free list, the
stacks, the hand and the mapped pages are the frames of their role, each named
once. The role is not part of the state, and is chosen anew in each step: a
table that `next_table_or_create` makes moves one frame from free to its level.

The first part of `MemoryProofs` is about walks. `Clear` are the indices whose
walk meets no opaque frame, which `DirectMapAssumption` says of every page: all
of `FramesHaveOneUse`, `HeapBacked` and `TablesImplementSpace` rests on it. For
them `WalkIs` gives the level of each table reached; `TableTree` and
`NewTableWalks`, that a new table, emptied before it is entered, keeps the tree
and every walk; `LeafOfPage`, that writing an entry of the last level changes
the walk of one page, because the index split is injective and the tables are a
tree. A `map_page` is three calls and a write, with a panic possible in
each (`After` is what holds of all of these).

`JobInv`, `JobPages` and `MapsInv` say how far map_fresh_pages is: what it was
called with still holds, the pages it is to map lie in the heap's window, and those
mapped are exactly the ones before `HEAP_END` and the first `i` after. `CacheInv`
says that the processor has no translation that the tables do not have.

`HeapOnFrames` comes first and does without `FramesInv`: with its expansion
spread over many steps the heap is still a behaviour of `Heap`, so that
`HeapProofs`, instantiated, gives its inductive invariant here. The page counts
that `JobPages` needs follow from it. Then `MemoryInvariance` has one lemma per
action, and from it follow `HeapBacked`, `MemoryTypes`,
`FramesHaveOneUse` (which counts the claims of the state on a frame, case by
case of its role) and `TablesImplementSpace`. There a map or unmap of a device
is a step of `AddressSpace`, an `Access` gets what the page is mapped to since
the cache agrees, and a map_page that panics after making tables leaves the
mapping as it was.

### Terminal

    IInv     == TypeOK /\ (\E k \in Nat : origin = k * cols)
                /\ (asleep => AtRow) /\ (~asleep => AtPrompt)
    AtPrompt == /\ Behind(shell, origin, n)
                /\ ~overdrawn => Shows(shell, origin, Shown, n) /\ BlankAfter(shell)

where `Shown` is `PROMPT \o line` and `n` its length; `AtRow` says that a command
that sleeps does so at the start of a row with nothing behind it. `ScreenShowsLine` speaks of
the numbers of cells; the invariant adds that the prompt began a row, and that
this row has not been scrolled off. The two depend on each other: a row is only
scrolled off when all `rows * cols` cells from it on are used, and the prompt and
a full line are fewer. `PutGlyph`, `PutNewLine` and `BackspaceIs` say what the three
operations do to the cursor and to every cell, in the three cases of a wrap and a
scroll; `GlyphShows` and `BackspaceShows`, that the cells of what was printed
keep their numbers when their rows move (`SameCell`: a number belongs to one cell).
What `print` returns is the last of the displays that `Printing` goes through.
The recursive function exists, and whatever putc keeps holds of each of its
values (`PrintingIs`, `PrintKeeps`, `PrintGlyphs`): both are inductions up to the
length of the text, by the lemma `UpTo` of `Arithmetic`, which rests on the least
number that would be wrong. So texts are of any length. From this follow
`TerminalTypes` and `ScreenMatchesLine`, for every screen on which the prompt and
a full line fit. A demo task's drawing is covered as well: it does not move the
shell's cursor, so that the first half of the property survives it.

### Only model-checked

- The liveness properties `ReadyRuns`, `SleeperRuns`, `KeysAreRead`,
  `WaitingIsTaken`: fairness is out of the prover's reach. `RoundRobin` proves
  what the first two need of the scan.
- The findings, which are counterexamples.

## Not modelled

- `syscall.rs`: nothing reaches its dispatch. `serial.rs`: polled output.
- How `execute` picks a command and its arguments, what commands report, colours
  and fonts: text without state.
- The flags of page table entries other than PRESENT; the local APIC's own
  registers, which are written once.
- What exceptions print before they halt.
- `pit::sleep_ms`, `set_mark`, `read_irr`, `read_isr`, `force_release`,
  `read_flags`: no callers.
- Interference between two callers of alloc_page or of the heap: there is one at
  a time in the shipped system (`_start`, then the shell).

## Plan

Done, in order of importance: Scheduler with its proofs and the refinement of
`TaskManager`, Interrupts, Pmm, Heap, Memory over Vmm, Keyboard, Terminal; the
theorems about Scheduler, Interrupts, Pmm, Heap, Memory, Keyboard and Terminal.

1. The shell task: the line editor over the keyboard's ring, with the sleep and
   the allocations of its commands.
