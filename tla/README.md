# ENOS in TLA+

A verification project for ENOS, a small 32-bit x86 kernel in Rust: a preemptive
scheduler, a ring 3 program behind a system call gate, interrupt handlers, spin
locks, and a shell on a kernel thread. The modules model the code in `src/src/`;
TLC checks small instances of them, and TLAPS proves their safety properties for
every value of their constants.

## The system

One CPU executes three kinds of code.

- `user_main` (pid 1), the ring 3 program. It enters the kernel through
  `int 0x80`, a page fault or another exception.
- `background_thread` (pid 2), a kernel thread that runs the shell: it empties the
  scancode queue, processes each key to the end (a whole command included), logs
  now and then, and halts until the next interrupt.
- Handlers: timer (IRQ 0, 100 Hz), keyboard (IRQ 1), system call, page fault,
  other exceptions. All gates are interrupt gates, so a handler runs with
  `EFLAGS.IF` off.

The timer handler hands the interrupted stack pointer to the scheduler and resumes
whatever stack pointer it gets back. That is the only preemptive switch; a page
fault of the ring 3 program is the only other one.

## Inventory

| Part | State | Operations | What is hard | What should hold |
|---|---|---|---|---|
| Scheduler, `task.rs` | task list, current index, tick count, tracked flag | register, tick, sleep, kill, fault, stats, snapshot | index shifts under removals; user_main tracked lazily; sleepers run on until the tick; one shared ring 0 stack | the manager knows who runs; no context lost; no panic; wake on time; round robin; no starvation |
| Interrupts, `interrupts.rs`, `idt.rs`, `pic.rs` | IF, IRQs in service | enter, return, EOI, `without_interrupts` | nested guards; acknowledgement across a switch | handlers are atomic; every IRQ acknowledged |
| Locks, all files | eleven spin locks | lock, unlock | handlers that take a thread's lock | no handler ever spins |
| System calls, `syscall.rs` | none | print, yield, sleep | run with IF off, share locks with the shell | as above; buffers inside user space |
| Scancode queue, `shell.rs` | ring, head, tail, len | push (IRQ), pop (thread) | full and empty look alike | is a bounded FIFO |
| Polling, `shell.rs`, `main.rs` | `processed` | poll, halt | key between the last pop and `hlt` | accepted keys are processed |
| Status commands, `shell.rs` | none of their own | ps, top, tasks, kill | two critical sections per command | reports agree with the scheduler up to what happened in between |
| Keyboard decoding, `shell.rs` | shift, caps, prefix | process_scancode | dropped scancodes, fake shifts, lag | keys act as struck; losses heal |
| Line editor and history, `shell.rs` | buffer, entries, index, draft | edit, up, down, record | limits 256 and 64; many prints per key, ring 3 prints between them | the screen shows the line; the history is clean; the draft comes back |
| Screen, `vga_buffer.rs` | cells, column, cursor | write_byte, new_line, backspace, clear | full rows; backspace in column 0 | the last row shows the end of the line |
| File system and session, `fs.rs`, `shell.rs` | files, user | create, delete, write, read, login | limits; shifts under removals; permissions | implements a map with a capacity |
| Calculator, `shell.rs` | parser position | evaluate | checked arithmetic, associativity, recursion | agrees with a reference |
| Heap, `allocator.rs` | offset | alloc, dealloc, stats | alignment; nothing is freed | blocks disjoint and inside the heap |
| Frames, `memory.rs` | map offset, next frame | allocate_frame | 32 and 64 bit mix | frames fresh, usable, none lost |
| Paging, `paging.rs` | directory, two tables | init, range check | overflow of pointer + length | the check agrees with the MMU |
| GDT/TSS, PIT, serial, boot | tables, ports | init | order at boot | see "Not modelled" |

## Modules

**TaskManager** is `task.rs` plus the part of the CPU it drives. A method runs
under the `SCHEDULER` lock with interrupts off, so a method is one action:
`register_named_task`, `scheduler_tick` (with `schedule_next`),
`sleep_current_task`, `kill_task`, `terminate_current_user_task_from_fault`, and
`switch_to_user_mode` of `main.rs`. The helpers have the source's names and work on
a view (task list, index). Two variables are not in the manager. `running` is the
task whose instructions the CPU executes. `saved` says where the context of each
suspended task lies. A stack pointer is a place `<<pid, depth>>`; ring 3 has a
single place, the one `TSS.esp0` names. Pushing a frame destroys what lay there and
resuming a frame goes on with whoever's context lies there, so a wrong index or a
stale pointer in the manager shows as a lost context. `deadline` is a history
variable for the sleeper. Names and labels of tasks are left out, stack contents
are only their owner.

**Kernel** composes that manager (`TM == INSTANCE TaskManager`) with interrupts,
locks, the PIC and the shell. It executes the code of **KernelCode**, which has the
handlers and the functions of the shell under the source's names. Code is a sequence of instructions: take or release a
lock, turn interrupts off or on, acknowledge, call the manager, push or pop a
scancode, halt. A function with branches that lock differently is a set of such
sequences. The shell and each handler have a continuation, and an interrupt may
arrive between any two instructions with IF on. `without_interrupts` is the `cli`
instruction: it puts an `sti` after its body only if IF was on. A taken lock is
`spin`. Allocation is assumed wherever the code may allocate, which only adds lock
operations. One print stands for several in a row, and one `char` for the four
spaces of Tab. The scancode queue is a bounded FIFO here.

**ScancodeQueue** is the ring buffer of `shell.rs`, and **BoundedFifo** the abstract
queue it is shown to implement (`Contents` maps the ring to a sequence). That is
what justifies the FIFO in Kernel.

**StatusReport** extends TaskManager with the commands that ask it: `ps`, `top`,
`tasks` and `kill`. A command that asks twice is two actions; `asked` keeps what the
first one learned while ticks, sleeps and faults (`Meanwhile`) go on, and `printed`
the last report, with what its command had said before (`said`).

**Keyboard** goes from keys to the actions of the shell. Fingers press, hold and
release keys; the keyboard sends the bytes of scancode set 1, with or without the
fake shifts around cursor keys; the interrupt queues a byte or drops it when the
queue is full; `process_scancode` decodes with the complete tables of `map_key`.
Every byte carries what its key stood for, which only the properties read.

**VgaBuffer** has the methods of `Writer` as functions on cells, column and cursor.
**LineEditor** is `push_char`, the history and `evaluate_command`. Only the shell
thread touches buffer and history, so a key changes them in one step, but it prints
in several calls, which wait in `todo`; ring 3 may print a line between any two. The
prompt is one character for root and two for a guest, so that it fits the small
screen and tells the two apart.

**FileSystem** is `fs.rs` with the shell commands over it and the session, and
**FileStore** the map it is shown to implement. A name is a model value that
`is_valid_name` accepts or refuses. The run has texts longer than `MAX_FILE_SIZE`;
from the command line `MAX_INPUT_LEN` already keeps them shorter.

**Calculator** is `CalcParser`, function by function, over the integers from
`-MAX - 1` to `MAX`. A position takes the place of the mutable parser, and a call of a
function or a round of its loop is an entry of one recursive function (`calls`). Its
reference, `Meaning`, is about positions in the text: it splits an expression at the
operator that is applied last and never scans left to right.

**HeapAllocator** is the bump allocator with the overflow behaviour of this build
(plain additions are checked); `blocks` remembers all blocks ever handed out.
**FrameAllocator** is `allocate_frame`, one action per pass of its loop. Regions may
lie across or above the largest 32-bit address. `IsMap` says which memory maps a boot
loader leaves: regions do not overlap. If a region starts inside the last page below
4 GiB, the cast in `memory.rs:170` yields address 0. The model does the same; the two
properties have the absence of such a region (`NoneCut`) as their premise.

**UserMemory** has the page tables as `paging::init` fills them, an MMU that walks
them (external: two levels, present and user flags), and `SYS_PRINT` with any
pointer and length. The properties compare the arithmetic check of the code with
what the MMU would let the program read.

The last three take the word and page size from **AddressSpace**, and **Memory** puts
them side by side for TLC. They share no state, so steps of different components
commute and every property reads one of them: `moving` picks the one that moves in
a behaviour, the others stay in an initial state.

Modules whose names end in `Proofs`, and **DataLemmas**, hold the proofs:
TaskManagerProofs, SchedulingProofs (sleeping, accounting, round robin, and
StatusReport), KernelProofs (KernelCode and Kernel), LineEditorProofs,
FileSystemProofs, CalculatorProofs and HardwareProofs (HeapAllocator, FrameAllocator,
UserMemory, ScancodeQueue and Keyboard).
Definitions whose name ends in `_Something` and that carry the comment "Slip", or
stand right before the definition they vary, are deliberate mistakes; no
specification uses them. Putting one in place of the right definition breaks the
property it is paired with in `PROJECT.json`.

## Runs

| Run | Configuration | Result |
|---|---|---|
| scheduler | `StatusReport.cfg` | pass: 9 invariants, 3 action properties (720,000 states) |
| scheduler_live | `TaskManager_live.cfg` | pass: no starvation, sleepers wake, marked tasks die, the inductive invariant |
| kernel_locks | `Kernel_locks.cfg` | pass: locks, atomic handlers, acknowledgement (810,000 states) |
| kernel_live | `Kernel_live.cfg` | pass: accepted keys are processed (120,000 states) |
| scancode_queue | `ScancodeQueue.cfg` | pass: the ring implements the FIFO |
| keyboard | `Keyboard.cfg` | pass: keys decoded as struck, losses heal (4,000,000 states) |
| line_editor | `LineEditor.cfg` | pass: screen, buffer and history agree (450,000 states) |
| calculator | `Calculator.cfg` | pass: agrees with the reference on inputs of up to 7 characters (1,200,000 states) |
| file_system | `FileSystem.cfg` | pass: implements the map, files persist |
| memory | `Memory.cfg` | pass: heap blocks and frames sound, none lost, the range check agrees with the MMU, the heap runs out |
| kernel_queue_lock | `Kernel_queue.cfg` | violated: see finding 1 |
| kernel_writer_lock | `Kernel_clear.cfg` | violated: see finding 2 |

**scheduler** is ENOS's own use, kill from the shell thread only, with three kernel
threads instead of one so that removals shift indices in every position. Twelve
ticks let a sleep of six end and start again. The run may stop (deadlock is not
checked) because `MaxTicks` ends the ticks. **scheduler_live** also lets kill be
called with the current task as its target, which the API allows and the shell
never does. It has `TickModulus = MaxTicks`, so the counter wraps and the bound
never applies.

**kernel_locks** has every kind of key, command and ring 3 event, two keys and a
queue of one, so that the queue is full when the second key comes. Ticks are
unbounded (the counter wraps at 2). Deadlock is checked: the only states without
progress are the busy loops. **kernel_live** uses few keys, so that the
interleavings of polling, halting and ticking are complete; the ring 3 program
sleeps, faults or raises an exception. Kernel runs have one
kernel thread, as the code has.

**keyboard** has both shifts, caps lock, a letter, keypad 8, Up (the same code behind
the prefix) and Left, two keys held at once and a queue of two, so that any byte of
a pair can be the one that is lost. **line_editor** has
a screen of two columns and three rows, lines of three characters and a history of two: prompt and line
wrap, Tab meets the limit and the oldest entry is dropped.

**calculator** uses three-bit integers (-4 to 3), where 2+2, -(-4), 2*-2/-1 and
2*-2%-1 all overflow. An input that failed with more than blanks left is not made
longer, since the parser never looks further. The theorems have no such limit.

**file_system** has room for three files, four valid names and one that is refused.
**memory** has nine pages of four bytes. The heap is six bytes near the top, so that
padding, size and address can each be what does not fit. The frame allocator meets
all maps of up to two regions out of nine bases and five lengths, some across or
above the largest address, one in the last page; the kernel lies inside a page at both ends. The tables
have three entries, and `SYS_PRINT` gets all 1296 pairs of pointer and length. The
run may stop: the kernel has panicked, or the last frame was asked for.

Where a run is small, the theorem about the same property is what covers the real
sizes (below). Larger instances of two runs pass
as well: Keyboard with a queue of three and three keys held (69,000,000 states),
LineEditor with three columns and lines of four characters (20,000,000 states).

### Findings

1. `poll_input` locks `SCANCODE_QUEUE` with interrupts on (`shell.rs:273`). A key
   at that moment makes the keyboard handler spin on the lock for ever.
2. `clear_screen` locks `WRITER` with interrupts on (`vga_buffer.rs:181`). A tick
   can then switch to the ring 3 program, whose print spins with interrupts off.
   The run lets the ring 3 program print at any time. The demo program prints only
   once, at its start (`main.rs:131-137`), so with it the hang is latent: in
   practice it takes a ring 3 program that prints later.

Both are what `without_interrupts` is documented to prevent
(`interrupts.rs:175-177`). `GuardedLocksNeverSpin` says that no other lock has the
problem. `KeysProcessed` is stated up to these hangs, and up to the endless loop that the
handlers of unexpected exceptions end in.

### Fairness

In TaskManager: the boot code runs on, and the tick is served (weak fairness),
because the PIT never stops and threads run with interrupts on. In Kernel: a
handler that can go on does (weak), and both the tick and the thread's own
instructions get their turn although the other may intervene again and again
(strong), because some 10 ms of execution lie between two ticks. No fairness is
assumed of keys or of the ring 3 program.

The heap has no fairness. `RunsOut` has weak fairness of `alloc` as its premise:
somebody goes on entering commands, and each one builds a `String`. An idle kernel
does not allocate.

## Proofs

For every number of kernel threads, every set of stack depths and sleep arguments,
every tick bound and modulus and both uses of kill (`ConstantsAssumption`):

- `TypeCorrect`, `NeverPanics`, `ManagerKnowsWhoRuns`, `SwitchesAreSafe`: the
  invariants `TypeOK`, `NoPanic`, `RunningIsCurrent`, `ContextsIntact`;
- `Inductive`: the invariant `IInv` they follow from.

None of the four is inductive alone. The scheduler does not panic because a kernel
thread is always ready, which needs `WellFormed` (all registered threads are in the
list, ready; pid 1 is the only user task). A switch resumes the right task because
frames of different tasks are different places (`SavedInPlace`) and the list has
each pid once. The lazy tracking of user_main is right because the first tick or
sleep comes from ring 3 (`BootProgress`). A mark can only be on the current task
(`MarkedIsCurrent`), so that the clean-up removes nobody who is still needed.
TaskManagerProofs has what the helpers preserve first, then one lemma per action.

Four more theorems rest on `IInv`. `GoneForGood` (`RemovedStaysRemoved`): only
registration and the lazy tracking add a task, and the flag stays set after
tracking. `MarkedTaskDies` (`MarkedDiesNextTick`): a mark is on the current task
only, and a marked task is never given a wake-up time (`MarkedNeverWakes`, a second
invariant). `KillsAreImmediate` (`KillIsImmediate`), for kill from kernel threads
only: the current task is then a kernel thread, which kill refuses.
`ListingsAreTrue` (`PsTruthful`): the rows patched into the list and the count
agree.

SchedulingProofs goes on from `IInv`. What is about ticks assumes that the tick
counter does not wrap (`NoWrap`, `MaxTicks < TickModulus`): it is a `u64` that counts
100 ticks a second. scheduler_live checks that a wrap costs no wake-up.

- `SleepersWakeOnTime` (`WakesOnTime`) and `SleepersStayAsleep`
  (`NeverResumedEarly`). `TimeInv` adds that the `wake_at` of a sleeper is the
  deadline itself.
- `TicksAreCharged` (`TickAccounting`). `AccountInv` says that the ticks used add up
  to the ticks passed while user_main is in the list, and to at most that once it is
  not; nobody else goes away. A charged counter cannot wrap because it is at most the
  sum.
- `TicksGoRound` (`RoundRobin`), for kill from kernel threads only, as the shell calls
  it: then no tick finds a marked task, the list keeps its places, and the index moves
  to the next ready one (`Closer`).
- `ReportsRefineScheduler`: the status commands do to the manager only what `Spec`
  allows, so all of the above holds while they run. `TasksCountsItsList`
  (`CountCoversList`), `KilledStaysUnlisted` (`KilledIsNotListed`) and `TopAddsUp`
  (`PercentagesAddUp`) follow with an invariant on what a command knows between its
  critical sections (`ReportInv`, `TopInv`).

For every set of commands and keys, every queue capacity and ring 3 program
(`KernelAssumption`, `CodeAssumption`): `AtomicHandlers` (`HandlersAreAtomic`),
`HandlersNeverSpin` (`GuardedLocksNeverSpin`), `ShellNeverWaits` (`ShellNeverSpins`),
`NeverBoth` (`InputAndHistoryApart`) and `IrqsAreAcknowledged` (`IrqsAcknowledged`).
The argument has two halves. First, each piece of KernelCode is safe by itself, from
any state in which its caller may call it: it takes no lock it holds, releases what it
takes, and as thread code holds a lock of a handler with interrupts off only. Second,
the invariant `LockInv`: every lock held belongs to the thread or to the one active
handler, and both run code that is safe from here on. Interrupts stay off in a
handler because the `cli` of its prints finds them off. This is what lets TaskManager
take a whole method for one step. `AckInv` says that an IRQ in service is the active
handler's, whose code has yet to acknowledge it.

For every screen, line limit, history size and set of characters (`ScreenAssumption`,
`LineAssumption`): `HistoryStaysClean` (`HistoryIsClean`), `BrowsingIsFaithful`
(`BrowsingShowsEntry`) and `DraftIsKept` (`DraftComesBack`). `LineInv` adds that lines
fit the limit, so that what history_up and history_down put into the buffer is never
cut, and that the draft is the line kept for the property.

`LastRowIsTrue` (`LastRowShowsLine`) and `WholeLineIsShown` (`WholeLineShown`) are about
the screen between two keys, so they say nothing of the states in which the shell is
still printing. `ShowInv` (`ShowInductive`) does: either the screen lacks the last
characters of the line and these are pending (`Typing`), or it shows an older line, and
a backspace for each of its characters and then the new line are pending (`Erasing`), or
one character is too many (`Backspacing`), or the line is done and its end, the output
and a prompt are pending (`Prompting`). Below that are two facts about `Writer` alone:
what one byte does to the last row and to the rows above (`TypeShown`, `EraseShown`,
with scrolling in `ByteWritten`), and that `write_string` is one byte after the other
(`PrintedByteByByte`), so that a text is shown whole (`TextShown`). A line of ring 3 may
come at any point: it leaves the last row empty, which is the end of any text cut at
column 0 (`FreshShows`), and a backspace that meets column 0 does nothing. That the
whole line is shown needs a screen with room for it, 256 characters and a prompt on 25
rows of 80 (`LineAssumption`). `PrintableAssumption` and `TextAssumption` say that line
feed and backspace are not printable and that what is typed, the blank and the prompt
are.

For every capacity and set of scancodes (`QueueAssumption`): `RingInvariant`
(`RingOK`, the ring's type invariant) and `RingIsFifo`, the refinement.

For every capacity, every number of keys held at once and every selection of the
modelled keys (`KeysAssumption`): `KeysDecodeAsMeant` (`DecodesAsMeant`) and
`LossesHeal` (`LossHeals`). Neither is inductive: the decoder lags behind the keys by
what is queued and on the wire. `KeyboardInv` (`KeyboardInductive`) says that decoding
those bytes one after the other (`Leads`, a sequence of decoder states) ends in a state
that agrees with the keys held and with caps lock, and that on the way every byte asks
for what its key stood for. A key event then only has to lead from agreement to
agreement: its own bytes by the tables (`PressDecoded`, `ReleaseDecoded`), fake shifts
not at all (`FakeShiftsIgnored`). When a byte is dropped the wire is left out of the
claim, until a shift key is struck, which agrees again from whatever state the decoder
was left in (`ShiftMends`); the stroke's release then clears a stuck shift.

For every page and table size and print limit in the layout of `paging.rs`
(`LayoutAssumption`, `AddressAssumption`): `KernelIsIsolated`, `PrintIsConfined` and
`RefusalsAreJustified`. The argument is which directory entry an address selects
(`DirectoryEntry`), then that the tables are as `init` wrote them and that the last
buffer read passed the check.

For every heap, and all sizes and alignments (`HeapAssumption`): `AllocIsSound`
(`BlocksSound`). Disjointness becomes inductive with `Below`: every block ends at or
before the offset.

For every kernel image, page size and memory map no region of which starts inside the
last page below 4 GiB (`FrameAssumption`, `AddressAssumption`): `FreshFrames` and
`NothingWasted`. The invariant says that the
frames handed out are exactly the usable ones behind the walk (`HeldBehind`,
`BehindHeld`), so both follow from one fact.

For all names, texts and limits (`FileAssumption`): `TableIsSound`, `Refinement`
(`ImplementsStore`), `Persistence` (`FilesPersist`) and `TotalIsRight`
(`TotalIsSum`). A vector whose names are
unique is a map: the lemmas `PushTable`, `RemoveTable` and `WriteTable` say what
each change of the vector does to it, and that the number of entries is the number
of names.

For every integer width and every text (`RangeAssumption`): `EvaluatesEveryText`, and
from it `CalcIsRight` (`CalculatesMeaning`). Parser and reference recurse along different
lines, so neither follows the other. Soundness: what a parse function returns is the
meaning of the part it consumed (`EvalSound`). Completeness: a part with a meaning is
read to its end (`EvalComplete`). Both are by induction on the length of the part, as a least
counterexample among the positions; the recursive functions are first shown to exist
(`CallsReturn`, `MeaningsMean`), since every call is further on in the text and every
part shorter.

DataLemmas has what these proofs need of numbers: least elements, counting, and sums.
The prover cannot use the library's induction rules, so a statement about all finite
sets is proved from a minimal counterexample, which the well-founded order on finite
sets provides. That is enough for a fold that adds: its order does not matter
(`SumSplits`, `FoldIsSum`), terms may be renamed, left out or changed one at a time
(`SumReindexed`, `SumOfFewer`, `SumChanged`).

Only model-checked: liveness (`ReadyRuns`, `SleeperWakes`, `KeysProcessed`, `RunsOut`),
which is out of the prover's reach.

Only proved: `TypeOK` and `KillIsImmediate` of TaskManager (the first is part of
`IInv`, which TLC checks), `RingOK`, `TableInvariant` and `KernelAndUserApart`.

## Not modelled

- Port I/O: the serial port, the set-up of PIC and PIT (a constant divisor), the two
  writes behind the cursor register. There is no state of the kernel behind them.
- The static tables of `gdt.rs` and `idt.rs`, constants written once, and the order
  of boot before the scheduler, which is one straight line of calls. What boot
  allocates is covered by `BlocksSound` in any order.
- The one-time initialisation of `lazy_static` values is taken as done.
- A page fault of the kernel itself and the depth of the stacks, the recursion of
  the calculator included: frame sizes are the compiler's.
- What only formats or prints: `format_bytes`, the
  duration of `uptime`, the tables of `ps`, `top` and `ls`
  (and the sort of `ls`), `meminfo`, `help`, `about`, `echo`, `id`, `whoami`,
  `print_memory_map`. Their locks are in Kernel.
- Heap exhaustion ends in a panic in HeapAllocator; the other modules assume that
  memory is left.
- Colours of the screen, names and privilege labels of tasks.
- The frame allocator does not know that `paging.rs` gives 4 to 8 MiB to the user
  program. Today `kernel_main` takes a single frame and never uses it, so no property
  relates the two.
