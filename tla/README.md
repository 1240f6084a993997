# Valen: TLA+ models, model checks and proofs

Valen is a small x86_64 kernel in C. These modules model its scheduler, memory
managers, page tables, interrupt entry, keyboard driver, console, formatted
output and shell, check them with TLC on small instances, and prove the central
properties with TLAPS for every value of the constants. `PROJECT.json` maps
every definition to the lines it models and lists runs, hazards, findings and
theorems.

## The system

The kernel runs on one CPU. `kmain` runs with interrupts off: it sets up the
interrupt controllers and gates, reads the boot loader's memory map, sets up the
frame bitmap behind the kernel image, marks the usable frames free, initialises
heap, keyboard, timer and scheduler, creates one task (the shell), executes
`sti` and calls `schedule()`, which jumps to the shell.

| Part | State | Operations | Interacts with |
|---|---|---|---|
| Scheduler (`task.c`) | circular list, `current_task`, `next_pid`, two flags, two locks | create, exit, schedule, yield, tick, find, kill | heap (structs, stacks), context switch, timer interrupt, shell (`kill`) |
| Context switch (`context.s`) | task contexts, stacks, registers | `switch_to` | scheduler |
| Spinlocks | one word each | acquire, release, try | everything |
| Frames (`pmm.c`) | bitmap, page counters | init, mark, alloc one/many, free | `kmain`, page tables, `vmm_alloc` |
| Page tables (`paging.c`, `vmm.c`, `boot.s`) | four-level tables, next virtual address | map, map range, alloc, translate | frames, heap |
| Heap (`heap.c`) | list of nodes over 16 KB | `malloc`, `free` | tasks, `vmm_alloc` |
| Keyboard (`keyboard.c`) | one pending key, shift flag | IRQ 1 handler, poll | shell, interrupts |
| Console (`stdio.c`) | character cells, cursor, lock | `putc`, newline and scroll, clear, set cursor, `printf` | everything that prints |
| Shell (`shell.c`) | input line, cursor, prompt row, lock | key handling, redraw, commands | keyboard, console, scheduler, frames |
| Interrupts (`idt.c`, `pic.c`, `interrupts.s`, `pit.c`, `panic.c`) | gates, masks, requests, lines in service, saved registers | set-up, entry, end of interrupt, page fault report | scheduler, keyboard, console |

What makes it hard: handlers run between any two instructions of a task; the
list and heap walks are pointer surgery in several places; allocation fails half
way through `task_create` and `paging_map`; kernel, bitmap and free memory are
told apart by arithmetic on addresses; assembly and C agree by hand. Nothing is
persisted and there is one CPU, so crash recovery and true parallelism do not
arise.

## Modules

* **Scheduler** - `task.c`. A call is cut into steps wherever the timer could
  be told apart from not firing, where a loop turns, and where memory is
  allocated or freed; `pc`, `subject` and `wanted` are the locals of the one
  call in progress. `live` is what the allocator has handed out and `wild`
  records an access outside it. Any thread may make any call: the module is
  about what `task.c` promises every kernel that links it. `SwitchResumes`
  chooses between the `switch_to` that `task.c` takes for granted, which enters
  the next task, and the one of `context.s`, at which the CPU is lost. The run
  scheduler uses the former, because after the first switch of the latter there
  is nothing left to check; scheduler_exit and kernel use the latter; the
  theorems hold for both.
  `CreateStruct`, `CreateNoStack`, `CreateEnqueue` are `task_create`;
  `ExitMark`, `ExitRemove` are `task_exit`; `Lookup`, `ScanNext`, `ScanEnds`
  are both `find_task_by_pid` and the search of `kill_task`, which goes on with
  `KillUnlink` and `KillFree`. **RoundRobin** - what the scheduler promises, a
  line of tasks that take turns; Scheduler implements it (`ImplementsRoundRobin`)
  with the listing of its ring as the line.
* **ContextSwitch** - `switch_to` and the contexts `task_create` fills in, by
  byte offset.
* **Heap** - `heap.c`, one list node per step; 64-bit sizes modulo `WordSize`.
  Clients free only blocks they hold, so the magic number is always intact and
  the path of `free` for a wrong one (`heap.c:101`) is not taken.
  **Allocator** - what `malloc` and `free` promise their callers, a set of blocks
  that are aligned, large enough and apart, and that stay as they are while held;
  Heap implements it (`ImplementsAllocator`), with the room of a block read from
  its header.
* **Kernel** - Scheduler and Heap composed (both through INSTANCE): a struct's
  address is the pointer `malloc` returned, and the allocator calls of
  `task_create` and `kill_task` are taken step by step, with ticks in between
  and other kernel code competing for the same area.
* **Pmm** - `pmm.c` in frames instead of bytes; `holders` counts the clients of
  each frame, and `shared` collects the frames that `pmm_alloc_pages` has handed
  out with their bits set. **BootMemory** - `kmain`'s memory set-up followed by
  any use of the allocator. `FreePhysical` is the caller that converts the pointer
  to the physical address `pmm_free_page` asks for, `pmm_free_page` the one that
  does not.
* **Paging** - `paging_map` and its callers over Pmm, one level of the walk per
  step, starting from the tables of `boot.s`. `Follow` goes down, `Extend`
  allocates and enters a table, `SetEntry` writes the last level. A failed
  allocation, a frame beyond the boot mapping and a huge page make the walk
  leave the tables (`broken`), which ends the behaviour. No frame is freed: no
  caller in the kernel does. **AddressSpace** - what
  page tables promise, a map that changes one page at a time; Paging implements
  it under `vmm_get_phys` as the mapping.
* **Interrupts** - the order of `kmain`'s initialisation calls, the gates, the two
  controllers with requests, masks and lines in service, the four stubs by what
  they push, call and pop, spurious interrupts, exceptions, and the page fault
  report by its use of the console lock. The controllers and the CPU are external:
  they behave as the code in `pic.c` and `interrupts.s` takes for granted (a line
  of the second controller that is left in service holds back the less urgent
  lines of that controller, not those of the first). `Driver` stands for further
  drivers that call `pic.c` as `keyboard_init` and `pit_init` do, before `sti`. No
  handler faults.
* **Console** - operators on a screen. **Keyboard** - the interrupt handler. It
  ignores the prefix E0, so the shift codes an arrow key sends count as a shift:
  `Shifts` has such keys, and `ShiftMasked` is the release they send while a shift
  key is held. **Shell** - the shell task over both; steps are cut where
  `pending_key` is accessed. `process_command` prints nothing, clears the screen
  or prints some lines; an argument that does not fit `cmd_arg` (`ArgOverflows`)
  may have any of these effects, or the CPU is lost when the functions return.
  What `cmd_kill` does is `Lookup` with "kill" in Scheduler. **LineEditor** - what
  an input line promises; Shell implements it (`EditsLikeLineEditor`) under the
  mapping of the array, length and cursor to the text before and after the cursor.
* **Printf** - `printf`'s walk over its format, the number printers and `atoi`
  on scaled-down words; a number is divided by its base digit by digit, as the
  code does (`Left`). `Value` is the reference: what a string of digits means.
* **...Proofs** - the theorems about the module of that name.
* **MC...** - instances for TLC.

An operator named `X_Word` is a mutated form of `X`: a plausible bug against
which one property is tested. It is part of no specification.

## Runs

Bounds are the constants in the `.cfg` files.

| Run | Shows | Bounds and why they suffice |
|---|---|---|
| scheduler | ring structure, current task, wild accesses, complete searches, refinement of RoundRobin; calls return, turns pass nobody over | three struct addresses (a queue with a middle), three pids (an address is reused), slice of two ticks; safety is proved for all values |
| context_switch | registers saved | two tasks, two values; deadlock is allowed because the CPU leaves the tasks' code, so that only a first switch is covered |
| heap | tiling, allocated blocks, coalescing, failure only when full, refinement of Allocator, termination | 208 bytes, up to eight nodes; requests that fit, split, leave a small remainder, never fit, wrap; safety is proved for all values |
| kernel | no leak, queued tasks keep struct and stack; both proved for all values | room for two tasks or one and some buffers, so that either allocation of `task_create` fails; the shipped `switch_to`, at which the CPU may be lost (deadlock is allowed) |
| boot_memory | protected frames, what makes frames shared and the counter too high, refusals | 2 MB scaled to eight frames; seven maps below 2 GB: unaligned, overlapping, adjacent, unsorted, absent, without usable memory; requests that are served (2) and refused (9, 4096); `MaxUsed` stops the counter a few requests above the number of frames |
| paging | tree, ownership, causes of a broken walk, refinement of AddressSpace | five slots per table, so that both boot slots, one in use and one free exist; memory that suffices, that runs out, and that straddles 1 GB; runs of two pages (some in use), of eight and of nine; deadlock is allowed because a broken walk ends the behaviour |
| interrupts | right stub, undisturbed code, acknowledgement, no spinning, timer and keyboard not held up, ticks handled | lines of both controllers, more and less urgent than each other; exceptions with and without an error code; the CPU halts after a page fault, so deadlock is allowed |
| printf | numbers read back, format bounds | ints of 4 and longs of 8 bits, all values; all formats of up to three characters, the `%ll` ones of four and five; both properties are proved for all word sizes and formats; printf returns, so deadlock is allowed |
| shell | key order, shift, progress, display, writes on screen, refinement of LineEditor | two columns and three rows, so that lines wrap and scroll; a buffer of three, so that it fills up; room for an argument of no character, so that one fits and one does not; a shift and an arrow key, a letter, the space bar, Tab and a key without a character; safety and refinement are proved for all values |

Three runs are expected to be violated; each compares a sentence of the
documentation or of a comment with the code:

| Run | What the counterexample shows |
|---|---|
| scheduler_exit | an exited task gets the CPU back although another is queued |
| context_switch_enters | `switch_to` jumps to `cs` (offset 136), not to `rip` (128) |
| boot_double | `pmm_alloc_pages` hands out frames in use |

### Where the models follow the code against the documentation

The modules reproduce what the code does. `PROJECT.json` has findings for the
growth of the heap, the formats of `printf` and the copy of an argument; no run
states the others.

* `kill_task` of the last task leaves `tasks_exist` set (`task.c:361`, compare
  `task.c:67`); only the direction `TasksExistCoversQueue` holds.
* The timer only sets `need_schedule`; nothing but `yield` looks at it
  (`TASKING.md:48` speaks of preemption).
* The heap never grows: `malloc` asks for 4096 pages, and `pmm_alloc_pages`
  serves no more than the eight of a byte of the bitmap (`pmm.c:137`). `MEM.md:7`
  has "automatic expansion" and `MEM.md:382` "Dynamic expansion via page
  allocation". `LargeRequestsRefused` says what happens instead.
* `malloc` of one of the last seven sizes of a word wraps to 0 and returns a block
  of 0 to 56 bytes (`heap.c:45`); `Allocator` promises nothing for those sizes, and
  `BlocksStayLargeEnough` is proved with this case in it.
* With the shipped sizes the heap holds one task (`heap.c:23` says several).
* `pmm_free_page` takes a physical address, allocation returns a virtual one
  (`pmm.c:107`; the comment at `pmm.c:81` says "its PHYSICAL address"): a client
  that frees the pointer it got, as in `MEM.md:36` and `MEM.md:85`, loses the
  frame. From 2 GB on the virtual address wraps, and the
  frame at 2 GB is returned as 0.
* `pmm_alloc_pages` counts frames that were in use already as used once more
  (`pmm.c:147`), so `used_pages`, and with it the free memory `cmd_mem` shows, may
  drift (`UsedPagesCountBits`).
* `vmm_alloc` maps the pointer `pmm_alloc_pages` returned as if it were the
  physical address (`vmm.c:69`), so its pages are not backed by the frames
  (`vmm.h:44`). Its only caller asks for 4096 pages and is always refused.
* `paging_map` does not check `pmm_alloc_page` (`paging.c:79`) nor the huge bit
  (`paging.c:105`); `BreakHasCause` says exactly when that matters.
* Both ends of the PML4 refer to one table (`boot.s:38-39`): a page mapped in the
  area of `vmm_alloc` appears in the lower half too (`Shares` in Paging).
* Taking a spinlock does not disable interrupts (`SPINLOCK.md:93` says it does).
  That `pic_send_eoi` never waits follows from the place of `sti` in `kmain`.
* `generic_isr` does not remove an error code: after exceptions 8, 10-13 and 17
  `iretq` takes a wrong frame (`CodeUndisturbed` names the exception).
  `generic_handler` acknowledges the first controller only, so a line of the
  second stays in service (`NothingInService` is about the first).
* A page fault within `putc` waits for the console lock for ever (`panic.c:11`).
* `%d` prints a negative int as a large unsigned number (`stdio.c:214`,
  `STDIO.md:118` shows -42), `%ld` prints hexadecimal digits and a "d"
  (`stdio.c:250`, `STDIO.md:120` shows 1234567890), `%x` prints 0x and 18
  upper-case digits (`stdio.c:342`, `STDIO.md:129` shows ff), and `print_binary`
  drops bit 63 (`stdio.c:412`). `ReadsBackAs` in Printf has the first and the last.
* `parse_command` bounds the command word ("Prevent buffer overflow",
  `shell.c:121`) but not the argument (`shell.c:125`): an argument of 64 characters
  or more overwrites the stack. `KeysAreTaken` names it as the way in which the
  shell does not come back.
* A key that arrives while the previous one is handled is dropped
  (`keyboard.c:101`); `KeysInOrder` is what remains.
* A line that wraps at the bottom of the screen scrolls it, and `redraw_line`
  goes on using the old row (`shell.c:64`) and may set the cursor below the
  screen (`STDIO.md:205`), although it means "to handle line-wrapping across 80
  columns" (`shell.c:57`); hence the condition in `DisplayShowsLine`.
* A prompt may start on a row that still holds old text: Enter on a blank command
  with the cursor in an earlier row of a wrapped line leaves the rest of the line
  below the new prompt. `redraw_line` blanks only what the new line has covered,
  which is what `DisplayShowsLine` says.
* Releasing one of two held shift keys ends shifting (`keyboard.c:64`), and so
  does an arrow key, whose E0 2A and E0 AA are taken for a shift.

## Fairness

A call that has begun goes on (`WF(Continue)`, `WF(Walk)`, `WF(Stub)`, and weak
fairness of `shell_task_main` written out in Shell): there is one CPU and handlers
return to what they interrupted. Nothing is assumed of what the tasks call or of
the timer. That a queued task runs in the end is therefore not stated: nothing in
the kernel calls `yield`, the timer preempts nobody, and the shipped `switch_to`
does not enter the next task. What the scheduler itself contributes, that no turn
passes a task over, is `TurnsComeNearer`. `TicksAreHandled` needs strong fairness
of `Interrupt`: the CPU looks for a request between any two instructions, so one
that is pending again and again between exceptions is taken.

## Proofs

Every theorem about a module follows from an inductive invariant `IInv`; below
is what makes each one inductive.

**SchedulerProofs**: any set of struct addresses, slice and pid bound, both
context switches. `RunqueueIsRing` alone is not inductive: that a walk sees
every task needs where the walk stands (`ScanProgress`, which makes `RingInv`),
pids need that all are below `next_pid` (`PidInv`), an unfinished call needs to
know what it points to (`SubjectInv`), and walks need that nobody else changes
the list (`LockInv`). The list is represented by a function `s` on `1..n`;
`PrependRing` and `UnlinkRing` show that insertion and removal yield such a
function again, and the rest is one lemma per action.

That Scheduler implements RoundRobin needs one more fact: a ring has one listing
(`RingUnique`, by induction along the links). `Order`, which chooses a listing, is
therefore the one that `PrependRing` or `UnlinkRing` exhibits, and each step is
one of four moves of the line, or none (`StepMoves`). `TurnsAreFair`: each turn
brings every waiting task one place nearer to the CPU, a departure puts nobody
back, and an arrival puts nobody back by more than one place. `CallsAreFinite` is
what `CallsReturn` adds to fairness: every step of a call, but for a tick, takes
it nearer to its return, and the distance is bounded by the length of the queue.
An exited task that keeps the CPU is outside the line (`GoesRound`);
scheduler_exit is about it.

**HeapProofs**: any area, word size and set of requests. The tiling is stated by
addresses and never by following the list, so that it survives a split and a
merge locally. `WalkInv` says what the two walks leave behind them: nothing that
fits (hence `MallocFailsOnlyWhenFull`), and no two free neighbours (hence
`StaysCoalesced`, and `HeapRecovers`: with no block held the heap is one node).
`HeapIsAllocator` is the refinement: walks, splits of the rest and merges change
no block that is held (`QuietSteps`), the step that takes a node grants one block
(`TakeGrants`), and the call of `free` gives one back (`FreeTakesBack`); that the
blocks are apart follows from the tiling. `WalksAreFinite` bounds both calls: each
step moves the end of the node at the cursor towards the end of the area, and a
merge does so too. `BlocksStayLargeEnough` has the case of a request that wraps.

**BootMemoryProofs**: every set of memory maps, kernel size and default size.
Assumed is `SmallRam` (no RAM above the 2 GB the higher half reaches): from there
on `PHYS_TO_VIRT` wraps. Requests may be of any size. Frames that
`pmm_alloc_pages` hands out with their bits set are in `shared`, and the invariant
says of the others that they have one client and are marked: hence
`OnlyRunsShare`. For `CounterCountsBits` the first half carries the second: a
counter that is at least the number of set bits is not 0 when one is cleared, so
the guarded decrement of `pmm_mark_free` never skips. The key step is
`VisitedFrameIsOutside`: an address that passes the two tests of the marking loop
lies in a frame that meets neither low memory nor the bitmap, because the estimate
of the bitmap's size has a page to spare. `FreeFramesStayRam` adds where a free
frame comes from: the marking loop clears bits of frames within available entries
only, and frees give back what was dealt. `LargeRequestsFail` needs no assumption;
it is why Heap has no expansion step.

**PagingProofs**: every number of slots, set of free frames and request, with
`SmallRam` as above. Tables are exclusive although `pmm_alloc_pages` hands out
frames in use: it does so only above the lowest free frame, tables are taken from
the bottom, and no frame is freed. Besides the tree and the ownership of tables,
the invariant knows that the boot tables keep their entries (`BootKept`) and that
the call in progress stands where the walk of its page leads (`OnPath`).
`MapsOnlyThePage` then shows that entering an empty table changes no translation,
and that a last-level entry is reached by the pages that share it and by no
others.

**InterruptsProofs**: every set of lines and exceptions. The invariant has what
`kmain` has set up by now, why the CPU runs the stub it runs, what lies on the
stack at each step of a stub, and that at most one line of the first controller
is in service. That a handler never waits for `pic_lock` is the fact that calls
of `pic.c` happen only at positions of `kmain` before `sti`.
`DevicesAreServedFirst` is what `TicksAreHandled` rests on: outside handlers no
line of the first controller is in service, and those of the second that
`generic_handler` leaves there hold back only lines of their own controller.

The module also proves `SwitchSavesRegisters` about **ContextSwitch**, for every
set of tasks and of register values: the six saves to the context and the six
pushes hit distinct words and leave each other alone. Its invariant `SwitchInv`
says that the contexts are as `task_create` filled them in for as long as a task
runs. That suffices because the shipped `switch_to` jumps to the code selector:
after the first switch no task's code runs, which context_switch_enters shows.
`SwitchAssumptions` only types the constants (tasks are positive numbers, values
numbers with 0 among them, the frame of the call a multiple of 8).

**ShellProofs**: every buffer size, alphabet, prompt and screen of at least
three rows; the prompt is shorter than a row, and what is typed or printed is
printable or a newline. Parts of the array are compared with sequences index by
index (`Part`); the lemmas say what appending to, cutting and joining parts
gives, and one lemma per key shows that the shifting loops do just that. `KeyInv`
is what `KeysInOrder` needs: a key in the slot is new until `shell_input` is
called. What `puts` does is shown by induction over the string (`PutsFits`: a
text that ends on the screen is in its cells and nothing else has changed;
`PutsStays`: any text leaves a screen without strays). `DisplayShowsLine` alone
is not inductive: between the edit and `redraw_line` the screen shows the line of
before. `DisplayInv` says what is true then, which is enough because an edit makes
the line at most one character shorter. `ScreenInv` says where the cursor is when
something is printed; the position below the screen that `redraw_line` can leave
is never printed at.

**KernelProofs**: every area, every size of struct, stack and buffer, any number
of tasks. The invariants of the parts are taken over from HeapProofs and
SchedulerProofs; what is new is who owns which block at every stage of
`task_create` and `kill_task` (`OwnerInv`), and which stage goes with which point
of the two parts (`StageInv`). `KernelUsesHeap` and `KernelUsesScheduler` show
that the composition is a behaviour of each part, so that what is proved of the
parts holds in it; `KernelAllocates` and `KernelTakesTurns` carry the two
refinements over. Assumed is that each place with room for a struct is a member
of `Task`, and that the sizes do not wrap when rounded.

**PrintfProofs**: every format, all arguments, ints of a multiple of 4 bits and
longer longs of a multiple of 8. A text is a numeral of n when its k-th digit from
the end is the lowest digit of what is left after k - 1 divisions, and nothing is
left at the end (`IsNumeral`). `LeftShrinks` bounds what is left: a digit of base
2^w or more takes w bits away, so 31 octal digits hold 64 bits, and 63 binary ones
hold all but the last. That a numeral is read back, by `Value` and by `atoi`, is
an induction over its digits: after k digits the reader has what was left when the
writer had the others.

Induction over data rests on one lemma, `Induction`: the least natural number
outside a set has a predecessor in it, from the well-foundedness of < in the
library. The library's own induction theorems take an operator as a parameter,
which the provers cannot instantiate; a set can be. Recursive definitions are
functions on `0..n` for the same reason, and `TwoTo` replaces `^`, of which the
provers know nothing beyond small literals.

Only model-checked: liveness under fairness (`CallsReturn`, `WalksEnd`,
`KeysAreTaken`, `TicksAreHandled`), which is out of the prover's reach. Where it
could be separated, what they need besides fairness is proved: `CallsAreFinite`,
`WalksAreFinite` and `DevicesAreServedFirst`. Every safety property and every
refinement that a passing run checks is a theorem. Some theorems go further than
the runs: `PidsStayUnique`, `TickNeverMisled`, `BlocksStayLargeEnough`,
`BlocksNeverMove`, `HeapRecovers`, and those about measures.

## Not modelled

* The string library: pure primitives, for which the models use sequences.
* Segment descriptors, and the boot code but for its tables: constant tables and
  straight-line machine set-up.
* The expansion branch of `malloc`: proved unreachable.
* `cmd_tasks`, which walks the list of tasks without the lock, and `cmd_reboot`.
* Translation caches and CR3: the code invalidates after every change, and
  there is one address space.
* Colours, the hardware cursor, the serial port's strings, the timer's divisor
  and the text of messages: no property depends on them.
* `spinlock_try_acquire`, `wait_for_keypress`, `print_backspace`, `pic_get_irr`
  and `pic_get_isr` have no caller.

## Plan

1. `cmd_tasks` and `cmd_kill` as actions over Scheduler.
2. An abstract frame allocator that Pmm implements, shared by BootMemory and
   Paging.
