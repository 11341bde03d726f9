# Verification of Hurlex-II

Hurlex-II is a small 32-bit x86 teaching kernel: kernel threads with a
round-robin scheduler, two physical page managers, a byte allocator, a
spinlock, a keyboard and a console driver, an IDE driver with the beginnings of
a file system, paging, and a library of lists, trees and formatted printing.
This directory holds TLA+ models of those parts, the TLC configurations that
check them on small instances, and proofs, checked by TLAPS, of what matters
most for every instance.

All line numbers are those of the sources under `src/`. `PROJECT.json` maps
every definition to the lines it stands for.

## 1. Inventory

There is one CPU. Concurrency comes from interrupts only: the clock (IRQ0)
pre-empts the running thread, the keyboard (IRQ1) runs a handler on top of it.
Code between `local_intr_store` and `local_intr_restore`, or under `cli`, is
atomic; all other code may be interrupted at any instruction. The build is not
optimised (Makefile:21), so each mention of a global variable is a memory
access.

| component | state | operations | what is hard | what makes it correct |
|---|---|---|---|---|
| Tasks and scheduler (`task.c`, `sched.c`) | `task_list`, `nr_task`, `glb_pid_map`, the `task_struct` of each task; the running task is the one whose page holds esp | `do_fork`, `do_exit`, `schedule`, `wakeup_task`, `find_task`, `cpu_idle`, the clock's callback | limit test, allocation, linking, and waking are separate interruptible pieces; exited tasks stay on the list and their pids are used again | pids unique, count and bitmap exact, no pid shortage, nothing but runnable tasks run, every one of them runs, none returns from exit |
| Physical pages (`pmm.c`, `ff_mm.c`, `buddy_mm.c`) | free lists, cached counts, per-page flags | `init`, `alloc_pages`, `free_pages` of two managers behind one table | long sequences of requests and frees; merging with neighbours; rounding to powers of two | a page is free or has one owner; blocks merged and never overlapping; the count is that of the free pages; no page refused without need |
| Byte allocator (`slob.c`) | a list of chunks in 1024 pages | `slob_init`, `kmalloc`, `kfree` | splitting and gluing at the boundaries of sizes | chunks tile the arena; none is lost; what a caller holds is marked |
| Spinlock (`spinlock.h`) | one byte | `spinlock_lock`, `_unlock` | several threads decrement and poll; the byte wraps | exclusion, progress |
| Keyboard (`kboard.c`, `kio.c`) | a ring of characters, flags of the control keys | `keyboard_handler`, `kb_getchar`, `kb_read`, `getchar` | the handler between any two steps of the reader; a sleep after a test | no character lost, repeated or reordered once queued; each is read |
| Console (`console.c`) | a buffer of 128 rows, write position, first row shown, the screen | `console_write*`, scrolling, `console_view_up`/`_down` | threads print while the boot thread redraws | nothing written outside the buffer, text kept in order, the screen shows it |
| Disk (`ide.c`, `block_dev.c`, `mbr.c`) | `ide_device`, registered devices, partition table | probe, identify, register, request | the drive is slow, reports errors half-way, is still writing when the call returns | reads return what is on disk, writes touch what was asked, every call ends |
| SFS (`sfs.c`) | nothing that lasts | `sfs_init`, `sfs_mkfs` | divisions that round | parts do not overlap, maps have room |
| Paging (`vmm.c`, `pmm_init`) | page directory and tables, how memory is divided | `vmm_init`, `map`, `unmap`, `get_mapping` | tables that are not cleared, no memory for a table, cached translations | addresses translate as was asked; the kernel's mapping stays; what the kernel runs on is never given away |
| Interrupts and system calls (`intr*.c`, `isr_s.s`, `pic.c`, `syscall.c`, `sync.h`) | interrupt flag, levels in service, frames on the stacks | entry and exit, acknowledgement, `syscall_handler`, critical sections | nesting; two chips; switching inside a handler | an interrupted thread goes on intact, a critical section keeps the processor, every line is served |
| Context switch (`switch_to.s`, `copy_thread`, `forkret_s`) | saved registers | `switch_to`, the first run of a thread | each thread comes back by the way it left, or by none | as above |
| Lists (`list.h`) | rings of pointers | add, delete, replace, move, rotate, cut, splice | pointers assigned in order, when two of the nodes may be one | `next` and `prev` are inverse; the functions do to sequences what their names say |
| Red-black tree (`rbtree.c`, `rbtree.h`) | a tree | insert, erase, replace, augment, first, last, next, previous | rotations at and beside the root; data kept by a callback | balanced, in order, the data exact |
| printk (`printk.c`) | one static buffer | formatting | every combination of flags, width and precision, given as numbers or as arguments | each conversion is written as it means, none disturbs the next |
| VFS, ramfs, char devices | a root entry, registered file systems | `vfs_init`, registration | - | one straight-line initialisation; the file operations are empty stubs |
| Boot, GDT, strings, debug | - | - | - | straight-line initialisation, byte loops and formatting; not modelled |

How they interact. `kern_init` initialises each part in turn with interrupts
off and becomes the idle task; it reads characters from the keyboard for ever
and moves the console's view with them. `do_fork` takes a page from the page
manager through `alloc_task_struct`; `slob_init` takes 1024 of them; `map`
takes one for a page table. Interrupt entry saves the registers of a thread on
its stack, and `switch_to`, called in the clock's handler, goes to another
stack. The task list, the page managers and the byte allocator are made of the
lists of `list.h`; the red-black tree has no caller yet. Threads print to the
console. The block devices call the IDE driver; `sfs_init` works on the
partition table that was read through it. The clock's handler calls `schedule`.

The hazards this code is exposed to are listed in `PROJECT.json`, each at its
line, with the properties below that would show it going wrong.

## 2. Plan

Done, most important first:

1. `Task` (threads and scheduler), `TaskProof`.
2. `Pmm` composed of `FirstFit` and `Buddy`, against `PageAllocator`; `Slob`.
3. `Spinlock` against `Mutex`; `Keyboard` against `BoundedQueue`,
   `KeyboardProof`.
4. `Console` against `Paper`, `ConsoleProof`.
5. `Disk` with `SfsLayout`, `DiskProof`.
6. `Memory` and `Vmm`; with `Pmm` and `Slob` in `MemoryManagers`; `MemoryProof`.
7. `Context` (interrupts, system calls, `switch_to`), `ContextProof`.
8. `List` against `Lists`, `ListProof`; `Rbtree`; `Printk`; together in `Library`.
9. `LibraryProof`: that the trees of `Rbtree` stay ordered, balanced and
   augmented, and that `Spinlock` implements `Mutex`.

Left, should the project or the code grow:

10. Registration of devices and file systems, once something looks them up.
11. Reclaiming of zombies, locks around `kmalloc` and `ide_request`, and file
    operations, none of which exist at present.

## 3. Conventions

A module's constants are the sizes in the code, so that a run can make them
small and a theorem can leave them open. One action is one piece of a kernel
call that nothing can interrupt. Definitions marked `FAULT` are not part of the
model. Each is a plausible slip in the definition that follows it (a dropped
guard, an off-by-one, a missing reset); put in its place it makes TLC report
the property that `PROJECT.json` pairs with it, which is how we know that the
property says something.

## 4. The modules

### Task

`state`, `pid` and `need_resched` are fields of `task_struct`; `task_list`,
`nr_task`, `pid_map` and `current` are the globals. `pc[t]` says where thread
`t` is in the kernel. A task is identified with the page of its `task_struct`
and stack, as in the code.

| action | code |
|---|---|
| `ForkCheck` | `do_fork`, test of `nr_task`, interrupts on (task.c:194) |
| `ForkAlloc`, `ForkNoPage` | `alloc_task_struct`, `copy_thread`; the assertion when no page is left |
| `ForkLink` | the critical section: pid, list, count |
| `ForkWakeup` | `wakeup_task`, with interrupts on again (task.c:219) |
| `ForkReturn` | the pid is read from the child, which may have run and exited since (task.c:221) |
| `DoExit`, `CpuIdle` | the critical section of `do_exit`, then the call of `cpu_idle` |
| `ClockTick` | the clock interrupt and `schedule`, at any point between two of the above |

The scan of `schedule` is `ScanOrder`: the list after the running task, past
the head, round to the running task; or, when the idle task runs, the list from
its head. The process memory descriptor is left out: every thread shares the
kernel's (`CLONE_VM`). Nothing in the tree reclaims a zombie, and neither does
the model.

### Pmm, FirstFit, Buddy, PageAllocator

`Pmm` is the dispatch of pmm.c and the callers. It instantiates both managers;
the one that is not installed is never called. `FirstFit` keeps the sequence of
free pages, the number in each page's `ncount` and the two flags. `Buddy`
keeps the lists of free blocks, the flag and order of each block's first page
and the cached count. Page addresses are page numbers: the arithmetic that turns
one into the other and the parsing of the memory map are left out here (see
`Memory`), and so are requests beyond the highest order, which panic.

The buddy manager tests itself before it takes calls: `buddy_page_init` ends with
`buddy_test_mm` (buddy_mm.c:101), two rounds of requests, each round freed again.
`Init` is the state it leaves (`Tested`); the sizes of its requests are a
constant, so that small memories have room for them (`RoomToTest`). Two facts
about the manager show from then on. `buddy_alloc_pages` returns the excess of a
request through `buddy_free_pages`, which adds it to the count, although the
count was only reduced by what was asked for: each request that is not a power of
two makes the count too large by the excess (buddy_mm.c:164, 226). `excess` is
that sum; the four such sizes of the self-test, 18, 27, 129 and 547, make it
14 + 5 + 127 + 477 = 623 at boot. And a free of such a size puts its smallest piece first, so
that pieces are misaligned for their order and may lie unmerged beside their
buddies. So of the two managers only the first-fit one merges all that can be
merged and has the exact count. What both keep, the buddy manager from these
states on, is that a request gets pages that were free, that a page is free or in
one block some caller holds, that lists and flags agree on blocks which do not
overlap, and that a single page is refused only when none is free.

`PageAllocator` is what both promise their callers. Its `whole` says whether the
manager also refuses several pages only when no aligned block of free pages would
hold them, which the first-fit manager does under the requests of the kernel.

### Slob

`chunks` is `slob_head` with the address of each header, `held` is what callers
have. `kmalloc` takes the first free chunk longer than size + header, and
`split_chunk` cuts it when the rest is worth a chunk; `kfree` glues the chunk
to a free neighbour on either side. Only the boot thread allocates, so the
calls are atomic.

`split_chunk` marks a chunk only when it cuts it (slob.c:110), so a chunk that
fits closely is handed out marked free (run `Slob_any`). The model has these
chunks like all others: they can be freed, to no effect, glued to a neighbour, cut
or handed out again. A call that does the last two to a chunk some caller holds
gives out or overwrites bytes of that caller's; `clash` is then set and the
behaviour is followed no further, since the list is in those bytes from then on
what callers write. `MarkedAreHeld` is the half of "marked if and only if held"
that close fits leave: no marked chunk is ever lost, and once every caller has
freed what it holds the arena is one free chunk.

### Memory, Vmm, MemoryManagers

`Memory` is the arithmetic of `pmm_init`: room for the page tables behind the
kernel, the array of descriptors, the pages that are managed, and the two
conversions between a page and its descriptor. `Vmm` works on it.

| action | code |
|---|---|
| `Map` | `map`: `MapPresent` with a table, `MapFresh` with a page that becomes one, `MapFails` when there is none (vmm.c:44) |
| `Unmap` | `unmap` |
| `Access`, `Evict` | the processor walks the tables and caches a translation, and may drop one |
| `Take`, `GiveBack` | other callers of `alloc_pages` and `free_pages`, which leave pages dirty |

Four facts about the code show there. `map` does not clear a page that becomes
a table, so every other address of that table translates to whatever the page
held (`unknown`). It does not test the result of `alloc_pages`, so with memory
used up page 0 becomes the table of as many directory entries as fail
(`failed`). The directory entry never has `PAGE_USER`, so that flag of a
mapping has no effect. And `get_mapping` answers 0 when its `pa` is null,
although vmm.h:168-169 calls the argument optional; the model asks with a
pointer. `TranslatesAsAsked` states what remains: for every address not touched
by the first two, tables and cache are what was asked for. Nothing in the tree
calls `map` yet.

`MemoryManagers` puts `Pmm`, `Slob` and `Vmm` side by side. A behaviour uses one
of them: they share no variable, and what each takes of another (pages) is
already part of it.

### Spinlock, Mutex

One action per instruction that touches the byte: `Decrement` (`lock decb`,
`js`), `Poll` (`cmpb`, `jle`), `Unlock`. `Mutex` is a lock with an owner.

### Keyboard, BoundedQueue

`PressControl`, `PressKey` and `Release` are whole runs of the handler;
`Test`, `Fetch`, `Advance` and `Hlt` are the steps of `getchar`, `kb_read` and
`kb_getchar`, so that a handler can come between any two. Of the scan-code
tables the model keeps which table is used and whether it has a character. Keys
repeat while they are held, as PC keyboards do.

### Sharing

`Spinlock` and `Keyboard` side by side, one of them per behaviour: the two places
where memory is shared with interrupts on and outside any critical section.

### Console, Paper

Printing is `Write`, any number of `Putc`, `Flush`, with no step of another
thread in between (`cli`). The boot thread's view keys are one action per load
and store. `Paper` is an endless sheet of which the last rows are kept; the
buffer implements it. A row is copied to the screen in one step. The hardware
cursor, and rows the flush copies to video memory below the screen, are left
out. The shipped `kern_init` has the call that starts a printing thread
commented out; the model has one, because `do_fork` and `printk` exist to be
used so.

### Context

Each thread's kernel stack is a sequence of frames: what it runs at the bottom,
then critical sections, system calls and interrupts as they nest. A frame holds
the registers and the flag an interrupt pushed; `live` is history, what the
registers must be when that frame runs again. `current` is the stack esp points
into. Registers hold where their value came from, so that a wrong one shows.

| action | code |
|---|---|
| `Create` | `kernel_thread` and `copy_thread`: the frame a new thread starts from |
| `IntrStore`, `IntrRestore` | `local_intr_store`, `local_intr_restore` (sync.h), nested |
| `Syscall`, `SyscallHandler` | the gate of int 0x80, the table, the answer in eax |
| `Exception` | a fault of the running thread: its handler halts with interrupts off |
| `Raise`, `Deliver` | a device raises a line; the chips let it through by priority |
| `IrqHandler` | the stub, the acknowledgement of one or both chips, the handler, and for line 0 `schedule` with `switch_to` |
| `Resume` | back in `switch_to`: the registers it loads, then out through the stub |
| `Return` | `forkret_s`, the way out of a new thread's frame |
| `Exit` | a thread returns from its function into `do_exit` |

Which runnable thread `schedule` picks is `Task`'s matter; here it is any.
`Raise` happens while no IRQ handler runs: handlers run with interrupts
disabled, so a line raised during one is seen after it.

### List, Lists

`List` is the pointers: one action for each function of list.h, the assignments
in their order. `Lists` is what the functions promise about sequences. The
refinement reads the elements off by following `next`. It is proved for any
heads and elements (section 6), and so is `QueriesAnswer`: the two traversals
meet the same elements in opposite order, and the four tests agree with them.

### Rbtree

One action per turn of a loop, and one for each call without a loop; the two
mirrored halves of the code are one with the side as a parameter. The callers
are those of the example in rbtree.h; the callback of the augment functions
keeps the size of each subtree. The traversals and the descent of the caller are
functions that recur on the tree, as the loops of the code do. `List` and
`Rbtree` give their names to `Library` together, hence `TreeInit`, `TreeNext` and
`ReplaceNode` (`rb_replace_node`) here.

### Printk

`vsprintf` one part of a conversion at a time (`Literal`, `Percent`, `Flag`,
`Width`, `Precision`, `Qualifier`, then an action per group of letters) and
`number` as a function. The format is rendered from pieces that the property
compares the result with. `Meaning` is what one conversion writes: what C says,
but for four departures it names. A sign asked for is written for unsigned numbers
too; `#` writes its prefix for zero and before the zeros of a precision; `0` pads
with zeros in spite of a precision; and 0 with precision 0 is one digit.
`PrintsAsMeant` says that formats without stars are written so, whatever
conversions they string together. Stars are in the model and in both runs: for
them the code does not do what it says (run `Printk_stars`), and `PrintsAsMeant`
claims only that nothing is read beyond the format. `printk` itself puts the text
into a static buffer that threads share without a lock; the model has one caller.

### Library

`List`, `Rbtree` and `Printk` side by side, one of them per behaviour.

### Disk, SfsLayout

The actions `Probe` to `SfsInit` are boot, `Request` to `Return` are
`ide_request` and the two transfer routines, step by step. The drive is
external (`DriveReady`, `DriveStores`, `DriveFails`): it takes any time, may
fail instead, and is not assumed to be finished when a write call returns. Zero
sectors are never asked for (no caller does), though the code would pass 256 to
the drive. `SfsLayout` is the arithmetic of `sfs_mkfs` in 32 bits.

`sfs_init` passes the number of sectors of the partition where `sfs_mkfs` takes
its end. The layout comes out shorter than the partition, and the parts add up
to a few sectors more than that end, because the sectors of the two maps are
not subtracted first: for start 63 and 20000 sectors the last part ends at
63 + 12 + 4 + 9 + 19920 = 20008. This is still inside the partition, which ends
at 20063. On a partition shorter than the super block's 12 sectors the
subtraction wraps around. The result of `sfs_mkfs` is discarded by this code.

## 5. The runs

| run | question and answer | instance and why it is enough |
|---|---|---|
| `Task_threads` | Do creation, exit and scheduling stay consistent under pre-emption, and starve nobody? Yes. | Idle task, 3 pages, `MAX_TASK` 3: three threads may fork at once, the limit is overrun by one, memory runs out, a pid is used a second time while its zombie is still listed. With so few pages six pids cannot run out; that they never do, with any number of pages, is the theorem `PidsNeverRunOut`. 87,697 states. |
| `MemoryManagers_all` | Are both page managers page allocators under the requests of the kernel, do the chunks of `kmalloc` tile the arena and is none lost, does paging translate as asked? Yes. | Pages: 7, orders to 3, not a power of two, so the buddy lists start with blocks of three orders; a self-test of requests for 1 and 2, then for 1, 3 and 1 pages, so that the buddy manager starts with a count too high and a block out of place; one boot request of 0, 2, 3, 7 or 8 pages, then 1 (first fit) or 1 and 2 (buddy), freed in any order. A size that is not a power of two is asked for only by the test and at boot, since the count drifts without end otherwise. Chunks: 330 bytes, requests of 32, 40 and 100: up to six chunks, fits that are cut, close fits that are not and stay unmarked, requests that find nothing; glued on neither, either and both sides. Paging: pages of 16 bytes, tables of nine entries, two directory entries for programs and one for the kernel, memory for no, one or two managed pages, so tables are fresh, dirty and lacking. 214,406 states. |
| `Pmm_multi` (violation) | Is a first-fit request of several pages always granted free pages? No: the loop returns at its first block whatever its length (ff_mm.c:113). `slob_init`, the one such caller, runs when memory is one block. | 5 pages, requests of 1 and 2 |
| `Slob_any` (violation) | Is what `kmalloc` hands out marked? Not when the chunk is at most 44 bytes longer than the request (slob.c:110). | 200 bytes, sizes 32 and 40 |
| `Sharing_all` | Does the lock exclude, lose nobody, and implement a mutex? Is the ring of the keyboard a queue, is each character read? Yes. | Lock: 5 threads and a byte of three bits, the most that such a byte can count: all five can have decremented. Ring: 3 slots: empty, one, full, every position of both indices. 16,498 states. |
| `Console_screen` | Do wrapping, scrolling and redrawing keep text and screen right? Yes, until the next redraw where threads have printed into one. | 2 columns, 4 rows, a screen of 2: every row wraps, the buffer scrolls, the screen is above, at and below the text. 82,191 states. |
| `Console_view` (violation) | Is the first line shown a line of the buffer? No: a thread that prints between the test and the decrement of `console_view_up` makes it 65535 (console.c:247). | the same |
| `Disk_requests` | Does every call end, with the right data? Yes. | 3 sectors with numbers for one more, requests of 1, 2 and 4 sectors (2 is the most allowed; 4 is 0 in the arithmetic of the buffer test), four partition tables. About 514,000 states. |
| `Library_all` | Are the lists sequences, the trees balanced, ordered and augmented, the text what the conversions mean? Yes. | Two heads and three elements: every function at every place, on empty and on full lists. Eight keys and a second node for one of them: trees of four levels, so that erasing reaches each case of the loop and moves it up. Integers of five bits with those at the edges, every letter with every flag, width and precision; pairs of conversions; formats that end within one. 137,819 states. |
| `Printk_stars` (violation) | Does a star give the field its argument? No: it is not stepped over, and the conversion is printed as text (printk.c:203-220). | two letters, a star for width, precision and both |
| `Context_threads` | Do threads, system calls and critical sections survive every interrupt and switch? Yes. | Three threads, so that a thread can be left for one that is new and come back from one that is old; line 0 and line 14, on either chip; a call that exists and one that does not; sections nested twice. 52,104 states. |
| `Context_registers` (violation) | Are the callee's registers after `switch_to` what they were? No: it stores ebp where ebx belongs (switch_to.s:19). | two threads, one line |

The properties of each are defined, with a comment each, at the end of the
module it checks. Deadlock is checked except where the system really stops: in
`MemoryManagers_all` after a panic, or when the part a behaviour uses has nothing
left to do; in `Disk_requests` after a panic and when no drive answers; in
`Library_all` when the text is printed; in the `Context` runs after an exception.

### Fairness

- `Task`: the timer interrupts 100 times a second and no section keeps
  interrupts off for ever, so `ClockTick` is weakly fair. A time slice is many
  instructions, so a kernel call in progress advances if its thread runs again
  and again: strong fairness of `Continue(t)`. Threads need never call the
  kernel or return.
- `Spinlock`: each thread runs in the end and leaves its critical section.
- `Keyboard`: the reader runs unless halted; the clock keeps ticking. No key
  need ever be pressed.
- `Disk`: the driver runs, and the drive ends each command. A bus without a
  drive that reads as busy for ever (0xFF) would stop the boot; `CallsReturn`
  does not hold without this assumption.
- `Context`: the kernel's own code goes on, a thread leaves its outermost
  critical section, and the processor takes a line that gets through, although
  devices with a higher priority may come first now and then. Nothing is
  assumed of devices and programs.
- `Console`, `Pmm`, `Slob`, `Vmm`, `List`, `Rbtree`, `Printk`: safety only.

### What the violations mean

Each compares the code with a sentence of its own source; `PROJECT.json` quotes
it. All five are errors in the code. What `switch_to` loses is made up for
elsewhere: every switch that returns is made in the clock's handler, whose frame
has ebx, and the code after it finds its stack again through ebp (`leave`), as
long as it is compiled without optimisation. So `ResumesIntact` holds of the
same model.

Three differences between the code and what it says have no run. `nr_task` can
exceed `MAX_TASK`, since threads pass the test before any counts its child; the
theorem `TaskOverrunBounded` says by how much. pmm.h:136 says of
`free_pages_count` that it returns the pages available now; the buddy manager's
returns 623 more from boot on, or `excess` more in general, as `PagesAccounted`
states. And a key typed while shift is
held is not always looked up in the shift table: the flag is toggled, so the
repeat of a held shift key clears it (kboard.c:320).

## 6. The proofs

`tlapm` checks each proof to its leaves.

**TaskProof**, for every finite set of pages and every `MAX_TASK` of at least 2.
The properties are not inductive: that the bitmap never runs out depends on how
many threads are past the limit test but have not counted their child. `IInv`
is the type invariant with

- `StateInv`: which tasks are on the list in which states, the idle task among
  them, runnable and with pid 0;
- `ForkInv`: the child of a fork in progress belongs to it alone;
- `CurrentInv`: which threads can be where, and which can be running;
- `PidInv`: of the tasks on the list with one pid only the first may be alive,
  and a pid `do_fork` has returned belongs to a task on the list;
- `CountInv`: count and bitmap are exact, and `nr_task` plus the number of forks
  in progress is at most `MAX_PID` - 2.

The last is the argument: a thread enters `do_fork` only while fewer than
`MAX_TASK` tasks live, each fork in progress belongs to a different live task,
and `MAX_PID` is twice `MAX_TASK`. It gives `PidsNeverRunOut`,
`TaskOverrunBounded` (`nr_task` is at most 2 * `MAX_TASK` - 2), `PidsAreUnique`,
`BookkeepingCorrect`, `FindTaskCorrect`, `ReturnedPidsFound`, `ExitIsFinal`,
`OnlyRunnableDispatched` and `TypeCorrect`.

**ConsoleProof**, for every width that the tab stops divide, every height and
every screen lower than the buffer: no character is put outside the buffer
(`WritesInBuffer`), and a redraw never reaches past the text (`RedrawIsText`).
The two are inductive together, since the row of the write position never
decreases. That the tab stops divide the width is needed: the end of a row is
tested with `==`. `ScreenInv` adds what the screen shows: between two redraws row
i of the screen is row `current_line` + i of the buffer, and within a redraw the
rows done so far are (`ScreenShowsView`); a redraw into which another thread
printed is marked in the model and excepted. `BufferIsPaper` is the refinement of
`Paper`: below the row written last the buffer is blank (`BlankBelow`), so a new
line appends a blank one to the lines typed so far (`Typed`), and moving the
buffer up drops its first rows, which `Paper` does when it keeps only the last.

**DiskProof**, for any data, tables, sizes of requests and number of sectors, and
a drive that takes any time and may fail at any step. The invariant tells two
phases apart: `Moving`, where the drive's place in the transfer and the driver's
agree (`DevInv`), and `Resting`, where a write may still be stored by the drive.
`ReadInv` says that what has been fetched so far is what is on disk, `BootInv`
which devices and which table the boot has found. It gives `ReadsAreDisk`,
`OnlyRequestedIsWritten`, `BuffersHold` and `RegisteredIsThere`.
`LayoutIsWellFormed`: for all partitions with at least 12 sectors between start
and end and numbers below half the word, the parts follow each other and each
map has room for what it maps; `FormattedIsWellFormed` carries it to what boot
computes from the table it has read, if the partitions on disk are such
(`TablesFit`).

**MemoryProof**. `MemoryIsDivided`: whatever the length of memory and the end of
the kernel, if they pass the assertion in `phy_pages_init` that memory ends with
a page (`EndsWithPage`), tables, descriptors and managed pages do
not overlap, and the two conversions are inverse. For `Slob`, with any arena and
sizes: each call replaces one to three neighbouring chunks by others that cover
the same bytes, and a sequence of chunks in which such a piece is replaced still
tiles the arena (`ReplacedTiles`, `ArenaStaysTiled`) without two free neighbours
(`ReplacedGlued`, `FreedIsGlued`). `MarkedStayHeld` follows the marked chunks: a
cut chunk is the only new one, and its caller holds it (`SplitUsed`,
`KmallocHeld`); gluing takes at most the caller's own chunk off them
(`KfreeHeld`), and freeing a pointer to an unmarked chunk does not touch a marked
one, since no two chunks share an address; so when nothing is held no chunk is
marked, and glued chunks that tile the arena are then one (`AllFreeIsOne`). No
size is excluded: close fits are handed out unmarked here as in the code.

For `Vmm`, with any addresses, tables and memory: `PagingInv` says that the
tables of the kernel are as `vmm_init` left them, that no two directory entries
share a table, that a table is in no page callers hold, and that each entry not
known to be garbage has what was last asked for (`PagingInvariant`). From it an
address translates as asked, in the tables and in the cache
(`TranslationIsAsked`), and the kernel stays mapped (`KernelStaysIntact`). The
managers of `MemoryManagers` share no variable, so what is proved of one holds of
all together (`EachManagerBehaves`).

For `FirstFit`, with any number of pages, any memory at boot and any requests
made before it is over, under `KernelRequests`: the manager is first fit, as
pmm.c:29 builds it, and after boot one page is asked for at a time, as `do_fork`
and `map` do. `FirstFitInv` says that the list is the free pages in ascending
order, that the first page of each run of free pages, and no other, has
`has_ncount` and the length of the run, that the cached count is the length of
the list, and that each page not free is in exactly one block a caller holds. It
gives `FirstFitMerges`, `FirstFitAccounts`, `FirstFitAccepts` and the refinement
of `PageAllocator` (`FirstFitIsAllocator`).

**ContextProof**, for any threads, lines, system calls and depth of nesting. The
invariant says what a stack looks like: each frame leads back to the registers
and the flag of the one below (`Chained`); a thread that does not run waits, in a
switch or in its first frame, outside critical sections (`Waiting`); sections
are on top of the stack of the one that runs, with interrupts off (`Sections`).
It gives `ThreadsResumeIntact` and `CriticalSectionsHold`.

**KeyboardProof**, for every length of the ring of at least 2: the handler can
come between any two steps of the reader and moves only `krear`, the reader only
`kfront` (`ReaderInv`), so what lies between the two is a queue (`RingIsQueue`)
whose front the reader has when it gives the slot back (`ReaderGetsFront`).

**ListProof**, for any finite set of heads and elements: `next` and `prev` are
inverse on the nodes in use, after every function and whatever nodes it is given
that its callers may give it (`DirectionsAlwaysAgree`). `RingsInv` adds that each
head in use has a ring: a sequence that begins with it, goes on with elements
only, is linked in its order and leads back to the head (`RingOf`, `ListsAre`).
Since `prev` undoes `next`, two places that hold the same node lead back to the
heads by the same way, so a node is at one place of one list (`OnePlace`); a ring
is then no longer than there are nodes, the loop of `list_for_each` ends and
meets exactly the ring (`RingBounded`, `LoopDefined`, `VisitedRing`). What each
function does is shown once for a ring (`JoinedRing`, `LeftRing`, `RenamedRing`,
`FrontRing`, `BackRing`), then for all lists, then in the words of `Lists`:
`ListsAreSequences` states the refinement. `TraversalsMirror` is `QueriesAnswer`,
which follows by reading the same ring along `prev` (`MirroredRing`).

**LibraryProof**, about the red-black trees, for any set of nodes and any keys.
What a tree of any height looks like would be defined by recursion over it. The
proof does without: `TreeInv` says that there is a set `sub[n]` for each node,
the nodes of its subtree, and a number `bh[n]`, its black height, and puts
conditions on each node and its neighbours alone. It is the conjunction of

- `Shape`: pointers up and down agree, `sub[n]` is n with the sets of its
  children, which hold the smaller and the larger keys; `Loose`: the nodes in no
  tree are clear;
- between calls `Balanced`: at each node the two heights agree, no two reds
  follow each other, the root is black;
- during an insertion `Grown`: the same, but the node of the call may be red below
  a red node or at the root;
- during a removal `Light`: the subtree at the node of the call, which may be
  empty, is one black node lower than its sibling; or `Rooted`, when the loop has
  reached the root, or `Balanced` when no black node went;
- `Wrong`, the nodes whose data are not the size of their subtree: none between
  calls, and otherwise only those that `rb_augment_path` will meet (`Due`) from
  where it stands, or from where `rb_augment_erase_begin` has told the caller to
  start.

`TreeBalanced` and the others are not inductive, since they hold between calls
only. What must hold of all nodes below one, or above one, is shown of a node
where `sub` is smallest, or largest, among those where it fails (`TreeInduction`,
`DownInduction`). A rotation is a sequence of assignments some of which go to
null; `RotateFacts` states what they come to, `RotateShape`, `RotateEven` and
`RotateWrong` what becomes of the shape, the heights and the data. `LinkFacts`,
`UnlinkFacts`, `UnlinkInnerFacts` and `ReplaceFacts` do the same for the other
ways in which the code changes links, the removal of a node with two children
among them, where the successor may or may not be a child. The walks end because
each step lowers a bounded rank (`Ranks`), and what they find is `OutermostFirst`
and `NeighbourNearest`. Each action then keeps the invariant: `InsertKeeps`,
`RecolorKeeps`, `InsertRotateKeeps`, `InsertDoneKeeps`, `EraseKeeps`,
`EraseUpKeeps`, `EraseRotateKeeps`, `EraseDoneKeeps`, `AugmentKeeps` and
`ReplaceKeeps`, put together in `TreeInvariant`. It gives `TreesStayBalanced`,
`TreesStayInOrder` and `AugmentStaysExact`, the three properties of the run. The
only assumptions are that keys are numbers and that no node is at address null;
that the keys in a tree differ is what the caller of the example tests.

The same module has the spinlock, the other part that no code calls yet, under
`FewThreads`: at most `SignBit` + 1 threads, 129 in the code. The byte is 1 minus the number of threads that have decremented it since
the last unlock (`SpinlockCounts`); so only the first of them sees it not
negative (`SpinlockExcludes`), and each step is a step of the mutex
(`SpinlockRefinesMutex`). With one thread more the byte wraps and a second thread
gets in.

Only model-checked:

- all liveness, which needs ENABLED and so is out of the prover's reach;
- the buddy manager: its blocks are powers of two, of which the provers know no
  facts, and what its self-test and several merges leave on its lists needs
  induction over them;
- `PrintsAsMeant` of `Printk`: the digits of a number, and what a conversion
  means, are defined by recursion, on the number and on the text.

The provers do no induction over data. Where a proof above needs one on numbers,
or on a tree, it argues from a least counterexample (`LeastOfNats`, after `WFMin`).

## 7. Not modelled, and why

- VFS, ramfs, character devices: registration at boot in lists nothing reads
  again, and stubs. What `open`, `close`, `read` and `write` answer is part of
  `Context`.
- GDT, boot, strings, debug information: straight-line code without state that
  later operations change, and loops over bytes. Of the string functions two are
  not what their names promise: `strcmp` answers with the opposite sign of C's,
  and `strncpy` copies the whole source whatever the length.
- The loader's map of memory, beyond the one block it can have at 1 MB, the texts
  of exceptions, how the timer chip is programmed, the hardware cursor.
- `printk` from two threads at once: its static buffer has no lock
  (printk.c:29), but no sentence of the code promises whole messages.
- Two threads in `kmalloc` or in `ide_request` at once: neither has a lock, but
  no code in the tree calls them from two threads, so it cannot happen.
- Two of the macros for traversal: `list_for_each_entry_reverse` (list.h:225)
  compares a structure with a pointer and does not compile where it is used, and
  `list_for_each_entry_reverse_safe` (list.h:236) takes the element after the last
  for its next one and stops after one turn. Nothing uses either.
- Reclaiming of zombies: nothing in the tree does it. Their pages and pids stay.
