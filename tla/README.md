# Todd: models and proofs

Todd is a small 32-bit x86 kernel with preemptive tasks, a text console, a
heap behind paging, and a lisp shell as its first user program. This directory
holds TLA+ models of it, the TLC runs that check them, and TLAPS proofs.
Paths below are relative to `src/` (the repository), so `src/io.c` is
`src/src/io.c` as seen from `PROJECT.json`.

## 1. Inventory

| Component | State | Operations | Talks to | What is hard | What makes it correct |
|---|---|---|---|---|---|
| mutex (`src/mutex.c`) | one word per mutex, `current_task->priority` | `lock`, `try_lock`, `unlock` | scheduler | preemption between lowering and raising the priority; unconditional `sti` | exclusion; a waiting or owning task is not starved by its low priority |
| queue (`src/queue.c`) | `data`, `size`, `push_i`, `pop_i`, `m` | init, push, pop | console, heap | stores and loads outside the mutex, wrap at `size`, early return | what is tested under the mutex still holds when it is used, no update of `size` is lost |
| console (`src/io.c`) | `io_lock`, `io_queue` | `write_char` and what is built from it | queue, monitor, serial port | two mutexes, an unlocked read of `size`, full queue | one printer at a time, one character printed for each call, calls return |
| kernel heap (`src/heap.c`) | headers and footers in memory, `heap_start` | malloc, free, merge, grow | paging | long histories of splits and merges; recursion through `alloc_page` | blocks tile the heap, payloads are disjoint, holes merged |
| paging (`src/memory.c`) | directory, page tables, `malloc_mtx`, `alloc_ptr` | `kmalloc*`, `kfree`, `alloc_page`, `memory_init` | heap | unlocks its mutex in the middle of an allocation; the CPU drops the low bits of a table's address | every heap byte mapped; allocation atomic |
| scheduler (`src/task.c`, `task.s`, `timer.c`) | ring of tasks, priority, age, stack, `to_del` | timer tick, `switch_task`, `fork`, `join` | mutex, heap | preemption anywhere, aging, links written with interrupts on | no starvation, the search ends, the ring stays a ring, stacks have one owner |
| boot (`src/main.c`, `boot.s`, `gdt.*`, `multiboot.c`) | modules | init sequence | all | order of initialisation; memory kept for modules | memory of the ramdisk is not handed out, the heap is mapped |
| interrupts (`src/idt.c`, `isr.c`, `stack_trace.c`) | handler table | dispatch | timer, syscalls, paging | handlers that print while locks are held | a handler never waits for the task it interrupted |
| system calls (`src/syscall.c`, `usr/lib/system.*`) | none | write, read, malloc, free, fopen, exec, colours, rand | all | `read_char` loops over scan codes | every key typed is delivered once |
| keyboard (`src/keyboard.c`, `ps2.c`) | `keys[256]` | `keyboard_scan`, `translate_code` | syscalls | repeats and releases | one character per press |
| monitor (`src/monitor.c`) | cursor, colours, video memory | `monitor_write_char`, `scroll`, `set_pos` | console | tab in the last columns, backspace, scrolling inside a nested write | the screen is a window on what was written |
| serial port, port I/O | UART | init, write | console | none (polling) | - |
| program loader (`src/elf.c`) | `has_been_run` in the image | `elf_load` | syscalls | a second run of a relocated image | relocated exactly once |
| file system (`src/tar.c`) | list of nodes | `load_ustar`, `tar_find_file` | boot, syscalls | block rounding | every file of the archive is found |
| kernel library (`src/common.c`, `string.c`) | `rng_state`, `ticks` | `rand`, `usleep`, strings | all | read after unlock, wrap-around | - |
| user library (`usr/lib`) | none | `printf`, `gets`, strings | syscalls | backspace in `gets` | result is terminated and within the buffer |
| lisp reader (`usr/lisp/main.c`, `lexer.c`, `parser.c`) | line buffer, balance, position | line editor, backtracking parser | syscalls | backspace, buffer end, unterminated tokens | what is executed is what is on the line |
| lisp evaluator (`usr/lisp/exe.c`, `scope.c`, `array.c`, `methods.c`) | scope tables, level, all nodes | define, call, collect | reader | error paths, sharing between nodes | reachable nodes survive a collection |
| programs (`usr/*.c`) | none | wordle, demos | user library | - | - |

How they interact. Every user program runs in the kernel's address space and
enters it by `int 3`. All output ends in `write_char`, which any task may be
in at any time; the timer interrupt calls `switch_task`, so a task can lose the
CPU between any two instructions while interrupts are on. Tasks share memory,
and only mutexes order them. `kmalloc` calls `alloc_page`, which calls
`kmalloc` again. Nothing is persistent: there is no crash recovery to model.

At this commit nothing calls `fork` or `join`. The concurrency of the mutexes
is still what this code is written for (`queue.h:8`, `memory.h`, the comments
of `io.c` and `mutex.c`), and that is what the models check it against.

The full list of hazards, each at its line and with the properties that guard
it, is `hazards` in `PROJECT.json`.

## 2. Modules and how they correspond to the code

    Mutex ──┬── Sched ───────── Sched_proofs
            ├── Tasks ───────── Tasks_proofs
            ├── Queue ───────── Queue_proofs
            │     │
    QueueOps ─────┤
            │     │
            ├── Console ─────── Console_proofs                      CharDevice (abstract)
            │
    HeapMemory ── Heap ──────── Heap_proofs
    Boot ───────────────────── Boot_proofs
    Monitor ──┬─────────────── Terminal_proofs                      Paper (abstract)
    Keyboard ─┘
    Parser ── Grammar ──┐
            LineEditor ─┴─── Reader                                 Grammar is the reference
    Scope ──┬── ScopeTable                                          Frames (abstract)
            └── Nodes ── Evaluator ── Lisp
    LineEditor, ScopeTable, Nodes ── Shell_proofs

The MC modules extend a component and hold what only TLC needs (symmetry, a
constraint, the value of a constant). Operators called a *mutant* are mistakes
a programmer could make in the definition that follows them; no specification
uses them. Each checked property is paired in `PROJECT.json` with the mutant
that breaks it.

**Mutex** is the mutex word: `Lock` is the successful exchange (the failing
ones leave everything as it was and are stuttering), `TryLock` the single
exchange, `Unlock` the plain store.

**QueueOps** has the fields of `struct Queue` and the critical sections of push
and pop as functions on it: which slot is claimed, how `push_i`, `pop_i` and
`size` move (they wrap at the *size* at that moment, as in `queue.c:28,39`).
**Queue** runs `queue_push` and `queue_pop` in several threads, one step per
access that another thread can tell apart: entry, lock, test, the reads of
index and size that `++q->size` and `q->size--` begin with (`PushRead`,
`PopRead`, into the thread's own `old_i` and `old_size`), the writes with the unlock,
and the store or load that come after the unlock. Only the mutex keeps two
updates apart. `accepted` and `taken` are history variables.

**Console** is `write_char`. Its queue steps are those of Queue with test, reads and
writes in one step: all are under the mutex, and Queue's `TestStillHolds` and
`SizeIsLedger` show that nobody comes between them there. The loop test
`while (io_queue.size)` is a step of its own because it reads without the
mutex. Characters are model values. **CharDevice** is the promise: one
owner at a time, who prints deferred characters and then its own; a task may
leave its character behind while fewer than `Cap` wait; accepted characters
are printed or waiting. Console implements it (`ImplementsDevice`), with the
task inside `drain ... unlock` as the owner and a character counted as
printed from the moment it is popped. The promise does not say when a deferred
character is shown: one that is pushed after the owner has looked for the last
time waits for the next `write_char`. Nor does it say which character is shown:
it counts. `queue.c:28` lets a push overwrite a slot that nobody has read, so that a
character is lost and the one that took its place is printed twice, which the
counts of `CharsConserved` and `ImplementsDevice` do not see (section 4).

**HeapMemory** is memory as `heap.c` reads it, in 4-byte words: a header takes
two, a footer one. A word that is overwritten by something else stops being a
header or footer; headers that a merge leaves behind stay in memory until then.
It also has the size formulas. **Heap** is `kmalloc`, `kfree` and
`alloc_page`. `heap_malloc`'s loop is one step per block and `alloc_page` one
step per part between mutex operations; the nested `kmalloc_a` for a page table
is the same walk with a second cursor. `kfree` is one step, since it holds the
mutex from start to end. Owners write over their payloads (`UseBlock`). A failed
`assert`, a page fault and a walk over something that is no header set
`status`, and a machine with a status other than `"ok"` takes no step.
The page directory is, per entry, the set of pages that the CPU maps with it
(`dir`), and the address of its page table if that is on no page boundary
(`skewed`). The CPU and `memory.c:85` drop the low bits of such an address
(`Entry`): what `alloc_page` has just entered counts for another page, a later entry is
written below the table over headers or payloads (`MapPage`), and those words, as
others write them, make pages come and go (`InstallTable`, `Remap`). A page that is
mapped by such a word may be any frame; that it is mapped is followed, what is
read through it is not told from the page itself.
`blocks`, `end` and `torn` are history variables. `Spec` has every interleaving
the code allows; `QuietSpec` differs in one guard, `Quiet`: nobody calls
`kmalloc` or `kfree` while another task is in the part of `alloc_page`
where the mutex is released (`memory.c:92` to `memory.c:96`). With one task both
are the same.

**Sched** is the timer tick, `switch_task` and `incr_task` on a ring of `N`
tasks, together with the three stages of `lock` that change a priority. Only
the current task executes; the tick may come between any two of its steps and
`incr_task` runs with interrupts off, one step per task it passes over.

**Tasks** is the list of tasks itself: `task_init`, `fork` with `move_stack`,
`join` with `delete_task`, and the tick. The assembly of fork and join starts
with `cli`, but `lock` ends with `sti`, so their code is preempted from the
first `kmalloc` or `kfree` on: everything before it is one step, every use of a
shared pointer behind it is a step of its own. `delete_task` runs on the stack of the task it switches
to, so a task's control state is a stack of calls (`calls`). Ages are not
repeated here: the tick may stop at any task that `incr_task` can stop at with
some ages (`Picks`: every task it passes over, `Visits` of them, is
deprioritized). `members` (forked and not joined) and `why` are history
variables; `why` records that a next, a prev or `to_del` was used after
somebody else had changed it. The state behind such a use is only checked, not
followed.

**Monitor** is `monitor_write_char` with its five cases, `scroll` and `set_pos`.
Video memory is one array with cells behind the last row, where the code
writes when a tab has taken `cursor_x` past the last column; `cursor_x` is a
byte. A backspace calls the function from inside itself (`set_pos`).
**Paper** is what a terminal does, with nothing that scrolls: a sheet that
grows and a pen. With the rows that were scrolled off kept in `above`, Monitor
implements it (`ImplementsPaper`).

**Keyboard** is the way of a key to a line: the typist and the controller
(external), `keyboard_scan` with its table of pressed keys, `translate_code`
under `read_char`, and `gets`. The controller's port gives the last byte again
when nothing is queued, its queue has an end, and the first scan switches
scanning on and takes whatever it reads for the answer.

**Parser** is `lexer.c` and `parser.c`: each parse function is an operator on
a text and a position that returns what it found and where it left the
position, tried in the order of the code with its backtracking. A search for
the end of a comment or string that leaves the text is a result of its own.
**Grammar** says which sequences of tokens are which trees, without an order
of trying. **LineEditor** is the prompt of `main.c` in front of them: the line
buffer, the unsigned index and balance, backspace and return. What it hands the
text to is a constant operator, `Parse`; **Reader** puts the two together and
says when the parser is right, and the run gives `Parse` the parser's `parse`.

**Boot** is the way from `kmain` to running programs: `save_modules`, the
allocator before the heap exists, `memory_init` page by page, `heap_init`,
`check_modules`, `load_ustar` header by header, `tar_find_file`, and `elf_load`
with programs that run each other. Addresses count in words. What kmain does
when something is missing (no shell, no memory, two modules, a tick before the
interrupt table) is a value of `status`.

**Scope** is the lisp's symbol table as functions on a record: the chain of a
bucket is a sequence, newest entry first, and the hash is a constant function.
**ScopeTable** drives `scope_in`, `scope_add` and `scope_out` in every order in
which no level is left that was not entered. **Frames** is what callers expect
of it: a stack of frames, each saying what it binds a name to. ScopeTable
implements Frames (`ImplementsFrames`), frame `i` being the newest entries of
level `i - 1`.

**Nodes** is the node store of `scope.c`: `scope_kmalloc`, marking and
`scope_gc`. Nodes are numbers, `NULL` is 0, and a scope has the set of allocated
nodes, so that sharing, garbage and the collector are what they are in the program.
Its recursion is written as recursive functions, about which can be proved.
**Evaluator** is `exe.c` and `methods.c` as
operators that take the scope and return it with the value: about one operator
per C function, with the order of evaluation and the early returns of the code. A
read through a wild pointer and a division by zero set `fault`, and an
execution is not followed past one. **Lisp** is the shell around it: a step is
a line that is parsed, executed, printed and followed by a collection; the line
is the parsed value, which Reader and Parser produce. `convert_list` does not
look at the scope, so the nodes of a line are computed once (`Converted`) and
copied to free numbers when it is entered (`Load`).

## 3. Runs

| Run | Instance | What it checks | States |
|---|---|---|---|
| `queue` | 3 threads, 2 calls each, capacity 2, symmetric | `TestStillHolds`, `SizeIsLedger` | 133728 |
| `console` | 3 tasks, 6 characters, capacity 2 | `Exclusion`, `PopNonEmpty`, `CharsConserved`, `Returns`, `ImplementsDevice` | 75807 |
| `heap` | 11-page heap growing to 16, pages of 4 words, a page table per 3 pages, 1 task, 3 live blocks of two pages or of three and a half | `BlockListSound`, `OwnersSafe`, `UsedIsOwned`, `StopsExplained`, `Returns` | 40135 |
| `heap_window` | 2 tasks | violated: `alloc_page` lets another task in while `heap_malloc` stands on a block | - |
| `sched` | 3 tasks, priority 15 as in the code | `AgeBounded`, `Exclusion`, `EveryTaskRuns`, `MutexReleased` | 65892 |
| `tasks` | 3 structures, 2 stacks, 6 forks, joins in any order | `RingHolds`, `FailureExplained`, `Owned`, `HeapReleased` | 11343 |
| `monitor` | 4 by 2 characters, tab stops at 2, a cursor byte of 0..5, one row scrolled off, 2 marked cells | `RowOnScreen`, `ImplementsPaper` | 127968 |
| `keyboard` | 6 keys, 5 events, a controller of 3 codes, a line of 3 | `OnceEach`, `LineWhole`, `PressesArrive` | 543657 |
| `reader` | lines of up to 7 of 10 characters in a buffer of 7 | `LineIsKept`, `ExecutedIsTyped`, `ParserAgrees` | 78302 |
| `boot` | 7 sizes of memory, 5 lists of modules, 5 archives, programs 3 deep | `HeapBacked`, `FilesFound`, `RelocatedOnce` | 3679 |
| `scope` | 3 names in 2 buckets, levels 0 to 2, 3 entries a bucket | `ChainsSound`, `LookupRight`, `ImplementsFrames` | 99751 |
| `lisp` | 32 lines over the names x, bx, y, f, g and the builtins; up to 3 definitions and 2 leaked levels | `CollectorExact`, `ScopeSound`, `ExampleHolds`, `LeavesNoTrace`, `GlobalsKept` | 1540 |

Bounds and why they are enough.

* *Queue.* Capacity 2 with three threads fills and empties the queue while a
  third thread is between its writes and its store. Every thread may also pop an empty
  queue, which leaves the mutex held, so the run has dead ends and deadlock is
  not checked; the invariants hold in those states too.
* *Console.* Six characters by three tasks reach a full queue, a waiter in
  `lock(&io_lock)` and an owner draining behind it. The code's capacity of 64
  changes no branch.
* *Heap.* A page has 4 words instead of 1024 so that splits, growth, page
  tables and the end of memory are a few allocations away; the formulas are
  the same. Sizes are whole words: requests that are not multiples of four
  bytes would only add addresses between the words. `MaxLive` bounds the blocks in
  use. The machine halts on a failed assertion, so deadlock is not checked.
  The sizes are chosen so that every case happens, also the one in which a page
  table fits a hole exactly: at word 4, where the heap begins, a page table needs 11
  words, 4 of them up to the next boundary, and 11 words is what the block of
  8 leaves there as a hole when it is freed, with its header and footer. The table is
  then at word 6. Both cases of `InstallTable`, `MapPage` below a table, `Remap` and
  the faults that follow are reached.
  A state is *torn* after one of three faults of the code: a free that merged on both
  sides (`heap.c:178`), a page table whose second header overlaps the first
  (`heap.c:91`, when the boundary is less than a header away), and a page table on
  no page boundary (`heap.c:59`, entered by `memory.c:101`). Behind the first two
  nothing is explored; behind the third the run follows the `kmalloc` that took the
  table to its end (`Followed`), which is where the machine faults. The properties
  are checked in the torn states themselves too, as far as they speak of them.
  That the heap is mapped is part of `BlockListSound` (`HeapMapped`). With one
  task `Quiet` is always true, so that the run is about the code as it is; what
  a second task does is in the run `heap_window` and, under `Quiet`, in the proofs.
  What the run shows is therefore that everything goes wrong through those three
  or the lost last flag (`StopsExplained`).
* *Sched.* The priority is the code's 15. Three tasks are enough for one owner,
  one waiter and one that computes, and for all three to wait at once.
* *Tasks.* Three tasks are the smallest list in which a task's neighbours
  differ; six forks reuse every structure and stack, and give each task time to
  fork, be joined and be forked again. A fork starts only while there is a
  block for it (`HeapHasRoom`); running out of memory is the heap's matter.
* *Monitor.* Two rows and four columns with two tab stops have every margin;
  the cursor byte wraps at 6 so that the way round it is short. At most two cells are written,
  which tell apart where they are; one row scrolls off and is followed.
* *Keyboard.* Two keys with one table entry, a shift, a letter, newline and
  backspace; five events fill the controller's three codes and leave two to be lost.
  The line of 3 is filled by two characters, and `gets` is called again for the
  next one: `began` remembers where, so that a line that lost its first characters or
  began anew would be seen.
* *Reader.* A text of seven characters has nested lists, a pair in a list, a
  quoted list and an unterminated string. The constraint bounds the long lines
  to brackets, dots and a letter and lets a line contain one rare character.
  Grammar begins with the tokens of Parser's own `lex`, so that `ParserAgrees` is about
  the parser; the lexer has no second definition to agree with, only that of C;
  lines with something taken back have at most three characters. A store or
  a read outside the buffer ends the run, hence no deadlock check.
* *Boot.* Pages and page tables of four words, so that the kernel, the
  modules and the heap lie across several page tables and mapping allocates
  some; machines from too small to roomy. The archives have empty files,
  files that end with a block, a name twice, no shell, and no file at all.
* *Scope.* Two names share a bucket and the third has its own; two values tell
  a hidden binding from the one that hides it. One of the values is 0, since
  the code enters NULL when an argument has no value.
* *Lisp.* `WORD` is 256 instead of 2^32, so that products stay within TLC's
  integers; a wrap-around needs no special case. `MAX_DEPTH` is 9 instead of 64:
  deep enough for the recursions with an end, and the one without an end meets
  it. The lines call every builtin, with arguments of the right and of wrong
  types and with too few of them. `(exec ..)` and `(read ..)` open files and
  are left out, `()` cannot be parsed, and a string as the name in `let` is left
  out because the text of strings is. A crash ends the run, hence no
  deadlock check.

Fairness.

* *Console* and *Heap* assume weak fairness of each task's started call: the
  timer interrupt gives every task its turn, which is what
  `EveryTaskRuns` shows of the scheduler. No fairness obliges a task to make a
  call. The spin in `lock` can in principle starve against an endless stream of
  other takers; in Console the number of characters is bounded and every task
  finally finds the lock free, so `Returns` says that nothing is stuck, not that
  the lock is fair. Heap's `Returns` has one task.
* *Sched* assumes that the timer keeps ticking and that the steps of
  `incr_task` are executed (weak fairness of `Switch`), and strong fairness of a
  task's steps inside `lock` and its critical section: a time slice of a
  millisecond is far longer than an instruction, so a task that gets the CPU
  again and again executes its next one.
* *Tasks* takes that result of Sched as its assumption: every task on the list
  gets the CPU again and again (strong fairness of a tick that chooses it), and
  strong fairness of its next step. Nothing obliges a task to fork or join.
* *Keyboard* has weak fairness of `Poll`: the loop of `read_char` runs with
  interrupts off and waits for nothing.

## 4. What the models say about the code

The run `heap_window` is a disagreement between the code and its own comment:
`memory.c:92` gives up `malloc_mtx` in the middle of an allocation, and another
task's `kfree` merges away the block that `heap_malloc` goes on with;
`memory.c:13` says that allocations happen atomically.

The other places where the models do something a reader may not expect. Each is
in a model as the code has it, with a status, a history variable or a case; the
properties say what holds all the same.

* Queue: `queue.c:28` and `queue.c:39` wrap the indices at the size instead of
  the capacity, so that elements come out in another order than they went in, or
  not at all: two pushes in a row may use one slot, and the first element is lost.
  `queue.c:30` stores, and `queue.c:42` lets the caller load, after the unlock.
  `queue.c:37` returns NULL with the mutex held; `write_char`, the only caller,
  never meets this case (`PopNonEmpty`).
* Heap: `heap.c:163` does not hand on `is_last`; `heap.c:178` runs `merge_right`
  on a header that `merge_left` has absorbed; `heap.c:26` forgets the header of
  the page table it reserves room for (status `no_table`); `heap.c:59` returns
  the unaligned address when an aligned request fits exactly, and `alloc_page` enters it
  as a page table whose low bits are dropped (`memory.c:85`, `memory.c:101`): the page that was
  asked for is not mapped, and later entries go below the table (`skewed`, `torn`).
* Tasks: `task.c:40` never sets the old successor's prev, `task.c:36` reads a
  successor that may be stale when it is used, `task.c:70` reads `to_del` again
  after interrupts are on, `task.c:69` may wait for a mutex owned by the code
  under it, and `join` may choose the joining task itself (`own_stack`).
  `why`, `SelfWait` and the statuses say when. At this commit nothing joins.
* Monitor: a tab in the last columns leaves the screen (`monitor.c:79`).
* Keyboard: `stdio.c:87`'s `i--` is undone by the loop's `i++`, so a backspace
  rubs out nothing in `gets`, and leaves a hole at the start of the line.
  `keyboard.c:105` takes a code typed ahead for the controller's answer.
  The digits of the keypad share entries with those of the main block.
* Reader: `lisp/main.c:33` reads before the buffer at the start of the line,
  `lisp/main.c:43` has no bound (`stored_outside`), `lisp/main.c:30` drops the
  newline inside brackets, so that two words become one, and what was taken back
  is parsed with the line when nothing is typed over it (`ExecutedIsTyped` says
  how much). `lexer.c:39` searches the end of a comment or string outside
  the buffer (`read_outside`).
* Boot: `main.c:44` allocates before the tasks and the interrupt table exist
  (`triple_fault`); `main.c:36` saves the first module only and `main.c:23`
  looks for the second in the wrong place (`wild_module`); `main.c:44` and `main.c:45`
  allocate the queue and its data where the loader may have put the first module;
  `memory.c:118` ignores that a page could not be mapped (`page_fault`);
  `elf.c:64` refuses a program whose entry point does not move (`no_entry`);
  `main.c:59` does not test that the shell was found (`no_shell`).
* Evaluator: the early returns of `exe.c:156` and behind it, between `scope_in` and
  `scope_out`, leave the level raised and the parameters bound so far in the table
  (`leaks`): what is defined later is defined above level 0.

Several properties are silent about the very failure that a hazard names, because
the code does fail there; what they show is that nothing else goes wrong and nothing
goes wrong before.

| Failure | Where | Which property is silent, and when |
|---|---|---|
| slots overwritten or read early | `queue.c:28`, `queue.c:30` | `CharsConserved`, `ImplementsDevice` only count |
| torn lists and page tables | `heap.c:91`, `heap.c:178`, `heap.c:59` | all of the run `heap` but `Returns`, once `torn` |
| stale pointers of fork and join | `task.c:36`, `task.c:40`, `task.c:70` | `RingHolds`, `FailureExplained`, `Owned`, once `why` says so |
| a call that waits for the code under it | `task.c:69` | `HeapReleased`, when a task waits for itself (`SelfWait`) |
| writing past the last column | `monitor.c:79`, `monitor.c:120` | `ImplementsPaper`, until the cursor is back |
| lost key codes | `keyboard.c:105` | `OnceEach`, `PressesArrive`, without `Reliable` |
| text taken back and executed | `lisp/main.c:30` | `ExecutedIsTyped` allows it within one line |
| a search outside the buffer | `lexer.c:39` | `ParserAgrees`, whose text then has no meaning |
| a level left raised | `exe.c:156` | `LeavesNoTrace`, `ExampleHolds`, for lines that leak |

Seen and in no model: `common.c:98` reads `rng_state` after the unlock, so that
two callers of `rand` may get one number; `common.c:85` compares with a sum that wraps
after 49 days; `io.c:159` takes bit 27 for the sign of a `%d`, and
`io.c:145` does not step over the argument of a `%b`;
`task.c:30` copies at most 4096 bytes of stack; `idt.c:122` prints from an exception
handler while the code it interrupted may own `io_lock`; the parser
takes time exponential in the depth of nested pairs and frees little of what it
allocates; a program that is run twice finds its data as it has left it.

## 5. Proofs

Eight modules hold proofs; all theorems are for every value of the constants
that the named ASSUMEs allow. TLC evaluates the assumptions in the runs. Only
those of `Heap_proofs`, and the three about nodes in `Shell_proofs`, have a
hypothesis besides the specification of the code.

`Queue_proofs` and `Console_proofs` both begin with what the operators of
QueueOps return: the indices stay below the capacity although they wrap at the
size (`WrapBelow`), and claiming a slot leaves a queue.

`Queue_proofs`, for any finite set of threads: `TypeCorrect`, `TestsHold` and
`Ledger`. The inductive invariant adds to the type invariant that at most one
thread is between lock and unlock and the mutex says so (`Alone`), that a
thread that has found room or an element still does (`TestStillHolds`), and that the
size a thread is about to write back, one up or one down, is still the one it has
read (`Fresh`): nobody else can change `size` in between. `Ledger` follows from
`Fresh`; without it an update would be lost. Empty pops, which never unlock, keep the
mutex held for ever, and the invariant holds there too.

`Console_proofs`, for any finite set of tasks, any characters and any capacity:

* `TypeCorrect` - `Spec => []TypeOK`.
* `DeviceExclusion` - `Spec => []Exclusion`, from the type invariant: one step
  per action, and for the two mutex words the argument that the word is Held
  exactly while the set of tasks inside is not empty.
* `SafeDereference` - `Spec => []PopNonEmpty`. It is inductive relative to
  `TypeOK` and `Exclusion`: only the printer pops, there is one printer, and
  every other task's step leaves `size` or increases it. This is the argument
  of the comment at `io.c:47`.
* `CharactersCounted` - `Spec => []CharsConserved`, a statement about numbers only
  (see section 2). The counts are cardinalities
  of sets of tasks; each action moves at most one task in or out of each set,
  and the cardinality lemmas of `FiniteSetTheorems` do the rest.
* `ConsoleIsDevice` - `Spec => ImplementsDevice`: each step of `write_char` is
  a step of CharDevice or leaves its variables alone, one lemma per action.

`Sched_proofs`, for any number of tasks and any low priority: `TypeCorrect`,
`MutualExclusion` and `BoundedAge`. The inductive invariant
is their conjunction; for `BoundedAge` the fact needed is that only the task on
the CPU lowers its priority, and its age is 0 then.

`Terminal_proofs`, for a screen of any size and any distance of tab stops that
divides its width:

* `RowAlwaysOnScreen` - `Spec => []RowOnScreen`; with the type invariant it is
  inductive.
* `ScreenIsWindow` - `Spec => ImplementsPaper`. `CellPlace` and `OneCell` say
  where a cell is and that different places are different cells, `ScrollSheet`
  that scrolling adds a blank row to the sheet and changes nothing on it,
  `CellOnSheet` that writing a cell changes one place of it, and `Shown` puts
  them together; then one lemma per case of `monitor_write_char`.

and for any keys, codes and shifts, a controller of any depth and a line of any
size:

* `KeysTypedOnce` - `KeyboardSpec => []OnceEach`. `OnceEach` alone is not inductive:
  it says nothing of the bytes between the typist and the driver. The invariant
  (`Pending`) does: a `Run` of the driver over the bytes in the controller, from
  the codes it holds for down, ends with those of the keys that are down, and
  delivers on its way exactly what was typed and not delivered. A press, repeat or
  release adds a byte at the end of the run (`RunAppend`), a scan takes the first
  one off (`RunTail`). A port that is read again has a byte that changes nothing
  (`PortSeen`). With two keys of one entry down a release would say less than the
  run needs (`OneCode`), which is why `clash` is in the property.
* `LinesWhole` - `KeyboardSpec => []LineWhole`: the line is all that was delivered
  since `gets` was called (`began`), from the first character to a newline or a full
  buffer. Between two characters the places before `i` are that line so far (`Fill`),
  and those from `i` on are untouched; a hole can only come first, because a
  backspace that finds `i` at 0 is the first character of the call (`Empty`).

`Boot_proofs`, for memory, pages, heap, modules and archives of any size:

* `MemoryIsBacked` - `Spec => []HeapBacked`. Until the heap exists memory is
  given out upwards (`Upwards`), which keeps it apart; the mapping loop has
  mapped every page below its address that memory has (`Walked`), and its end,
  moving or not, is page-aligned (`Mapping`), so that nothing is left out
  between the last page it mapped and the end of the heap.
* `ProgramsRelocatedOnce` - `Spec => []RelocatedOnce`. The invariant (`Marks`)
  says that the words of a marked file's table are shifted once and those of an
  unmarked one not at all, and that only marked files are in execution.
* `FilesAreFound` - `Spec => []FilesFound`. Where header `i` of an archive is
  (`HeaderAt`) is a recursive function, of which TLA+ only says what it is if one
  exists: `SumExists` shows that, from the shortest archive that would have none.
  The rounding of `round_size` is a whole number of blocks (`RoundedIsBlocks`), so
  headers ascend (`HeadersAscend`) and `load_ustar` is on the header of the file it
  adds next (`OnHeader`); the node found first is then the first file of that name
  (`FoundIsFirst`).

`Shell_proofs`, first for any names, values and bounds and any hash:

* `ChainsAreSound` - the chains are sorted by level and nothing is above the
  current one, proved together: that `scope_out` removes all entries of its
  level needs the order, and that an entry added in front keeps the order needs
  that nothing is above the current level. `RemainingIsSuffix` says what
  `scope_recursively_delete` cuts off.
* `TableIsStack` - `Spec => ImplementsFrames`. `BoundPushed` and
  `BoundRemaining` say what adding and cutting do to what a chain says of a
  name in a level; one lemma per action puts them together for all names.
* `Lookup` - `Spec => []LookupRight`: in a sorted chain the first entry of a
  name is that of the innermost level (`FirstIsInnermost`).

then for any nodes and entries (`Store`: finitely many nodes, none of them at 0)
without wild pointers and cycles (`StoreSound`, which the run `lisp` checks of
what every line leaves to `scope_gc`, as a part of `ScopeSound`):

* `CollectorCorrect` - `DOMAIN nodes = Reachable` after `scope_gc`, which is what
  `CollectorExact` says of the shell's scope, and the nodes that are left are as they
  were and `StoreSound` again. `MarkNode` is a recursive function, of which TLA+
  says only what satisfies its recursion: the least set around a node that no pointer
  leaves does (`BelowUnfolds`), and without cycles nothing else does
  (`MarkNodeIs`), because among the nodes it would differ on there is one that points
  to none of them (`NoCycleGrounded`). With a cycle the code's recursion does not
  end: the hypothesis is the code's. `ClosureIs` says the same of the reference
  definition, where each round leaves fewer nodes to be found.
* `AllocCorrect` - `scope_kmalloc` returns a node nobody has, changes no other,
  and keeps `StoreSound` if the new node points to existing nodes only.
* `PutCorrect` - a node that is filled in later (`method_list`, `recursive_map`,
  `_method_quote`, `_method_range`) makes no cycle if what it is filled with does
  not lead to it. That it never does is the part that is left to the run.

and for any alphabet, buffer and word, and whatever the parser answers:

* `LineCorrect` - `EditorSpec => []LineIsKept`. The invariant (`EditorInv`) holds
  the line (`Held`): the first `buf_i` characters are the line, those up to `longest`
  were taken back, zeros follow. A backspace reads the character it takes back
  before `buf_i` moves; that it is the last of the line makes `balance` right
  (`BracketsAppend`, `FrontIs`), also where it has wrapped (`WrapsOn`). Once `buf_i`
  was before the buffer, or a store behind it, nothing is claimed (`under`, `status`).
* `LineExecuted` - `EditorSpec => ExecutedIsTyped`: with the same invariant the first
  zero is at `longest` (`TextIs`).

`Tasks_proofs`, for any tasks, stacks and number of forks:

* `TypeCorrect`, `RingCorrect` (`Spec => []RingHolds`), `FailureCorrect`
  (`Spec => []FailureExplained`) and `OwnedCorrect` (`Spec => []Owned`), from one
  invariant. `RingHolds` says that no proper part of the members is closed
  under `next`; fork and join keep that because `next` is also injective on the
  members (`NextInjective`). The `Ledgers` say who has what: a structure or a
  stack is allocated exactly if a member or one call on some task's stack of
  calls has it, and nothing is had twice. They keep the structure that fork
  fills off the ring until it is linked in; the ring keeps what join frees on
  the list until it is taken out. From the step that uses a stale pointer on
  (`why`) the code may break both, and the invariant says no more about them.

`Heap_proofs`, for any page and table size, memory, initial heap, requests,
tasks and number of live blocks:

* `TypeCorrect` - `Spec => []TypeOK`, whatever happens to the list and in the
  window of `alloc_page`.
* `ListCorrect`, `OwnersCorrect`, `StopsCorrect` - `QuietSpec => []P` for
  `BlockListSound`, `OwnersSafe` and `StopsExplained`, all from `InvHolds`, and
  `UsedCorrect` for `UsedIsOwned`, on top of it.

None of the first three is inductive; `Inv` adds what they need. `List` is the tiling
with two more facts: every block but the first has a left
neighbour, and a block that says it is last is at the end (the converse is
what the code loses at `heap.c:163`). `FootersName` and `NoTwoHoles` make
`merge_left` and `merge_right` find the neighbours they look for. `Owners` gives
every payload its block and every page table one block in use to lie in,
no two the same (`Holds`). `Pages` says that exactly the pages below the heap's
end are mapped, and the next one between `alloc_page` and the growth. `Straight` says
that an untorn heap has no page table off a page boundary, so that every entry is where
`alloc_page` writes it.
`Alone` says that one task is in the allocator, with the mutex held except in
the window, and `Walks` that its cursors stand on blocks, or behind the end when
the last flag is lost; the page it asked for is then the one behind the heap.
Each operation that changes the list has a lemma about blocks (`SplitShape`,
`MergeShape`, `FreeShape`, `ExtendShape`) and one about memory, that says what
its writes leave on the words of the list (`SplitWrites`, `MergeWrites`,
`FreeWrites`, `ExtendWrites`); what owners and `memset` write lies inside blocks
(`WipeKeeps`).

`UsedCorrect` is `QuietSpec => []UsedIsOwned`. The sum over the owners is a fold,
that is a recursive function over sets: `SumsExist` shows that there is one, from
the smallest size of sets without one, and `AnyOrder` that it does not matter
which owner it takes first, from the smallest set for which it would. What is
left is one lemma for each step that changes the owners: the block
that `heap_malloc` takes was a hole and so belonged to nobody (`HoleIsFree`), and
what `heap_free` subtracts is what was asked for, because `Owners` keeps the size
in the header.

Two conditions limit these theorems, and both are faults of the code. `Quiet` is
a hypothesis because without it `Tiling` is false (run `heap_window`). `torn`
stands in the properties themselves: a free that merges on both sides
(`heap.c:178`), or an aligned split whose second header overlaps the first
(`heap.c:91`), leaves a list about which nothing can be said, and a page table on no
page boundary (`heap.c:59`) leaves pages unmapped and lets `alloc_page` write over
others' words. The theorems hold for sizes with which that happens, up to the step
that enters such a table.

Only model-checked:

* All liveness (`Returns`, `EveryTaskRuns`, `MutexReleased`, `HeapReleased`,
  `PressesArrive`), which is beyond the prover.
* `ParserAgrees` and the properties of the run `lisp`: the parser, the grammar and
  the evaluator are mutually recursive operators. Of the collector the run's part
  is the hypothesis of `CollectorCorrect`, for every scope it is called with.

## 6. Plan

Done: all modules of section 2 with their runs and the proofs of section 5.
What would come next, in this order:

1. Exception handlers that print, as calls on top of a task's own (the form
   that Tasks has): what `io_lock` and the queue's mutex do then.
2. `printf`'s number writers and `read_octal` against reference definitions.

Not modelled, and why: serial port and port I/O (pure device access); the
descriptor and interrupt tables and the boot assembly (written once, a fixed
sequence without state of interest); the commands for keyboard LEDs and scan
code sets, `queue_free` and `scope_del` (no caller); `rand` and `usleep` (one
word each, see section 4); formatting and string functions; the demo programs
and the dictionary.
