-------------------------------- MODULE Boot --------------------------------
(***************************************************************************)
(* From kmain to the running programs: save_modules and check_modules      *)
(* (src/src/main.c), kmalloc_internal before the heap exists, alloc_page   *)
(* and memory_init (memory.c), the files of the ramdisk (tar.c) and        *)
(* elf_load (elf.c).                                                       *)
(*                                                                         *)
(* The loader (external) says that there is a list of modules, and puts    *)
(* them behind the kernel.  Addresses and sizes count in words; a page has *)
(* PAGE words and a page table TABLE entries.  The programs' code, the     *)
(* names of the sections and what is in the pages are left out; the heap   *)
(* behind heap_init is module Heap.                                        *)
(*                                                                         *)
(* taken is a history variable: what memory was given to what.             *)
(***************************************************************************)
EXTENDS Integers, Sequences, FiniteSets

CONSTANTS
    PAGE, TABLE,        \* words of a page, entries of a page table: 1024 each
    HEAP,               \* heap_size: 32 pages
    QDATA,              \* words of io_queue's data
    END,                \* end of the kernel, at a page boundary
    BLOCK,              \* words of a block of the archive: 128
    RAMDISK, SHELL,     \* "build/initrd.tar" and "initrd/lisp.elf"
    NULL,
    Machines,           \* sizes of memory
    ModuleLists,        \* what the loader may load
    Archives,           \* archives that a module may hold
    MaxDepth            \* bound: programs in execution at a time

ASSUME BootAssumption ==
    /\ PAGE \in Nat \ {0} /\ TABLE \in Nat \ {0} /\ BLOCK \in Nat \ {0}
    /\ {END, QDATA, HEAP} \subseteq Nat /\ Machines \subseteq Nat
    /\ END % PAGE = 0 /\ HEAP % PAGE = 0 /\ HEAP > 0
    /\ \A m \in ModuleLists : m # <<>> => m[1].to \in Nat

\* The table of a program lies in its file, behind at least one word.
ASSUME ArchiveAssumption ==
    \A a \in Archives :
        /\ Len(a) \in Nat /\ DOMAIN a = 1 .. Len(a)
        /\ \A k \in DOMAIN a :
             /\ a[k].size \in Nat /\ a[k].got.at \in Int /\ a[k].got.words \in Int
             /\ a[k].magic => /\ a[k].got.at >= 1
                              /\ a[k].got.at + a[k].got.words - 2 < a[k].size

\* Nodes are numbered from 1, and kmalloc never answers NULL.
ASSUME NullAssumption == NULL \notin Nat \ {0}

VARIABLES
    memory_size, mods, archive,     \* what the machine and the loader give
    phase,                          \* where kmain is
    interrupts, idt,                \* the interrupt flag; whether idt_init is done
    alloc_ptr, heap_start,          \* memory.c, heap.c; NULL before heap_init
    directory,                      \* table number -> page table, NULL if none
    mapped, it,                     \* pages mapped, the loop's address
    header, fs_root,                \* load_ustar's pointer, the list of nodes
    ran, shifted,                   \* per file: has_been_run, per word how often relocated
    stack,                          \* the files in execution, the innermost last
    taken, status

inputs  == <<memory_size, mods, archive>>
memory  == <<alloc_ptr, heap_start, directory, mapped, it>>
files   == <<header, fs_root>>
images  == <<ran, shifted, stack>>
vars    == <<inputs, phase, interrupts, idt, memory, files, images, taken, status>>

\* A module is [name, from, to].  A file of the archive is [name, size, magic,
\* segments, entry, got]: whether it is a program, segments of [vaddr, size, offset] and the place of .got.plt,
\* [at, words], in the file.
Area(use, from, to) == [use |-> use, from |-> from, to |-> to]

Files    == DOMAIN archive
Tables   == 0 .. (memory_size \div (PAGE * TABLE)) + 1

Init == /\ memory_size \in Machines /\ mods \in ModuleLists /\ archive \in Archives
        /\ phase = "io_init"
        /\ interrupts = FALSE /\ idt = FALSE
        /\ alloc_ptr = END /\ heap_start = NULL
        /\ directory = [t \in Tables |-> NULL]
        /\ mapped = {} /\ it = 0
        /\ header = NULL /\ fs_root = <<>>
        /\ ran = [k \in Files |-> FALSE]
        /\ shifted = [k \in Files |-> [w \in 0 .. archive[k].size - 1 |-> 0]]
        /\ stack = <<>>
        /\ taken = {Area("kernel", 0, END)}
        /\ status = "ok"

Goto(from, to) == status = "ok" /\ phase = from /\ phase' = to
Stop(reason)   == status' = reason

-----------------------------------------------------------------------------
align4k(a) == IF a % PAGE = 0 THEN a ELSE a - (a % PAGE) + PAGE

\* kmalloc_internal without a heap.  Its lock leaves interrupts on.
Bump(use, size, from) == /\ alloc_ptr' = from + size
                         /\ taken' = taken \union {Area(use, from, from + size)}
                         /\ interrupts' = TRUE

\* io_init, the first of all: queue_init allocates.
IoInit == /\ Goto("io_init", "idt_init")
          /\ Bump("queue", QDATA, alloc_ptr)
          /\ UNCHANGED <<inputs, idt, heap_start, directory, mapped, it, files, images, status>>

\* gdt_init, idt_init and task_init.
IdtInit == /\ Goto("idt_init", "memory_init")
           /\ idt' = TRUE /\ interrupts' = TRUE
           /\ UNCHANGED <<inputs, memory, files, images, taken, status>>

\* An interrupt of the timer.  Nothing is registered for it before timer_init.
Tick == /\ status = "ok" /\ interrupts
        /\ ~idt
        /\ Stop("triple_fault")
        /\ UNCHANGED <<inputs, phase, interrupts, idt, memory, files, images, taken>>

\* save_modules: mod_ptr stays at the first module.
save_modules == IF mods = <<>> THEN 0 ELSE mods[1].to

\* memory_init up to the loop.
MemoryInit == LET start == IF alloc_ptr < save_modules THEN save_modules ELSE alloc_ptr
              IN  /\ Goto("memory_init", "map")
                  /\ Bump("directory", PAGE, align4k(start))
                  /\ UNCHANGED <<inputs, idt, heap_start, directory, mapped, it, files, images,
                                 status>>

\* Mutant: the end of the loop is not moved by the tables it allocates.
LoopEndStale == LET dir == CHOOSE a \in taken : a.use = "directory" IN dir.to + HEAP

\* The loop's condition looks at alloc_ptr each time round.
LoopEnd == alloc_ptr + HEAP

\* alloc_page for it; the answer is not looked at.
TableOf(a) == a \div (PAGE * TABLE)
MapPage ==
    /\ Goto("map", "map")
    /\ it < LoopEnd
    /\ it' = it + PAGE
    /\ IF it > memory_size - PAGE
       THEN UNCHANGED <<alloc_ptr, directory, mapped, taken, interrupts>>
       ELSE /\ mapped' = mapped \union {it}
            /\ IF directory[TableOf(it)] # NULL
               THEN UNCHANGED <<alloc_ptr, directory, taken, interrupts>>
               ELSE /\ Bump("table", PAGE, align4k(alloc_ptr))
                    /\ directory' = [directory EXCEPT ![TableOf(it)] = align4k(alloc_ptr)]
    /\ UNCHANGED <<inputs, idt, heap_start, files, images, status>>

\* Paging is on: heap_init writes both ends of the heap.
HeapInit == /\ Goto("map", "check_modules")
            /\ it >= LoopEnd
            /\ heap_start' = alloc_ptr
            /\ taken' = taken \union {Area("heap", alloc_ptr, alloc_ptr + HEAP)}
            /\ IF {alloc_ptr, alloc_ptr + HEAP - PAGE} \subseteq mapped
               THEN UNCHANGED status ELSE Stop("page_fault")
            /\ UNCHANGED <<inputs, interrupts, idt, alloc_ptr, directory, mapped, it, files,
                           images>>

-----------------------------------------------------------------------------
(* The archive: blocks, the first of each file being its header. *)

Blocks(size) == (size + BLOCK - 1) \div BLOCK
\* Where tar has put the k-th header; behind the last one is a blank block.
HeaderAt == LET at[k \in 1 .. Len(archive) + 1] ==
                  IF k = 1 THEN 0 ELSE at[k - 1] + BLOCK * (1 + Blocks(archive[k - 1].size))
            IN  at

\* Mutant: a size on a block boundary is rounded up as well.
round_size_up(size) == size + BLOCK - (size % BLOCK)

round_size(size) == IF size % BLOCK = 0 THEN size
                    ELSE size + BLOCK - ((size + BLOCK) % BLOCK)

\* check_modules: the first module; the loop looks for the second behind the
\* end of the first, where there is no list of modules.
CheckModules ==
    /\ Goto("check_modules", IF mods # <<>> /\ mods[1].name = RAMDISK THEN "load_ustar"
                             ELSE "next_module")
    /\ header' = 0
    /\ UNCHANGED <<inputs, interrupts, idt, memory, fs_root, images, taken, status>>

NextModule == /\ Goto("next_module", "run_shell")
              /\ IF Len(mods) > 1 THEN Stop("wild_module") ELSE UNCHANGED status
              /\ UNCHANGED <<inputs, interrupts, idt, memory, files, images, taken>>

\* One header of load_ustar: a node behind the others.
LoadHeader == \E k \in 1 .. Len(archive) :
    /\ Goto("load_ustar", "load_ustar")
    /\ header = HeaderAt[k]
    /\ fs_root' = Append(fs_root, [name |-> archive[k].name, size |-> archive[k].size,
                                   data |-> header + BLOCK, file |-> k])
    /\ header' = header + BLOCK + round_size(archive[k].size)
    /\ UNCHANGED <<inputs, interrupts, idt, memory, images, taken, status>>

LoadEnd == /\ Goto("load_ustar", "next_module")
           /\ header = HeaderAt[Len(archive) + 1]
           /\ UNCHANGED <<inputs, interrupts, idt, memory, files, images, taken, status>>

\* The first node with the name.
tar_find_file(name) ==
    LET found == {k \in DOMAIN fs_root : fs_root[k].name = name}
    IN  IF found = {} THEN NULL ELSE CHOOSE k \in found : \A l \in found : k <= l

-----------------------------------------------------------------------------
(* elf_load. *)

\* The segment of the entry point, 0 if there is none.
SegmentOf(f) ==
    LET holds == {i \in DOMAIN f.segments : f.entry >= f.segments[i].vaddr
                      /\ f.entry < f.segments[i].vaddr + f.segments[i].size}
    IN  IF holds = {} THEN 0 ELSE CHOOSE i \in holds : \A j \in holds : i <= j

\* The words remap_global_offset_table adds to: the first is the one before.
GotWords(f) == f.got.at - 1 .. f.got.at + f.got.words - 2

\* The offset added to entry_point, which must not be 0.
EntryMoves(f) == LET i == SegmentOf(f)
                 IN  i # 0 /\ f.segments[i].offset # f.segments[i].vaddr

Relocate(k) == shifted' = [shifted EXCEPT ![k] = [w \in DOMAIN @ |->
                   @[w] + IF w \in GotWords(archive[k]) /\ ~ran[k] THEN 1 ELSE 0]]

\* The asserts, then the call.
Call(k) == IF ~archive[k].magic
           THEN Stop("bad_magic") /\ UNCHANGED <<shifted, stack>>
           ELSE /\ Relocate(k)
                /\ IF EntryMoves(archive[k]) THEN stack' = Append(stack, k) /\ UNCHANGED status
                   ELSE Stop("no_entry") /\ UNCHANGED stack

\* Mutant: the image is not marked before the program runs.
ElfLoadUnmarked(k) == Call(k) /\ UNCHANGED ran

elf_load(k) == /\ Call(k)
               /\ ran' = [ran EXCEPT ![k] = stack' # stack]

\* The end of kmain.  There is no test for NULL: it loads what it finds there.
RunShell == /\ Goto("run_shell", "running")
            /\ LET node == tar_find_file(SHELL)
               IN  IF node = NULL THEN Stop("no_shell") /\ UNCHANGED images
                   ELSE elf_load(fs_root[node].file)
            /\ UNCHANGED <<inputs, interrupts, idt, memory, files, taken>>

\* A program opens a file and runs it (SYSCALL_FOPEN, SYSCALL_EXEC).
Exec == /\ Goto("running", "running")
        /\ stack # <<>> /\ Len(stack) < MaxDepth
        /\ \E n \in DOMAIN fs_root :
             /\ tar_find_file(fs_root[n].name) = n
             /\ elf_load(fs_root[n].file)
        /\ UNCHANGED <<inputs, interrupts, idt, memory, files, taken>>

Return == /\ Goto("running", "running")
          /\ stack # <<>>
          /\ stack' = SubSeq(stack, 1, Len(stack) - 1)
          /\ UNCHANGED <<inputs, interrupts, idt, memory, files, ran, shifted, taken, status>>

Next == \/ IoInit \/ IdtInit \/ Tick \/ MemoryInit \/ MapPage \/ HeapInit
        \/ CheckModules \/ LoadHeader \/ LoadEnd \/ NextModule
        \/ RunShell \/ Exec \/ Return

Spec == Init /\ [][Next]_vars

-----------------------------------------------------------------------------
Apart(a, b) == a.to <= b.from \/ b.to <= a.from

\* memory_init: what was given out is apart, only the queue's data (allocated
\* before the modules are looked at) can be inside the first module, and the
\* whole heap, the directory and the tables are mapped when paging is turned
\* on, although the loop's end moves while it maps; it faults only on a
\* machine without the memory for the heap.
HeapBacked ==
    /\ \A a, b \in taken : a # b => Apart(a, b)
    /\ \A a \in taken : a.use \in {"directory", "table", "heap"} /\ mods # <<>>
                           => Apart(a, mods[1])
    /\ heap_start # NULL /\ status # "page_fault"
         => \A a \in taken : a.use \in {"directory", "table", "heap"}
              => \A p \in a.from .. a.to - 1 : p - (p % PAGE) \in mapped
    /\ status = "page_fault" => heap_start + HEAP > memory_size

Loaded == phase \in {"run_shell", "running"} /\ mods # <<>> /\ mods[1].name = RAMDISK

\* load_ustar steps from header to header and stops at the blank one, whatever
\* the sizes of the files (empty ones, and ones that end with a block,
\* included): when it is through, the first file of each name is found and its
\* node has the data behind that file's header.
FilesFound ==
    /\ phase = "load_ustar" => \E k \in DOMAIN HeaderAt : header = HeaderAt[k]
    /\ Loaded =>
         \A k \in Files : (\A l \in 1 .. k - 1 : archive[l].name # archive[k].name) =>
             LET n == tar_find_file(archive[k].name)
             IN  n # NULL /\ fs_root[n].data = HeaderAt[k] + BLOCK
                          /\ fs_root[n].size = archive[k].size

\* elf_load relocates the table of a program once, however often it is run and
\* also when it runs itself: no word of a file is shifted twice, and the words
\* of a running program's table are shifted.
RelocatedOnce ==
    \A k \in Files :
        /\ \A w \in DOMAIN shifted[k] : shifted[k][w] <= 1
        /\ (\E i \in DOMAIN stack : stack[i] = k)
             => \A w \in GotWords(archive[k]) : shifted[k][w] = 1
=============================================================================
