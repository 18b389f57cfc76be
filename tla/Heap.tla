-------------------------------- MODULE Heap --------------------------------
(***************************************************************************)
(* The kernel allocator: kmalloc and kfree of src/src/memory.c, heap_malloc *)
(* and heap_free of src/src/heap.c, and alloc_page, which heap_malloc calls *)
(* to grow the heap and which may call kmalloc_a again for a page table.   *)
(*                                                                         *)
(* heap_malloc's loop is one step per block it visits, because a walk over *)
(* damaged headers is what the hazards of this code come down to, and      *)
(* because alloc_page releases malloc_mtx in the middle of it.  kfree runs *)
(* under the mutex from start to end and is one step.                      *)
(*                                                                         *)
(* blocks, end and torn are history variables: where the blocks really     *)
(* are, where the heap really ends, and whether a step was taken after     *)
(* which the block list or the page tables cannot be relied on.            *)
(***************************************************************************)
EXTENDS HeapMemory, FiniteSetsExt, Mutex

CONSTANTS
    Tasks,
    Sizes,       \* payload sizes, in words, that tasks ask for
    MaxLive      \* bound: blocks that tasks own at the same time

ASSUME HeapTasksAssumption == /\ Sizes \subseteq Nat \ {0}
                              /\ MaxLive \in Nat

\* A page table on a page boundary maps at least the page it was allocated for,
\* so a directory entry that maps nothing has no such table.
NoTable   == {}
NoPointer == 0

VARIABLES
    hdr, ftr,    \* memory
    used,        \* used_bytes, in words
    malloc_mtx,
    dir,         \* the page directory: per entry the pages the CPU maps with it
    skewed,      \* per entry: its page table, if that is on no page boundary
    pc, req,     \* per task: where it is, and the size it asked for
    h, ih,       \* the cursors of the outer and of the nested heap_malloc
    page,        \* the page alloc_page was asked for
    table,       \* the page table the nested kmalloc_a returned
    live,        \* payloads that tasks own: pointer and size
    tables,      \* pointers of the page tables taken from the heap
    blocks, end, torn,
    status       \* "ok", or why the machine stopped or lost its heap

memory == <<hdr, ftr, used>>
paging == <<dir, skewed>>
frame  == <<req, h, ih, page, table>>
ghost  == <<blocks, end, torn>>
vars   == <<memory, malloc_mtx, paging, pc, frame, live, tables, ghost, status>>

InitialEnd == HeapStart + HeapPages * PAGE

\* heap_init, after memory_init has mapped every page below the heap's end.
Init ==
    LET hole == [size |-> HeapPages * PAGE, hole |-> TRUE, last |-> TRUE]
    IN  /\ hdr = [a \in Addr |-> IF a = HeapStart THEN hole ELSE NoHeader]
        /\ ftr = [a \in Addr |->
                     IF a = InitialEnd - FTR - HDR THEN HeapStart ELSE NoFooter]
        /\ used = 0
        /\ malloc_mtx = Free
        /\ dir = [d \in Directory |-> {p \in PagesOf(d) : p * PAGE < InitialEnd}]
        /\ skewed = [d \in Directory |-> NoPointer]
        /\ pc = [t \in Tasks |-> "idle"]
        /\ req = [t \in Tasks |-> 0]
        /\ h = [t \in Tasks |-> HeapStart]
        /\ ih = [t \in Tasks |-> HeapStart]
        /\ page = [t \in Tasks |-> 0]
        /\ table = [t \in Tasks |-> 0]
        /\ live = {}
        /\ tables = {}
        /\ blocks = {HeapStart}
        /\ end = InitialEnd
        /\ torn = FALSE
        /\ status = "ok"

\* A halted machine takes no step.
At(t, l)          == status = "ok" /\ pc[t] = l
Goto(t, from, to) == At(t, from) /\ pc' = [pc EXCEPT ![t] = to]

-----------------------------------------------------------------------------
(* Memory accesses. *)

Mapped == UNION {dir[d] : d \in Directory}
AllMapped(words) == \A a \in words : PageOf(a) \in Mapped

\* A header the code can read; anything else stops the machine.
Sound(a) == AllMapped(HeaderWords(a)) /\ hdr[a] # NoHeader

\* page_fault prints and halts; behind a header overwritten with other data
\* anything may happen, and the model stops.
Stop(why) == /\ status' = why
             /\ UNCHANGED <<memory, malloc_mtx, paging, pc, frame, live, tables, ghost>>
StopAt(words) == Stop(IF AllMapped(words) THEN "corrupt" ELSE "fault")

-----------------------------------------------------------------------------
(* heap_malloc.  A task in "scan" runs its own request, one in "table_scan" *)
(* the page-aligned request of one page that alloc_page makes for it.      *)

Scanning(t) == At(t, "scan") \/ At(t, "table_scan")
Aligned(t)  == pc[t] = "table_scan"
Cursor(t)   == IF Aligned(t) THEN ih[t] ELSE h[t]
Wanted(t)   == IF Aligned(t) THEN PAGE ELSE req[t]
Fits(t)     == Usable(hdr[Cursor(t)], Cursor(t), Wanted(t), Aligned(t))

\* kmalloc: take the mutex and start at the first block.
Malloc(t, n) == /\ Cardinality(live) < MaxLive
                /\ Goto(t, "idle", "scan")
                /\ Lock(malloc_mtx)
                /\ req' = [req EXCEPT ![t] = n]
                /\ h' = [h EXCEPT ![t] = HeapStart]
                /\ UNCHANGED <<memory, paging, ih, page, table, live, tables, ghost,
                               status>>

\* On to the next block: not the last, and not one to take.
SkipBlock(t) ==
    /\ Scanning(t)
    /\ Sound(Cursor(t))
    /\ ~Fits(t)
    /\ ~hdr[Cursor(t)].last
    /\ LET next == Cursor(t) + hdr[Cursor(t)].size
       IN  IF Aligned(t) THEN ih' = [ih EXCEPT ![t] = next] /\ UNCHANGED h
                         ELSE h' = [h EXCEPT ![t] = next] /\ UNCHANGED ih
    /\ UNCHANGED <<memory, malloc_mtx, paging, pc, req, page, table, live, tables,
                   ghost, status>>

\* heap_malloc returns ptr and kmalloc_internal unlocks.  The nested call
\* hands a page table to alloc_page, the outer one a block to its caller.
Return(t, ptr) ==
    /\ Unlock(malloc_mtx)
    /\ used' = used + Wanted(t)
    /\ IF Aligned(t)
       THEN /\ Goto(t, "table_scan", "relock")
            /\ table' = [table EXCEPT ![t] = ptr]
            /\ tables' = tables \union {ptr}
            /\ UNCHANGED live
       ELSE /\ Goto(t, "scan", "idle")
            /\ live' = live \union {[ptr |-> ptr, size |-> req[t]]}
            /\ UNCHANGED <<table, tables>>
    /\ UNCHANGED <<paging, req, h, ih, page, end, status>>

\* The hole has the exact size: no header or footer moves, and the payload
\* starts right behind the header, for an aligned request as well.
TakeWhole(t) ==
    LET b == Cursor(t)
    IN  /\ Scanning(t)
        /\ Sound(b)
        /\ Fits(t)
        /\ hdr[b].size = Need(b, Wanted(t), Aligned(t))
        /\ hdr' = [hdr EXCEPT ![b].hole = FALSE]
        /\ Return(t, b + HDR)
        /\ UNCHANGED <<ftr, blocks, torn>>

\* The rest of the hole becomes a hole of its own, which is last if the hole
\* was.  An aligned request gets a second header right before the boundary.
SplitHole(t) ==
    LET b     == Cursor(t)
        need  == Need(b, Wanted(t), Aligned(t))
        next  == b + need
        stop  == b + hdr[b].size - FTR
        inner == Boundary(b) - HDR
        hs    == Also(Write(b, [size |-> need, hole |-> FALSE, last |-> FALSE]),
                      Write(next, [hdr[b] EXCEPT !.size = @ - need]))
        fs    == Also(Write(stop, next), Write(next - FTR, b))
        is    == Write(inner, [size |-> FullSize(PAGE), hole |-> FALSE, last |-> FALSE])
        split == PutHeaders(hdr, hs, fs)
    IN  /\ Scanning(t)
        /\ Sound(b)
        /\ Fits(t)
        /\ hdr[b].size # need
        /\ IF AllMapped(HeaderWords(next) \union DOMAIN fs)
           THEN /\ hdr' = IF Aligned(t) THEN PutHeaders(split, is, NoWrite) ELSE split
                /\ ftr' = LET put == PutFooters(ftr, hs, fs)
                          IN  IF Aligned(t) THEN PutFooters(put, is, NoWrite) ELSE put
                /\ Return(t, IF Aligned(t) THEN inner + HDR ELSE b + HDR)
                /\ blocks' = blocks \union {next}
                /\ torn' = (torn \/ (Aligned(t) /\ inner < b + HDR))
           ELSE Stop("fault")

\* The walk left the heap or met a header that is none.
WalkFails(t) == /\ Scanning(t) \/ At(t, "extend")
                /\ ~Sound(Cursor(t))
                /\ StopAt(HeaderWords(Cursor(t)))

\* No block fits.  An aligned request is given up, and alloc_page asserts
\* that it got its page table; any other request makes the heap grow.
ScanEnds(t) ==
    /\ Scanning(t)
    /\ Sound(Cursor(t))
    /\ ~Fits(t)
    /\ hdr[Cursor(t)].last
    /\ IF Aligned(t)
       THEN Stop("no_table")
       ELSE /\ Goto(t, "scan", "grow")
            /\ page' = [page EXCEPT ![t] =
                           PageOf(Cursor(t) + hdr[Cursor(t)].size)]
            /\ UNCHANGED <<memory, malloc_mtx, paging, req, h, ih, table, live,
                           tables, ghost, status>>

-----------------------------------------------------------------------------
(* alloc_page(current_directory, addr), called by heap_malloc. *)

DirOf(t) == page[t] \div TableSpan
HasTable(d) == dir[d] # NoTable \/ skewed[d] # NoPointer

\* Where the CPU, and alloc_page when it finds the table in the directory, have the
\* entry of page p: both drop the low bits of the table's address.
Entry(ptr, p) == AlignDown(ptr) + (p % TableSpan)

\* The pages that have their entry below an unaligned table, in words of others.
Exposed(d, ptr) == {p \in PagesOf(d) : Entry(ptr, p) < ptr}

\* The page is behind the end of memory: heap_malloc's assert fires.
PageRefused(t) == /\ At(t, "grow")
                  /\ page[t] \notin Page
                  /\ Stop("out_of_memory")

\* The entry of the page is written, below an unaligned table into words of others.
MapPage(t) ==
    LET d     == DirOf(t)
        words == IF skewed[d] = NoPointer THEN {} ELSE {Entry(skewed[d], page[t])}
    IN  /\ page[t] \in Page
        /\ HasTable(d)
        /\ At(t, "grow")
        /\ IF AllMapped(words)
           THEN /\ Goto(t, "grow", "extend")
                /\ dir' = [dir EXCEPT ![d] = @ \union {page[t]}]
                /\ hdr' = WipeHeaders(hdr, words)
                /\ ftr' = WipeFooters(ftr, words)
                /\ UNCHANGED <<used, malloc_mtx, skewed, frame, live, tables, ghost,
                               status>>
           ELSE Stop("fault")

\* The directory has no table for the page: unlock, and call kmalloc_a.
NeedTable(t) == /\ page[t] \in Page
                /\ ~HasTable(DirOf(t))
                /\ Goto(t, "grow", "table_lock")
                /\ Unlock(malloc_mtx)
                /\ UNCHANGED <<memory, paging, frame, live, tables, ghost, status>>

TableLock(t) == /\ Goto(t, "table_lock", "table_scan")
                /\ Lock(malloc_mtx)
                /\ ih' = [ih EXCEPT ![t] = HeapStart]
                /\ UNCHANGED <<memory, paging, req, h, page, table, live, tables, ghost,
                               status>>

\* Lock again, clear the new table, enter it in the directory and the page in
\* it.  The directory is not read again.  If the table is on no page boundary
\* (TakeWhole) the CPU has its entries lower: the one just written is taken for
\* that of another page, and what lies below the table for entries as well.
InstallTable(t) ==
    LET d     == DirOf(t)
        words == table[t] .. table[t] + PAGE - 1
        whole == table[t] % PAGE = 0
        wrong == {p \in PagesOf(d) : Entry(table[t], p) = table[t] + (page[t] % TableSpan)}
    IN  /\ At(t, "relock")
        /\ IF AllMapped(words)
           THEN /\ Goto(t, "relock", "extend")
                /\ Lock(malloc_mtx)
                /\ hdr' = WipeHeaders(hdr, words)
                /\ ftr' = WipeFooters(ftr, words)
                /\ IF whole
                   THEN dir' = [dir EXCEPT ![d] = {page[t]}]
                   ELSE \E seen \in SUBSET Exposed(d, table[t]) :
                            dir' = [dir EXCEPT ![d] = wrong \union seen]
                /\ skewed' = [skewed EXCEPT ![d] = IF whole THEN NoPointer ELSE table[t]]
                /\ torn' = (torn \/ ~whole)
                /\ UNCHANGED <<used, frame, live, tables, blocks, end, status>>
           ELSE malloc_mtx = Free /\ Stop("fault")

\* The words below an unaligned table change with what others write there, and
\* pages come and go.
Remap(d) == /\ status = "ok"
            /\ skewed[d] # NoPointer
            /\ \E seen \in SUBSET Exposed(d, skewed[d]) :
                   dir' = [dir EXCEPT ![d] = (@ \ Exposed(d, skewed[d])) \union seen]
            /\ UNCHANGED <<memory, malloc_mtx, skewed, pc, frame, live, tables, ghost,
                           status>>

\* Mutant: the loop looks at the same block again and again.
FindLastStays(t) == /\ At(t, "extend")
                    /\ Sound(h[t])
                    /\ ~hdr[h[t]].last
                    /\ UNCHANGED vars

\* while (!h->is_last): the page table may have been cut from the last hole.
FindLast(t) == /\ At(t, "extend")
               /\ Sound(h[t])
               /\ ~hdr[h[t]].last
               /\ h' = [h EXCEPT ![t] = @ + hdr[@].size]
               /\ UNCHANGED <<memory, malloc_mtx, paging, pc, req, ih, page, table, live,
                              tables, ghost, status>>

\* The last block gets one page longer, and heap_malloc calls itself.
Extend(t) ==
    LET stop   == h[t] + hdr[h[t]].size - FTR
        longer == [hdr[h[t]] EXCEPT !.size = @ + PAGE]
    IN  /\ At(t, "extend")
        /\ Sound(h[t])
        /\ hdr[h[t]].last
        /\ IF AllMapped({stop})
           THEN /\ Goto(t, "extend", "scan")
                /\ hdr' = PutHeaders(hdr, Write(h[t], longer), Write(stop, h[t]))
                /\ ftr' = PutFooters(ftr, Write(h[t], longer), Write(stop, h[t]))
                /\ end' = end + PAGE
                /\ h' = [h EXCEPT ![t] = HeapStart]
                /\ UNCHANGED <<used, malloc_mtx, paging, req, ih, page, table, live,
                               tables, blocks, torn, status>>
           ELSE Stop("fault")

-----------------------------------------------------------------------------
(* heap_free, under kfree's lock and unlock. *)

\* merge_left looks at the footer before block b for the header to the left.
Left(b) == ftr[b - FTR]
LeftSound(b)  == b = HeapStart \/ (ftr[b - FTR] # NoFooter /\ Sound(ftr[b - FTR]))
MergesLeft(b) == b # HeapStart /\ hdr[Left(b)].hole

\* merge_right looks behind block b, unless it is the last one.
Right(b) == b + hdr[b].size
RightSound(b)  == hdr[b].last \/ Sound(Right(b))
MergesRight(b) == ~hdr[b].last /\ hdr[Right(b)].hole

\* Mutants: the left hole does not grow; the footer of the freed block keeps
\* its old pointer.
FreedHeadersShort(b) ==
    LET own == Write(b, [hdr[b] EXCEPT !.hole = TRUE,
                                       !.size = @ + IF MergesRight(b)
                                                    THEN hdr[Right(b)].size ELSE 0])
    IN  IF MergesLeft(b) THEN Also(Write(Left(b), hdr[Left(b)]), own) ELSE own
FreedFootersNoLeft(b) ==
    IF MergesRight(b) THEN Write(Right(b) + hdr[Right(b)].size - FTR, b) ELSE NoWrite

\* merge_left makes the left hole longer; merge_right then runs on the header
\* that was just absorbed, and makes that one longer.
FreedHeaders(b) ==
    LET own  == Write(b, [hdr[b] EXCEPT !.hole = TRUE,
                                        !.size = @ + IF MergesRight(b)
                                                     THEN hdr[Right(b)].size ELSE 0])
        left == Write(Left(b), [hdr[Left(b)] EXCEPT !.size = @ + hdr[b].size,
                                                    !.last = hdr[b].last])
    IN  IF MergesLeft(b) THEN Also(left, own) ELSE own

FreedFooters(b) ==
    LET own   == Write(Right(b) - FTR, Left(b))
        right == Write(Right(b) + hdr[Right(b)].size - FTR, b)
    IN  Also(IF MergesRight(b) THEN right ELSE NoWrite,
             IF MergesLeft(b) THEN own ELSE NoWrite)

Detached(b) == IF MergesLeft(b) THEN {b}
               ELSE IF MergesRight(b) THEN {Right(b)} ELSE {}

\* Mutant: header and footer count as used bytes of their owner.
KFreeWhole(t, x) ==
    LET b == x.ptr - HDR
    IN  /\ At(t, "idle")
        /\ malloc_mtx = Free
        /\ IF ~Sound(b) THEN Stop("corrupt")
           ELSE IF ~LeftSound(b) THEN Stop("corrupt")
           ELSE IF ~RightSound(b) THEN StopAt(HeaderWords(Right(b)))
           ELSE IF ~AllMapped(DOMAIN FreedFooters(b)) THEN Stop("fault")
           ELSE /\ used' = used - hdr[b].size
                /\ hdr' = PutHeaders(hdr, FreedHeaders(b), FreedFooters(b))
                /\ ftr' = PutFooters(ftr, FreedHeaders(b), FreedFooters(b))
                /\ live' = live \ {x}
                /\ blocks' = blocks \ Detached(b)
                /\ torn' = (torn \/ (MergesLeft(b) /\ MergesRight(b)))
                /\ UNCHANGED <<malloc_mtx, paging, pc, frame, tables, end, status>>

KFree(t, x) ==
    LET b == x.ptr - HDR
    IN  /\ At(t, "idle")
        /\ malloc_mtx = Free
        /\ IF ~Sound(b) THEN Stop("corrupt")
           ELSE IF ~LeftSound(b) THEN Stop("corrupt")
           ELSE IF ~RightSound(b) THEN StopAt(HeaderWords(Right(b)))
           ELSE IF ~AllMapped(DOMAIN FreedFooters(b)) THEN Stop("fault")
           ELSE /\ used' = used - (hdr[b].size - HDR - FTR)
                /\ hdr' = PutHeaders(hdr, FreedHeaders(b), FreedFooters(b))
                /\ ftr' = PutFooters(ftr, FreedHeaders(b), FreedFooters(b))
                /\ live' = live \ {x}
                /\ blocks' = blocks \ Detached(b)
                /\ torn' = (torn \/ (MergesLeft(b) /\ MergesRight(b)))
                /\ UNCHANGED <<malloc_mtx, paging, pc, frame, tables, end, status>>

-----------------------------------------------------------------------------
Payload(x) == x.ptr .. x.ptr + x.size - 1

\* The owner of a block fills it with data of its own.
UseBlock(x) ==
    /\ status = "ok"
    /\ IF AllMapped(Payload(x))
       THEN /\ hdr' = WipeHeaders(hdr, Payload(x))
            /\ ftr' = WipeFooters(ftr, Payload(x))
            /\ <<hdr, ftr>>' # <<hdr, ftr>>
            /\ UNCHANGED <<used, malloc_mtx, paging, pc, frame, live, tables, ghost,
                           status>>
       ELSE Stop("fault")

Continue(t) == \/ SkipBlock(t) \/ TakeWhole(t) \/ SplitHole(t) \/ WalkFails(t)
               \/ ScanEnds(t)
               \/ PageRefused(t) \/ MapPage(t) \/ NeedTable(t) \/ TableLock(t)
               \/ InstallTable(t) \/ FindLast(t) \/ Extend(t)

Client(t) == \/ \E n \in Sizes : Malloc(t, n)
             \/ \E x \in live : KFree(t, x)

Next == \/ \E t \in Tasks : Client(t) \/ Continue(t)
        \/ \E x \in live : UseBlock(x)
        \/ \E d \in Directory : Remap(d)

Spec == Init /\ [][Next]_vars

Fairness == \A t \in Tasks : WF_vars(Continue(t))
FairSpec == Spec /\ Fairness

\* Nobody calls kmalloc or kfree while alloc_page has released the mutex: the
\* allocator as it would be with one critical section from start to end.
Quiet     == \A t \in Tasks : pc[t] \notin {"table_lock", "relock"}
QuietNext == \/ \E t \in Tasks : (Quiet /\ Client(t)) \/ Continue(t)
             \/ \E x \in live : UseBlock(x)
             \/ \E d \in Directory : Remap(d)

QuietSpec == Init /\ [][QuietNext]_vars /\ Fairness
-----------------------------------------------------------------------------
StopOf(b) == b + hdr[b].size
LastKnown == \E b \in blocks : hdr[b].last /\ StopOf(b) = end

\* Every variable has its type.  The walk goes up from heap_start.
HeapWord == {a \in Nat : a >= HeapStart}
TypeOK == /\ hdr \in [Addr -> Header \union {NoHeader}]
          /\ ftr \in [Addr -> Addr \union {NoFooter}]
          /\ used \in Int
          /\ malloc_mtx \in {Free, Held}
          /\ dir \in [Directory -> SUBSET Page]
          /\ skewed \in [Directory -> Nat]
          /\ pc \in [Tasks -> {"idle", "scan", "grow", "table_lock", "table_scan",
                               "relock", "extend"}]
          /\ req \in [Tasks -> Sizes \union {0}]
          /\ \A t \in Tasks :
                 /\ pc[t] # "idle" => req[t] \in Sizes
                 /\ pc[t] \in {"table_lock", "table_scan", "relock"} => page[t] \in Page
          /\ h \in [Tasks -> HeapWord] /\ ih \in [Tasks -> HeapWord]
          /\ page \in [Tasks -> Nat] /\ table \in [Tasks -> Nat]
          /\ live \subseteq [ptr : {a \in Nat : a - HDR \in HeapWord}, size : Sizes]
          /\ tables \subseteq Nat
          /\ blocks \subseteq Addr
          /\ end \in Nat
          /\ torn \in BOOLEAN
          /\ status \in {"ok", "fault", "corrupt", "no_table", "out_of_memory"}

\* The walk of heap_malloc can be trusted: from heap_start, adding sizes, one
\* gets from block to block up to the end of the heap, and no two overlap.
Tiling ==
    ~torn => /\ HeapStart \in blocks
             /\ \A b \in blocks : /\ hdr[b] # NoHeader
                                  /\ StopOf(b) \in blocks \union {end}
             /\ \A b, c \in blocks : b < c => StopOf(b) <= c

\* "A footer that points to the header" (heap.h:17): the footer before every
\* block names the block on its left, which is what merge_left relies on.
FootersRight ==
    ~torn => \A b \in blocks : StopOf(b) # end => ftr[StopOf(b) - FTR] = b

\* What kmalloc handed out stays allocated, at its full size, until kfree: no
\* merge and no split ever touches the header of a block somebody owns.
OwnedBlocksKept ==
    ~torn => \A x \in live : LET b == x.ptr - HDR
                             IN  /\ b \in blocks
                                 /\ ~hdr[b].hole
                                 /\ hdr[b].size = FullSize(x.size)

\* Memory is handed out once: payloads of tasks and page tables are disjoint
\* and hold no header or footer of the block list.
TableWords(p) == p .. p + PAGE - 1
BlockWords(b) == HeaderWords(b) \union {StopOf(b) - FTR}
PayloadsApart ==
    ~torn => /\ \A x, y \in live : x # y => Payload(x) \cap Payload(y) = {}
             /\ \A p, q \in tables : p # q => TableWords(p) \cap TableWords(q) = {}
             /\ \A x \in live, p \in tables : Payload(x) \cap TableWords(p) = {}
             /\ \A b \in blocks : /\ \A x \in live : BlockWords(b) \cap Payload(x) = {}
                                  /\ \A p \in tables : BlockWords(b) \cap TableWords(p) = {}

\* "Merge with adjacent holes" (heap.c:176): no hole is left next to another.
HolesMerged ==
    ~torn => \A b \in blocks :
                 hdr[b].hole /\ StopOf(b) # end => ~hdr[StopOf(b)].hole

\* used_bytes is what the owners of the heap's payloads asked for, growth,
\* splits and merges notwithstanding.
UsedIsOwned ==
    ~torn => used = MapThenSumSet(LAMBDA x : x.size, live)
                    + PAGE * Cardinality(tables)

\* Every word of the heap is backed by a mapped page, so that growing by 4096
\* bytes and mapping one page stay in step.
HeapMapped == ~torn => AllMapped(HeapStart .. end - 1)

\* A heap that was not torn never stops the machine by reading something that
\* is no header, and page-faults only once its last flag is lost.
StopsExplained == /\ status = "corrupt" => torn
                  /\ status = "fault" => torn \/ ~LastKnown

\* kmalloc comes to an end, by returning or by halting the machine: neither
\* the walk, nor heap_malloc calling itself after each page, goes on forever.
Returns == \A t \in Tasks : pc[t] # "idle" ~> pc[t] = "idle" \/ status # "ok"

\* The block list, from whatever side the code looks at it, and the memory
\* behind it.
BlockListSound == TypeOK /\ Tiling /\ FootersRight /\ HolesMerged /\ HeapMapped

\* What the owners of the blocks rely on.
OwnersSafe == OwnedBlocksKept /\ PayloadsApart
=============================================================================
