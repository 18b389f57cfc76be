----------------------------- MODULE HeapMemory -----------------------------
(***************************************************************************)
(* The memory the kernel heap (src/src/heap.c, heap.h) lives in, counted   *)
(* in 4-byte words, and the formulas heap.c computes sizes with.           *)
(*                                                                         *)
(* What a word holds matters only as far as heap.c reads it: hdr[a] is the *)
(* struct HeapHeader at a, or NoHeader if those words hold anything else,  *)
(* and ftr[a] the pointer of a struct HeapFooter at a, or NoFooter.        *)
(* Headers that heap.c abandons when it merges holes stay in memory until  *)
(* something else is written there.                                        *)
(***************************************************************************)
EXTENDS Integers

CONSTANTS
    PAGE,        \* words of a page (1024); a page table is one page long
    TableSpan,   \* pages that one page table maps (1024)
    HeapStart,   \* first word of the heap
    HeapPages,   \* pages of the initial heap (32)
    MemPages,    \* pages of physical memory
    NoHeader,
    NoFooter

HDR == 2         \* sizeof(struct HeapHeader)
FTR == 1         \* sizeof(struct HeapFooter)

\* memory_init leaves alloc_ptr behind a page-aligned, page-sized allocation.
ASSUME HeapAssumption ==
    /\ PAGE \in Nat /\ PAGE > HDR + FTR
    /\ TableSpan \in Nat \ {0} /\ TableSpan <= PAGE
    /\ HeapPages \in Nat \ {0}
    /\ MemPages \in Nat \ {0}
    /\ HeapStart \in Nat /\ HeapStart % PAGE = 0
    /\ HeapStart + HeapPages * PAGE <= MemPages * PAGE

MemSize   == MemPages * PAGE
Addr      == 0 .. MemSize - 1
Page      == 0 .. MemPages - 1
Directory == 0 .. (MemPages - 1) \div TableSpan
PagesOf(d) == {p \in Page : p \div TableSpan = d}
Header    == [size : Nat, hole : BOOLEAN, last : BOOLEAN]

ASSUME NoHeaderAssumption == NoHeader \notin Header /\ NoFooter \notin Nat

PageOf(a)   == a \div PAGE
AlignUp(a)  == ((a + PAGE) \div PAGE) * PAGE    \* (a + 0x1000) & 0xfffff000
AlignDown(a) == (a \div PAGE) * PAGE            \* a & 0xfffff000

-----------------------------------------------------------------------------
(* Sizes. *)

FullSize(n) == n + HDR + FTR

\* next_boundry in heap_malloc: where an aligned payload in block h starts.
Boundary(h) == AlignUp(h + HDR)

\* new_full_size: an aligned request also takes what lies before the boundary.
Need(h, n, align) == FullSize(n) + IF align THEN Boundary(h) - h ELSE 0

\* could_fit_page_table: block h keeps a page-aligned page after toAlloc words.
CouldFitPageTable(header, h, toAlloc) ==
    LET start == h + toAlloc
    IN  header.size >= PAGE + (AlignUp(start) - start) + FTR + toAlloc

\* Mutant: blocks in use are taken.
UsableInUse(header, h, n, align) ==
    LET need == Need(h, n, align)
    IN  /\ align \/ ~header.last \/ CouldFitPageTable(header, h, need)
        /\ header.size = need \/ header.size - need >= HDR + FTR

\* The conditions under which heap_malloc takes block h, in its order.  A hole
\* that is neither exact nor leaves room for a header and a footer is skipped.
Usable(header, h, n, align) ==
    LET need == Need(h, n, align)
    IN  /\ align \/ ~header.last \/ CouldFitPageTable(header, h, need)
        /\ header.hole
        /\ \/ header.size = need
           \/ header.size - need >= HDR + FTR

-----------------------------------------------------------------------------
(* Writes.  hs and fs map addresses to the headers and footers written.  A  *)
(* header or footer that loses one of its words to another one is gone.     *)

HeaderWords(a) == a .. a + HDR - 1

\* One write, none, and both of two: f's where they meet.
Write(a, value) == [x \in {a} |-> value]
NoWrite         == [x \in {} |-> 0]
Also(f, g)      == [x \in DOMAIN f \union DOMAIN g |-> IF x \in DOMAIN f THEN f[x] ELSE g[x]]

PutHeaders(hdr, hs, fs) ==
    [a \in Addr |->
        IF a \in DOMAIN hs THEN hs[a]
        ELSE IF \/ \E b \in DOMAIN hs : HeaderWords(a) \cap HeaderWords(b) # {}
                \/ HeaderWords(a) \cap DOMAIN fs # {}
             THEN NoHeader
             ELSE hdr[a]]

PutFooters(ftr, hs, fs) ==
    [a \in Addr |->
        IF a \in DOMAIN fs THEN fs[a]
        ELSE IF \E b \in DOMAIN hs : a \in HeaderWords(b) THEN NoFooter
             ELSE ftr[a]]

\* Words that other code fills with its own data.
WipeHeaders(hdr, words) ==
    [a \in Addr |-> IF HeaderWords(a) \cap words # {} THEN NoHeader ELSE hdr[a]]
WipeFooters(ftr, words) ==
    [a \in Addr |-> IF a \in words THEN NoFooter ELSE ftr[a]]
=============================================================================
