---------------------------- MODULE Heap_proofs ----------------------------
(***************************************************************************)
(* Proofs about Heap: types whatever happens to the list, and, as long as  *)
(* nobody enters the allocator while alloc_page has released malloc_mtx    *)
(* (QuietSpec), that the block list is sound, that owners keep their       *)
(* memory, that used_bytes is what they asked for, and why the machine     *)
(* ever stops.  Without Quiet the list is not sound.                       *)
(*                                                                         *)
(* Inv is inductive.  Its parts are the list (blocks tile the heap), the   *)
(* footers and the merged holes; the homes of payloads and page tables;    *)
(* what is mapped; that one task at a time is in the allocator; and where  *)
(* that task's cursors stand.  Each operation has one lemma per part of    *)
(* the shape it changes (SplitShape, MergeShape, FreeShape, ExtendShape),  *)
(* one about the words it writes, and one for the whole step.  A step that *)
(* tears the list (history variable torn) ends what Inv says of it.        *)
(*                                                                         *)
(* The last sections prove that the fold over the owners in UsedIsOwned is *)
(* a sum, and what each step adds to it or takes from it (Counted).        *)
(***************************************************************************)
EXTENDS Heap, FiniteSetTheorems, WellFoundedInduction, TLAPS

USE DEF HDR, FTR, paging

\* The blocks tile the heap, and only the last one may say that it is last.
List == /\ HeapStart \in blocks
        /\ \A b \in blocks : /\ b \in Addr /\ HeapStart <= b /\ b < end
                             /\ hdr[b] \in Header /\ hdr[b].size >= HDR + FTR
                             /\ StopOf(b) \in blocks \union {end}
        /\ \A b, c \in blocks : b < c => StopOf(b) <= c
        /\ \A c \in blocks \ {HeapStart} : \E b \in blocks : StopOf(b) = c
        /\ \A b \in blocks : hdr[b].last => StopOf(b) = end

FootersName == \A b \in blocks : StopOf(b) # end => ftr[StopOf(b) - FTR] = b
NoTwoHoles  == \A b \in blocks : hdr[b].hole /\ StopOf(b) # end => ~hdr[StopOf(b)].hole

\* The heap ends with a page.  What is mapped is what lies below, and the page
\* behind it while alloc_page has mapped it and the heap has not grown yet.
Pages == /\ end \in Nat /\ end = PageOf(end) * PAGE /\ end <= MemSize
         /\ Mapped = {p \in Page : \/ p < PageOf(end)
                                   \/ p = PageOf(end) /\ \E t \in Tasks : pc[t] = "extend"}

\* One task at a time is in kmalloc.
Alone == /\ \A t, u \in Tasks : pc[t] # "idle" /\ pc[u] # "idle" => t = u
         /\ malloc_mtx = Free => \A t \in Tasks : pc[t] \in {"idle", "table_lock", "relock"}

Tabling == {"table_lock", "table_scan", "relock"}
Growing == {"grow", "extend"} \union Tabling

\* The cursors stand on blocks, except when the walk has missed the last one.
Walk(t) ==
    /\ pc[t] = "scan" => h[t] \in blocks \/ (h[t] = end /\ ~LastKnown)
    /\ pc[t] \in Growing => h[t] \in blocks /\ LastKnown /\ page[t] = PageOf(end)
    /\ pc[t] = "extend" => page[t] \in Page
    /\ pc[t] \in Tabling => dir[DirOf(t)] = NoTable
    /\ pc[t] = "table_scan" => ih[t] \in blocks
    /\ pc[t] = "relock" => table[t] \in tables
Walks == \A t \in Tasks : Walk(t)

\* The page table p lies in block b, between its header and its footer.
Holds(b, p) == b + HDR <= p /\ p + PAGE + FTR <= StopOf(b)

BlockOf(x) == x.ptr - HDR
Owners == /\ \A x \in live : /\ BlockOf(x) \in blocks
                             /\ ~hdr[BlockOf(x)].hole /\ ~hdr[BlockOf(x)].last
                             /\ hdr[BlockOf(x)].size = FullSize(x.size)
          /\ \A p \in tables : \E b \in blocks : ~hdr[b].hole /\ Holds(b, p)
          /\ \A p \in tables, x \in live : ~Holds(BlockOf(x), p)
          /\ \A p, q \in tables, b \in blocks : Holds(b, p) /\ Holds(b, q) => p = q

Shape  == List /\ FootersName /\ NoTwoHoles
Intact == Shape /\ Owners /\ Pages /\ Alone /\ Walks

\* Every page table is on a page boundary.
Straight == \A d \in Directory : skewed[d] = NoPointer

Inv == TypeOK /\ StopsExplained /\ (~torn => Intact /\ Straight)

-----------------------------------------------------------------------------
(* Numbers. *)

\* What div is: the quotient whose product is at most n - 1 below.
LEMMA Division ==
    ASSUME NEW a \in Int, NEW n \in Nat \ {0}
    PROVE  /\ a \div n \in Int
           /\ n * (a \div n) <= a /\ a < n * (a \div n) + n
  OBVIOUS

\* Dividing a multiple gives the factor back.
LEMMA Multiple ==
    ASSUME NEW k \in Int, NEW n \in Nat \ {0}
    PROVE  (k * n) \div n = k
  <1> DEFINE q == (k * n) \div n
  <1>1. q \in Int /\ n * q <= k * n /\ k * n < n * (q + 1)
    BY Division
  <1> HIDE DEF q
  <1>2. q <= k /\ k < q + 1
    BY <1>1
  <1> QED
    BY <1>1, <1>2 DEF q

\* Products with the same positive factor compare as the other factors do.
LEMMA Below ==
    ASSUME NEW q \in Int, NEW m \in Int, NEW n \in Nat \ {0}
    PROVE  q * n < m * n <=> q < m
  OBVIOUS

\* What the assumptions say of each constant.
LEMMA Constant == /\ PAGE \in Nat /\ PAGE > 3 /\ PAGE \in Nat \ {0}
                  /\ MemSize \in Nat /\ MemSize = MemPages * PAGE
                  /\ MemPages \in Nat \ {0} /\ HeapStart \in Nat /\ TableSpan \in Nat \ {0}
                  /\ HeapPages \in Nat \ {0}
  BY HeapAssumption DEF MemSize

\* A page holds a header and a footer and more (4096 bytes).
LEMMA PageSize == PAGE \in Nat /\ PAGE > 3 /\ FullSize(PAGE) = PAGE + 3
  BY HeapAssumption DEF FullSize

\* Every address lies in its page.
LEMMA PageIs ==
    ASSUME NEW a \in Int
    PROVE  /\ PageOf(a) \in Int
           /\ PageOf(a) * PAGE <= a /\ a < PageOf(a) * PAGE + PAGE
  BY Division, Constant DEF PageOf

\* The page of an address is below a page exactly if the address is.
LEMMA PageBelow ==
    ASSUME NEW a \in Int, NEW k \in Int
    PROVE  /\ PageOf(a) < k <=> a < k * PAGE
           /\ PageOf(k * PAGE) = k
  <1>1. a < k * PAGE => PageOf(a) < k
    <2>1. a < k * PAGE => PageOf(a) * PAGE < k * PAGE
      BY PageIs, Constant
    <2> QED
      BY <2>1, PageIs, Constant, Below
  <1>2. PageOf(a) < k => a < k * PAGE
    <2>1. PageOf(a) + 1 <= k => (PageOf(a) + 1) * PAGE <= k * PAGE
      BY PageIs, Constant
    <2> QED
      BY <2>1, PageIs, Constant
  <1>3. PageOf(k * PAGE) = k
    BY Multiple, Constant DEF PageOf
  <1> QED
    BY <1>1, <1>2, <1>3

\* The addresses of memory are those of its pages.
LEMMA AddrPage ==
    ASSUME NEW a \in Int
    PROVE  a \in Addr <=> PageOf(a) \in Page
  <1>1. PageOf(a) < MemPages <=> a < MemSize
    BY PageBelow, Constant
  <1>2. PageOf(a) < 0 <=> a < 0
    BY PageBelow, Constant
  <1> QED
    BY <1>1, <1>2, PageIs, Constant DEF Addr, Page

\* Pages are counted from 0.
LEMMA NatPage ==
    ASSUME NEW a \in Nat
    PROVE  PageOf(a) \in Nat
  <1>1. PageOf(a) < 0 => a < 0
    BY PageBelow, Constant
  <1> QED
    BY <1>1, PageIs

\* The next page boundary is above, by at most a page.
LEMMA Above ==
    ASSUME NEW a \in Int
    PROVE  AlignUp(a) \in Int /\ a < AlignUp(a) /\ AlignUp(a) <= a + PAGE
  BY Division, Constant DEF AlignUp

\* Every page has its entry in the directory.
LEMMA InDirectory ==
    ASSUME NEW p \in Page
    PROVE  p \div TableSpan \in Directory
  BY Division, Constant DEF Page, Directory

-----------------------------------------------------------------------------
(* Types, which hold whatever happens to the list. *)

\* Only pages of memory are ever mapped.
LEMMA MappedPages ==
    ASSUME dir \in [Directory -> SUBSET Page]
    PROVE  Mapped \subseteq Page
  BY DEF Mapped

\* What can be accessed is memory.
LEMMA MappedAddr ==
    ASSUME dir \in [Directory -> SUBSET Page], NEW a \in Int, PageOf(a) \in Mapped
    PROVE  a \in Addr
  BY MappedPages, AddrPage

\* A header that heap.c can read is one, at an address of memory.
LEMMA SoundIs ==
    ASSUME TypeOK, NEW b \in Int, Sound(b)
    PROVE  b \in Addr /\ hdr[b] \in Header
  <1>1. b \in HeaderWords(b)
    BY DEF HeaderWords
  <1>2. b \in Addr
    BY <1>1, MappedAddr DEF Sound, AllMapped, TypeOK
  <1> QED
    BY <1>2 DEF Sound, TypeOK

\* Writing headers and footers leaves headers and footers.
LEMMA PutTypes ==
    ASSUME NEW hd \in [Addr -> Header \union {NoHeader}],
           NEW ft \in [Addr -> Addr \union {NoFooter}],
           NEW hs, NEW fs, \A a \in DOMAIN hs : hs[a] \in Header,
           \A a \in DOMAIN fs : fs[a] \in Addr
    PROVE  /\ PutHeaders(hd, hs, fs) \in [Addr -> Header \union {NoHeader}]
           /\ PutFooters(ft, hs, fs) \in [Addr -> Addr \union {NoFooter}]
  BY DEF PutHeaders, PutFooters

\* So does filling words with other data.
LEMMA WipeTypes ==
    ASSUME hdr \in [Addr -> Header \union {NoHeader}], ftr \in [Addr -> Addr \union {NoFooter}],
           NEW words
    PROVE  /\ WipeHeaders(hdr, words) \in [Addr -> Header \union {NoHeader}]
           /\ WipeFooters(ftr, words) \in [Addr -> Addr \union {NoFooter}]
  BY DEF WipeHeaders, WipeFooters

\* Cursors and sizes are numbers, and a block is never shorter than 3 words.
LEMMA Numbers ==
    ASSUME TypeOK, NEW t \in Tasks
    PROVE  /\ Cursor(t) \in Nat /\ Wanted(t) \in Nat /\ req[t] \in Nat
           /\ h[t] \in Nat /\ ih[t] \in Nat
           /\ Need(Cursor(t), Wanted(t), Aligned(t)) \in Nat
           /\ Need(Cursor(t), Wanted(t), Aligned(t)) >= 3
  <1>1. /\ h[t] \in Nat /\ ih[t] \in Nat /\ req[t] \in Nat
    <2>1. h[t] \in HeapWord /\ ih[t] \in HeapWord
      BY DEF TypeOK
    <2>2. req[t] \in Sizes \union {0}
      BY DEF TypeOK
    <2>3. \A n \in Sizes \union {0} : n \in Nat
      BY HeapTasksAssumption
    <2>4. req[t] \in Nat
      BY <2>2, <2>3
    <2> QED
      BY <2>1, <2>4 DEF HeapWord
  <1>2. Cursor(t) \in Nat /\ Wanted(t) \in Nat
    BY <1>1, Constant DEF Cursor, Wanted
  <1>3. Boundary(Cursor(t)) \in Nat /\ Boundary(Cursor(t)) > Cursor(t)
    BY <1>2, Above DEF Boundary
  <1> QED
    BY <1>1, <1>2, <1>3 DEF Need, FullSize

\* What kfree writes.
LEMMA FreedTypes ==
    ASSUME TypeOK, NEW b \in HeapWord, Sound(b), LeftSound(b), RightSound(b),
           AllMapped(DOMAIN FreedFooters(b))
    PROVE  /\ \A a \in DOMAIN FreedHeaders(b) : FreedHeaders(b)[a] \in Header
           /\ \A a \in DOMAIN FreedFooters(b) : FreedFooters(b)[a] \in Addr
  <1>1. b \in Addr /\ hdr[b] \in Header /\ b \in Nat /\ b >= HeapStart
    BY SoundIs DEF HeapWord
  <1>2. MergesLeft(b) => Left(b) \in Addr /\ hdr[Left(b)] \in Header
    <2> SUFFICES ASSUME MergesLeft(b) PROVE Left(b) \in Addr /\ hdr[Left(b)] \in Header
      OBVIOUS
    <2>1. Left(b) # NoFooter /\ Sound(Left(b)) /\ b # HeapStart
      BY DEF MergesLeft, LeftSound, Left
    <2>2. b - FTR \in Addr
      BY <1>1, <2>1, Constant DEF Addr
    <2>3. Left(b) \in Addr
      BY <2>1, <2>2 DEF Left, TypeOK
    <2> QED
      BY <2>1, <2>3, SoundIs DEF Addr
  <1>3. MergesRight(b) => hdr[Right(b)] \in Header
    BY <1>1, SoundIs DEF MergesRight, RightSound, Right, Header
  <1>4. \A a \in DOMAIN FreedHeaders(b) : FreedHeaders(b)[a] \in Header
    <2> DEFINE own == Write(b, [hdr[b] EXCEPT !.hole = TRUE,
                                              !.size = @ + IF MergesRight(b)
                                                           THEN hdr[Right(b)].size ELSE 0])
               left == Write(Left(b), [hdr[Left(b)] EXCEPT !.size = @ + hdr[b].size,
                                                           !.last = hdr[b].last])
    <2>1. own[b] \in Header /\ DOMAIN own = {b}
      <3>1. hdr[b].size + (IF MergesRight(b) THEN hdr[Right(b)].size ELSE 0) \in Nat
        BY <1>1, <1>3 DEF Header
      <3> QED
        BY <1>1, <3>1 DEF Write, Header
    <2>2. MergesLeft(b) => left[Left(b)] \in Header /\ DOMAIN left = {Left(b)}
      <3>1. MergesLeft(b) => hdr[Left(b)].size + hdr[b].size \in Nat
        BY <1>1, <1>2 DEF Header
      <3> QED
        BY <1>1, <1>2, <3>1 DEF Write, Header
    <2>3. FreedHeaders(b) = IF MergesLeft(b) THEN Also(left, own) ELSE own
      BY DEF FreedHeaders
    <2> HIDE DEF own, left
    <2> QED
      BY <2>1, <2>2, <2>3 DEF Also
  <1>5. \A a \in DOMAIN FreedFooters(b) : FreedFooters(b)[a] \in Addr
    BY <1>1, <1>2 DEF FreedFooters, Also, Write, NoWrite
  <1> QED
    BY <1>4, <1>5

\* Every step of Next keeps the types.
LEMMA TypeStep ==
    ASSUME TypeOK, [Next]_vars
    PROVE  TypeOK'
  <1> USE DEF TypeOK
  <1>1. CASE UNCHANGED vars
    BY <1>1 DEF vars, memory, frame, ghost
  <1>2. ASSUME NEW why \in {"fault", "corrupt", "no_table", "out_of_memory"}, Stop(why)
        PROVE  TypeOK'
    BY <1>2 DEF Stop, memory, frame, ghost
  <1>3. ASSUME NEW words, StopAt(words) PROVE TypeOK'
    BY <1>2, <1>3 DEF StopAt
  <1>4. ASSUME NEW t \in Tasks, NEW n \in Sizes, Malloc(t, n) PROVE TypeOK'
    <2>1. HeapStart \in HeapWord
      BY Constant DEF HeapWord
    <2> QED
      BY <1>4, <2>1 DEF Malloc, Goto, Lock, memory, ghost
  <1>5. ASSUME NEW t \in Tasks, SkipBlock(t) PROVE TypeOK'
    <2>1. Cursor(t) \in HeapWord
      BY DEF Cursor
    <2>2. hdr[Cursor(t)] \in Header
      BY <1>5, <2>1, SoundIs DEF SkipBlock, HeapWord
    <2>3. Cursor(t) + hdr[Cursor(t)].size \in HeapWord
      BY <2>1, <2>2, Constant DEF HeapWord, Header
    <2> QED
      BY <1>5, <2>3 DEF SkipBlock, memory, ghost
  <1>6. ASSUME NEW t \in Tasks, NEW ptr \in Nat, ptr - HDR \in HeapWord, Return(t, ptr),
               Scanning(t), hdr' \in [Addr -> Header \union {NoHeader}],
               ftr' \in [Addr -> Addr \union {NoFooter}],
               blocks' \subseteq Addr, torn' \in BOOLEAN
        PROVE  TypeOK'
    <2>1. used' \in Int
      BY <1>6, Numbers DEF Return
    <2>2. CASE Aligned(t)
      <3>1. tables' \subseteq Nat /\ table' \in [Tasks -> Nat] /\ live' = live
        BY <1>6, <2>2 DEF Return
      <3>2. pc' = [pc EXCEPT ![t] = "relock"] /\ pc[t] = "table_scan"
        BY <1>6, <2>2 DEF Return, Goto, Aligned
      <3> QED
        BY <1>6, <2>1, <3>1, <3>2 DEF Return, Unlock
    <2>3. CASE ~Aligned(t)
      <3>1. pc' = [pc EXCEPT ![t] = "idle"] /\ pc[t] # "idle"
        BY <1>6, <2>3 DEF Return, Goto, At
      <3>2. req[t] \in Sizes
        BY <3>1
      <3>3. [ptr |-> ptr, size |-> req[t]]
              \in [ptr : {a \in Nat : a - HDR \in HeapWord}, size : Sizes]
        BY <1>6, <3>2
      <3>4. live' \subseteq [ptr : {a \in Nat : a - HDR \in HeapWord}, size : Sizes]
        BY <1>6, <2>3, <3>3 DEF Return
      <3>5. table' = table /\ tables' = tables
        BY <1>6, <2>3 DEF Return
      <3> QED
        BY <1>6, <2>1, <3>1, <3>4, <3>5 DEF Return, Unlock
    <2> QED
      BY <2>2, <2>3
  <1>7. ASSUME NEW t \in Tasks, TakeWhole(t) PROVE TypeOK'
    <2> DEFINE b == Cursor(t)
    <2>1. b \in HeapWord /\ b \in Nat
      BY DEF Cursor, HeapWord
    <2>2. b \in Addr /\ hdr[b] \in Header
      BY <1>7, <2>1, SoundIs DEF TakeWhole
    <2>3. hdr' \in [Addr -> Header \union {NoHeader}]
      BY <1>7, <2>2 DEF TakeWhole, Header
    <2>4. b + HDR \in Nat /\ (b + HDR) - HDR \in HeapWord
      BY <2>1 DEF HeapWord
    <2> QED
      BY <1>6, <1>7, <2>3, <2>4 DEF TakeWhole
  <1>8. ASSUME NEW t \in Tasks, SplitHole(t) PROVE TypeOK'
    <2> DEFINE b     == Cursor(t)
               need  == Need(b, Wanted(t), Aligned(t))
               next  == b + need
               stop  == b + hdr[b].size - FTR
               inner == Boundary(b) - HDR
               hs    == Also(Write(b, [size |-> need, hole |-> FALSE, last |-> FALSE]),
                             Write(next, [hdr[b] EXCEPT !.size = @ - need]))
               fs    == Also(Write(stop, next), Write(next - FTR, b))
               is    == Write(inner, [size |-> FullSize(PAGE), hole |-> FALSE, last |-> FALSE])
    <2>1. b \in HeapWord /\ b \in Nat /\ need \in Nat
      BY Numbers DEF Cursor, HeapWord
    <2>2. b \in Addr /\ hdr[b] \in Header
      BY <1>8, <2>1, SoundIs DEF SplitHole
    <2>3. CASE Stop("fault")
      BY <1>2, <2>3
    <2>4. CASE ~Stop("fault")
      <3>1. /\ AllMapped(HeaderWords(next) \union DOMAIN fs)
            /\ hdr' = IF Aligned(t) THEN PutHeaders(PutHeaders(hdr, hs, fs), is, NoWrite)
                      ELSE PutHeaders(hdr, hs, fs)
            /\ ftr' = IF Aligned(t) THEN PutFooters(PutFooters(ftr, hs, fs), is, NoWrite)
                      ELSE PutFooters(ftr, hs, fs)
            /\ Return(t, IF Aligned(t) THEN inner + HDR ELSE b + HDR)
            /\ blocks' = blocks \union {next}
            /\ torn' = (torn \/ (Aligned(t) /\ inner < b + HDR))
        BY <1>8, <2>4 DEF SplitHole
      <3>2. hdr[b].size - need \in Nat /\ hdr[b].size # need
        BY <1>8, <2>1, <2>2 DEF SplitHole, Fits, Usable, Header
      <3>3. next \in Addr
        <4>1. next \in HeaderWords(next) /\ next \in Int
          BY <2>1 DEF HeaderWords
        <4> QED
          BY <3>1, <4>1, MappedAddr DEF AllMapped
      <3>4. \A a \in DOMAIN hs : hs[a] \in Header
        <4>1. [hdr[b] EXCEPT !.size = @ - need] \in Header
          BY <2>2, <3>2 DEF Header
        <4>2. [size |-> need, hole |-> FALSE, last |-> FALSE] \in Header
          BY <2>1 DEF Header
        <4> QED
          BY <4>1, <4>2 DEF Also, Write
      <3>5. \A a \in DOMAIN fs : fs[a] \in Addr
        BY <2>2, <3>3 DEF Also, Write
      <3>6. /\ \A a \in DOMAIN is : is[a] \in Header
            /\ \A a \in DOMAIN NoWrite : NoWrite[a] \in Addr
        BY Constant DEF Write, NoWrite, Header, FullSize
      <3> HIDE DEF hs, fs, is
      <3>7. /\ hdr' \in [Addr -> Header \union {NoHeader}]
            /\ ftr' \in [Addr -> Addr \union {NoFooter}]
        <4>1. /\ PutHeaders(hdr, hs, fs) \in [Addr -> Header \union {NoHeader}]
              /\ PutFooters(ftr, hs, fs) \in [Addr -> Addr \union {NoFooter}]
          BY <3>4, <3>5, PutTypes
        <4>2. /\ PutHeaders(PutHeaders(hdr, hs, fs), is, NoWrite)
                   \in [Addr -> Header \union {NoHeader}]
              /\ PutFooters(PutFooters(ftr, hs, fs), is, NoWrite)
                   \in [Addr -> Addr \union {NoFooter}]
          BY <3>6, <4>1, PutTypes
        <4> QED
          BY <3>1, <4>1, <4>2
      <3>8. /\ inner + HDR \in Nat /\ (inner + HDR) - HDR \in HeapWord
            /\ b + HDR \in Nat /\ (b + HDR) - HDR \in HeapWord
        <4>1. Boundary(b) \in Int /\ Boundary(b) > b + 2
          BY <2>1, Above DEF Boundary
        <4> QED
          BY <2>1, <4>1, Constant DEF HeapWord
      <3>9. blocks' \subseteq Addr /\ torn' \in BOOLEAN
        BY <3>1, <3>3
      <3> QED
        BY <1>6, <1>8, <3>1, <3>7, <3>8, <3>9 DEF SplitHole
    <2> QED
      BY <2>3, <2>4
  <1>9. ASSUME NEW t \in Tasks, ScanEnds(t) PROVE TypeOK'
    <2>1. Cursor(t) \in HeapWord /\ Cursor(t) \in Nat
      BY DEF Cursor, HeapWord
    <2>2. hdr[Cursor(t)] \in Header
      BY <1>9, <2>1, SoundIs DEF ScanEnds
    <2>3. PageOf(Cursor(t) + hdr[Cursor(t)].size) \in Nat
      BY <2>1, <2>2, NatPage DEF Header
    <2>4. CASE Stop("no_table")
      BY <1>2, <2>4
    <2>5. CASE ~Stop("no_table")
      BY <1>9, <2>3, <2>5 DEF ScanEnds, Goto, At, memory, ghost
    <2> QED
      BY <2>4, <2>5
  <1>10. ASSUME NEW t \in Tasks, MapPage(t) \/ NeedTable(t) \/ TableLock(t) PROVE TypeOK'
    <2>1. page[t] \in Page => DirOf(t) \in Directory
      BY InDirectory DEF DirOf
    <2>2. CASE MapPage(t)
      <3>1. CASE Stop("fault")
        BY <1>2, <3>1
      <3>2. CASE ~Stop("fault")
        <4>1. PICK words : hdr' = WipeHeaders(hdr, words) /\ ftr' = WipeFooters(ftr, words)
          BY <2>2, <3>2 DEF MapPage
        <4>2. /\ hdr' \in [Addr -> Header \union {NoHeader}]
              /\ ftr' \in [Addr -> Addr \union {NoFooter}]
          BY <4>1, WipeTypes
        <4>3. dir' \in [Directory -> SUBSET Page] /\ skewed' = skewed
          BY <2>1, <2>2, <3>2 DEF MapPage
        <4> QED
          BY <2>2, <3>2, <4>2, <4>3 DEF MapPage, Goto, At, frame, ghost
      <3> QED
        BY <3>1, <3>2
    <2>3. CASE NeedTable(t)
      BY <2>3 DEF NeedTable, Goto, At, Unlock, memory, frame, ghost
    <2>4. CASE TableLock(t)
      <3>1. HeapStart \in HeapWord
        BY Constant DEF HeapWord
      <3> QED
        BY <2>4, <3>1 DEF TableLock, Goto, At, Lock, memory, ghost
    <2> QED
      BY <1>10, <2>2, <2>3, <2>4
  <1>11. ASSUME NEW t \in Tasks, InstallTable(t) PROVE TypeOK'
    <2> DEFINE words == table[t] .. table[t] + PAGE - 1
    <2>1. page[t] \in Page /\ DirOf(t) \in Directory
      BY <1>11, InDirectory DEF InstallTable, At, DirOf
    <2>2. CASE Stop("fault")
      BY <1>2, <2>2
    <2>3. CASE ~Stop("fault")
      <3>1. hdr' = WipeHeaders(hdr, words) /\ ftr' = WipeFooters(ftr, words)
        BY <1>11, <2>3 DEF InstallTable
      <3>2. /\ hdr' \in [Addr -> Header \union {NoHeader}]
            /\ ftr' \in [Addr -> Addr \union {NoFooter}]
        BY <3>1, WipeTypes
      <3>3. dir' \in [Directory -> SUBSET Page]
        <4>1. PICK seen \in SUBSET Page : dir' = [dir EXCEPT ![DirOf(t)] = seen]
          BY <1>11, <2>1, <2>3 DEF InstallTable, Exposed, PagesOf
        <4> QED
          BY <2>1, <4>1
      <3>4. skewed' \in [Directory -> Nat] /\ torn' \in BOOLEAN
        <4>1. PICK v \in Nat : skewed' = [skewed EXCEPT ![DirOf(t)] = v]
          <5>1. table[t] \in Nat /\ NoPointer \in Nat
            BY DEF NoPointer
          <5>2. skewed' = [skewed EXCEPT ![DirOf(t)] =
                              IF table[t] % PAGE = 0 THEN NoPointer ELSE table[t]]
            BY <1>11, <2>3 DEF InstallTable
          <5> QED
            BY <5>1, <5>2
        <4>2. skewed' \in [Directory -> Nat]
          BY <2>1, <4>1
        <4>3. torn' = (torn \/ ~(table[t] % PAGE = 0))
          BY <1>11, <2>3 DEF InstallTable
        <4> QED
          BY <4>2, <4>3
      <3> QED
        BY <1>11, <2>3, <3>2, <3>3, <3>4 DEF InstallTable, Goto, At, Lock, frame
    <2> QED
      BY <2>2, <2>3
  <1>12. ASSUME NEW t \in Tasks, FindLast(t) \/ Extend(t) PROVE TypeOK'
    <2>1. h[t] \in HeapWord /\ h[t] \in Nat
      BY DEF HeapWord
    <2>2. h[t] \in Addr /\ hdr[h[t]] \in Header
      BY <1>12, <2>1, SoundIs DEF FindLast, Extend
    <2>3. CASE FindLast(t)
      <3>1. h[t] + hdr[h[t]].size \in HeapWord
        BY <2>1, <2>2, Constant DEF HeapWord, Header
      <3> QED
        BY <2>3, <3>1 DEF FindLast, memory, ghost
    <2>4. CASE Extend(t) /\ Stop("fault")
      BY <1>2, <2>4
    <2>5. CASE Extend(t) /\ ~Stop("fault")
      <3> DEFINE stop   == h[t] + hdr[h[t]].size - FTR
                 longer == [hdr[h[t]] EXCEPT !.size = @ + PAGE]
      <3>1. longer \in Header
        BY <2>2, Constant DEF Header
      <3>2. /\ hdr' = PutHeaders(hdr, Write(h[t], longer), Write(stop, h[t]))
            /\ ftr' = PutFooters(ftr, Write(h[t], longer), Write(stop, h[t]))
        BY <2>5 DEF Extend
      <3>3. /\ \A a \in DOMAIN Write(h[t], longer) : Write(h[t], longer)[a] \in Header
            /\ \A a \in DOMAIN Write(stop, h[t]) : Write(stop, h[t])[a] \in Addr
        BY <2>2, <3>1 DEF Write
      <3>4. /\ hdr' \in [Addr -> Header \union {NoHeader}]
            /\ ftr' \in [Addr -> Addr \union {NoFooter}]
        BY <3>2, <3>3, PutTypes
      <3>5. end' \in Nat /\ HeapStart \in HeapWord
        BY <2>5, Constant DEF Extend, HeapWord
      <3> QED
        BY <2>5, <3>4, <3>5 DEF Extend, Goto, At
    <2> QED
      BY <1>12, <2>3, <2>4, <2>5
  <1>13. ASSUME NEW t \in Tasks, NEW x \in live, KFree(t, x) PROVE TypeOK'
    <2> DEFINE b == x.ptr - HDR
    <2>1. b \in HeapWord /\ b \in Int
      BY DEF HeapWord
    <2>2. ASSUME NEW why \in {"fault", "corrupt"}, Stop(why) PROVE TypeOK'
      BY <1>2, <2>2
    <2>3. CASE ~Stop("corrupt") /\ ~Stop("fault")
      <3>1. /\ Sound(b) /\ LeftSound(b) /\ RightSound(b) /\ AllMapped(DOMAIN FreedFooters(b))
            /\ used' = used - (hdr[b].size - HDR - FTR)
            /\ hdr' = PutHeaders(hdr, FreedHeaders(b), FreedFooters(b))
            /\ ftr' = PutFooters(ftr, FreedHeaders(b), FreedFooters(b))
            /\ live' = live \ {x}
            /\ blocks' = blocks \ Detached(b)
            /\ torn' = (torn \/ (MergesLeft(b) /\ MergesRight(b)))
            /\ UNCHANGED <<malloc_mtx, dir, skewed, pc, frame, tables, end, status>>
        BY <1>13, <2>3 DEF KFree, StopAt, paging
      <3>2. /\ \A a \in DOMAIN FreedHeaders(b) : FreedHeaders(b)[a] \in Header
            /\ \A a \in DOMAIN FreedFooters(b) : FreedFooters(b)[a] \in Addr
        BY <2>1, <3>1, FreedTypes
      <3>3. /\ hdr' \in [Addr -> Header \union {NoHeader}]
            /\ ftr' \in [Addr -> Addr \union {NoFooter}]
        BY <3>1, <3>2, PutTypes
      <3>4. hdr[b] \in Header
        BY <2>1, <3>1, SoundIs
      <3>5. used' \in Int
        BY <3>1, <3>4 DEF Header
      <3> QED
        BY <3>1, <3>3, <3>5 DEF frame
    <2> QED
      BY <1>13, <2>2, <2>3
  <1>14. ASSUME NEW x \in live, UseBlock(x) PROVE TypeOK'
    <2>1. CASE Stop("fault")
      BY <1>2, <2>1
    <2>2. CASE ~Stop("fault")
      <3>1. /\ hdr' = WipeHeaders(hdr, Payload(x))
            /\ ftr' = WipeFooters(ftr, Payload(x))
            /\ UNCHANGED <<used, malloc_mtx, paging, pc, frame, live, tables, ghost, status>>
        BY <1>14, <2>2 DEF UseBlock
      <3>2. /\ hdr' \in [Addr -> Header \union {NoHeader}]
            /\ ftr' \in [Addr -> Addr \union {NoFooter}]
        BY <3>1, WipeTypes
      <3> QED
        BY <3>1, <3>2 DEF frame, ghost, paging
    <2> QED
      BY <2>1, <2>2
  <1>15. ASSUME NEW d \in Directory, Remap(d) PROVE TypeOK'
    <2>1. PICK pages \in SUBSET Page : dir' = [dir EXCEPT ![d] = pages]
      BY <1>15 DEF Remap, Exposed, PagesOf
    <2>2. dir' \in [Directory -> SUBSET Page] /\ skewed' = skewed
      BY <1>15, <2>1 DEF Remap
    <2> QED
      BY <1>15, <2>2 DEF Remap, memory, frame, ghost
  <1> QED
    BY <1>1, <1>2, <1>3, <1>4, <1>5, <1>7, <1>8, <1>9, <1>10, <1>11, <1>12, <1>13, <1>14, <1>15
    DEF Next, Client, Continue, WalkFails, PageRefused

\* heap_init: one hole, as long as the heap.
LEMMA InitIs ==
    ASSUME Init
    PROVE  /\ InitialEnd \in Nat /\ InitialEnd <= MemSize /\ HeapStart + PAGE <= InitialEnd
           /\ InitialEnd = PageOf(InitialEnd) * PAGE
           /\ HeapStart \in Addr
           /\ hdr[HeapStart] = [size |-> HeapPages * PAGE, hole |-> TRUE, last |-> TRUE]
           /\ hdr[HeapStart] \in Header
           /\ Mapped = {p \in Page : p * PAGE < InitialEnd}
  <1>1. HeapPages * PAGE \in Nat /\ HeapPages * PAGE >= PAGE
    BY Constant
  <1>2. InitialEnd \in Nat /\ InitialEnd <= MemSize /\ HeapStart + PAGE <= InitialEnd
    BY <1>1, HeapAssumption DEF InitialEnd, MemSize
  <1>3. HeapStart = (HeapStart \div PAGE) * PAGE
    <2>1. \A a \in Nat, n \in Nat \ {0} : a % n = 0 => a = n * (a \div n)
      OBVIOUS
    <2>2. HeapStart = PAGE * (HeapStart \div PAGE) /\ HeapStart \div PAGE \in Int
      BY <2>1, HeapAssumption, Constant, Division
    <2> QED
      BY <2>2, Constant
  <1>4. InitialEnd = (HeapStart \div PAGE + HeapPages) * PAGE
    BY <1>3, Constant, Division DEF InitialEnd
  <1>5. InitialEnd = PageOf(InitialEnd) * PAGE
    <2> DEFINE k == HeapStart \div PAGE + HeapPages
    <2>1. k \in Int
      BY Constant, Division
    <2> HIDE DEF k
    <2>2. PageOf(k * PAGE) = k
      BY <2>1, PageBelow
    <2> QED
      BY <1>4, <2>2 DEF k
  <1>6. HeapStart \in Addr
    BY <1>2, Constant DEF Addr
  <1>7. hdr[HeapStart] = [size |-> HeapPages * PAGE, hole |-> TRUE, last |-> TRUE]
    BY <1>6 DEF Init
  <1>8. Mapped = {p \in Page : p * PAGE < InitialEnd}
    BY InDirectory DEF Init, Mapped, PagesOf
  <1> QED
    BY <1>1, <1>2, <1>5, <1>6, <1>7, <1>8 DEF Header

\* So does the state heap_init leaves.
LEMMA InitTypes == Init => TypeOK
  <1> SUFFICES ASSUME Init PROVE TypeOK
    OBVIOUS
  <1>1. hdr \in [Addr -> Header \union {NoHeader}]
    BY InitIs DEF Init
  <1>2. ftr \in [Addr -> Addr \union {NoFooter}]
    BY InitIs DEF Init
  <1>3. HeapStart \in HeapWord
    BY Constant DEF HeapWord
  <1>4. InitialEnd \in Nat /\ HeapStart \in Addr
    BY InitIs
  <1>5. dir \in [Directory -> SUBSET Page] /\ skewed \in [Directory -> Nat]
    BY DEF Init, PagesOf, NoPointer
  <1>6. /\ pc = [t \in Tasks |-> "idle"] /\ req = [t \in Tasks |-> 0]
        /\ h = [t \in Tasks |-> HeapStart] /\ ih = [t \in Tasks |-> HeapStart]
        /\ page = [t \in Tasks |-> 0] /\ table = [t \in Tasks |-> 0]
    BY DEF Init
  <1>7. /\ used = 0 /\ malloc_mtx = Free /\ live = {} /\ tables = {} /\ blocks = {HeapStart}
        /\ end = InitialEnd /\ torn = FALSE /\ status = "ok"
    BY DEF Init
  <1>8. /\ pc \in [Tasks -> {"idle", "scan", "grow", "table_lock", "table_scan",
                            "relock", "extend"}]
        /\ req \in [Tasks -> Sizes \union {0}]
        /\ h \in [Tasks -> HeapWord] /\ ih \in [Tasks -> HeapWord]
        /\ page \in [Tasks -> Nat] /\ table \in [Tasks -> Nat]
    BY <1>3, <1>6
  <1>9. \A t \in Tasks : pc[t] = "idle"
    BY <1>6
  <1>10. /\ \A t \in Tasks : /\ pc[t] # "idle" => req[t] \in Sizes
                             /\ pc[t] \in {"table_lock", "table_scan", "relock"} => page[t] \in Page
    BY <1>9
  <1>11. \A S : live \subseteq S
    BY <1>7
  <1>12. /\ tables \subseteq Nat /\ blocks \subseteq Addr /\ end \in Nat
         /\ used \in Int /\ malloc_mtx \in {Free, Held}
    BY <1>4, <1>7
  <1>13. torn \in BOOLEAN /\ status \in {"ok", "fault", "corrupt", "no_table", "out_of_memory"}
    BY <1>7
  <1> QED
    BY <1>1, <1>2, <1>5, <1>8, <1>10, <1>11, <1>12, <1>13 DEF TypeOK

\* Every variable keeps its type, whatever tasks do to the list.
THEOREM TypeCorrect == Spec => []TypeOK
  <1>1. TypeOK /\ [Next]_vars => TypeOK'
    BY TypeStep
  <1> QED
    BY <1>1, InitTypes, PTL DEF Spec

-----------------------------------------------------------------------------
(* The list.  Blocks do not overlap, so one stop belongs to one block, and  *)
(* what lies inside a block is no word of the list.                        *)

\* What the list says of one block.
LEMMA Layout ==
    ASSUME List, NEW b \in blocks
    PROVE  /\ b \in Nat /\ b \in Addr /\ HeapStart <= b
           /\ hdr[b] \in Header /\ hdr[b] # NoHeader /\ hdr[b].size \in Nat
           /\ hdr[b].hole \in BOOLEAN /\ hdr[b].last \in BOOLEAN
           /\ StopOf(b) \in Nat /\ b + 3 <= StopOf(b) /\ StopOf(b) = b + hdr[b].size
           /\ StopOf(b) \in blocks \union {end}
           /\ StopOf(b) # end => StopOf(b) \in blocks
  BY NoHeaderAssumption, Constant DEF List, Addr, Header, StopOf

\* Two blocks lie one behind the other, and a stop belongs to one block.
LEMMA Order ==
    ASSUME List, NEW b \in blocks, NEW c \in blocks
    PROVE  /\ b = c \/ StopOf(b) <= c \/ StopOf(c) <= b
           /\ StopOf(b) = StopOf(c) => b = c
  <1>1. b < c => StopOf(b) <= c
    BY DEF List
  <1>2. c < b => StopOf(c) <= b
    BY DEF List
  <1> QED
    BY <1>1, <1>2, Layout

\* Every block ends within the heap.
LEMMA Within ==
    ASSUME List, end \in Nat, NEW b \in blocks
    PROVE  StopOf(b) <= end
  BY Layout DEF List

\* A page table lies in one block.
LEMMA Home ==
    ASSUME List, NEW b \in blocks, NEW c \in blocks, NEW p \in Nat, Holds(b, p), Holds(c, p)
    PROVE  b = c
  BY Layout, Order, Constant DEF Holds

\* The words of a block between its header and its footer.
Interior(b) == {w \in Nat : b + HDR <= w /\ w < StopOf(b) - FTR}

\* A word inside a block is no header word or footer of any block.
LEMMA Inside ==
    ASSUME List, NEW b \in blocks, NEW c \in blocks, NEW w \in Interior(b)
    PROVE  w # c /\ w # c + 1 /\ w # StopOf(c) - 1
  BY Layout, Order DEF Interior

\* As long as the last flag is known, it is set on the block at the end only.
LEMMA LastIs ==
    ASSUME List, LastKnown, NEW b \in blocks
    PROVE  hdr[b].last <=> StopOf(b) = end
  <1>1. PICK c \in blocks : hdr[c].last /\ StopOf(c) = end
    BY DEF LastKnown
  <1> QED
    BY <1>1, Order DEF List

\* The footer that merge_left reads leads to the block on the left.
LEMMA LeftNeighbour ==
    ASSUME List, FootersName, end \in Nat, NEW b \in blocks \ {HeapStart}
    PROVE  Left(b) \in blocks /\ StopOf(Left(b)) = b /\ Left(b) < b
  <1>1. PICK a \in blocks : StopOf(a) = b
    BY DEF List
  <1>2. b # end
    BY DEF List
  <1>3. ftr[b - FTR] = a
    BY <1>1, <1>2 DEF FootersName
  <1> QED
    BY <1>1, <1>3, Layout DEF Left

-----------------------------------------------------------------------------
(* Pointwise effect of the writes. *)

\* A header is what is written on it, or, two words away from every write, what
\* it was.
LEMMA PutHeaderAt ==
    ASSUME NEW hd, NEW hs, NEW fs, NEW a \in Addr
    PROVE  /\ a \in DOMAIN hs => PutHeaders(hd, hs, fs)[a] = hs[a]
           /\ /\ DOMAIN hs \subseteq Int
              /\ a \notin DOMAIN hs /\ \A b \in DOMAIN hs : b + 2 <= a \/ a + 2 <= b
              /\ a \notin DOMAIN fs /\ a + 1 \notin DOMAIN fs
              => PutHeaders(hd, hs, fs)[a] = hd[a]
  <1>1. HeaderWords(a) = {a, a + 1}
    BY Constant DEF HeaderWords, Addr
  <1>2. \A b \in Int : HeaderWords(b) = {b, b + 1}
    BY DEF HeaderWords
  <1> QED
    BY <1>1, <1>2, Constant DEF PutHeaders, Addr

\* The same of a footer.
LEMMA PutFooterAt ==
    ASSUME NEW ft, NEW hs, NEW fs, NEW a \in Addr
    PROVE  /\ a \in DOMAIN fs => PutFooters(ft, hs, fs)[a] = fs[a]
           /\ /\ DOMAIN hs \subseteq Int
              /\ a \notin DOMAIN fs /\ \A b \in DOMAIN hs : a # b /\ a # b + 1
              => PutFooters(ft, hs, fs)[a] = ft[a]
  <1>2. \A b \in Int : HeaderWords(b) = {b, b + 1}
    BY DEF HeaderWords
  <1> QED
    BY <1>2 DEF PutFooters

\* Headers and footers outside the words that are filled stay.
LEMMA WipeAt ==
    ASSUME NEW hd, NEW ft, NEW words, NEW a \in Addr
    PROVE  /\ a \notin words /\ a + 1 \notin words => WipeHeaders(hd, words)[a] = hd[a]
           /\ a \notin words => WipeFooters(ft, words)[a] = ft[a]
  <1>1. HeaderWords(a) = {a, a + 1}
    BY Constant DEF HeaderWords, Addr
  <1> QED
    BY <1>1 DEF WipeHeaders, WipeFooters

\* One write writes one word.
LEMMA WriteIs ==
    ASSUME NEW a, NEW v
    PROVE  DOMAIN Write(a, v) = {a} /\ Write(a, v)[a] = v
  BY DEF Write

-----------------------------------------------------------------------------
(* What the operations do to the list. *)

\* Nothing is written on a word of the list, or only the hole flag of a block.
LEMMA SameShape ==
    ASSUME Shape, end \in Nat,
           \A b \in blocks : /\ hdr'[b] \in Header /\ hdr'[b].size = hdr[b].size
                             /\ hdr'[b].last = hdr[b].last
                             /\ hdr'[b].hole => hdr[b].hole,
           \A b \in blocks : StopOf(b) # end => ftr'[StopOf(b) - FTR] = ftr[StopOf(b) - FTR],
           blocks' = blocks, end' = end
    PROVE  /\ Shape' /\ LastKnown' = LastKnown
           /\ \A b \in blocks : StopOf(b)' = StopOf(b)
  <1>1. \A b \in blocks : StopOf(b)' = StopOf(b)
    BY DEF StopOf
  <1>2. List'
    BY <1>1, Layout DEF Shape, List
  <1>3. FootersName'
    BY <1>1 DEF Shape, FootersName
  <1>4. NoTwoHoles'
    BY <1>1, Layout DEF Shape, NoTwoHoles
  <1>5. LastKnown' = LastKnown
    BY <1>1 DEF LastKnown
  <1> QED
    BY <1>1, <1>2, <1>3, <1>4, <1>5 DEF Shape

\* heap_malloc splits the hole b.
LEMMA SplitShape ==
    ASSUME Shape, end \in Nat, NEW b \in blocks, hdr[b].hole,
           NEW need \in Nat, need >= 3, hdr[b].size - need >= 3,
           b + need \in Addr, blocks' = blocks \union {b + need}, end' = end,
           hdr'[b] = [size |-> need, hole |-> FALSE, last |-> FALSE],
           hdr'[b + need] = [hdr[b] EXCEPT !.size = @ - need],
           \A c \in blocks \ {b} : hdr'[c] = hdr[c],
           ftr'[b + need - FTR] = b, ftr'[StopOf(b) - FTR] = b + need,
           \A c \in blocks \ {b} : StopOf(c) # end => ftr'[StopOf(c) - FTR] = ftr[StopOf(c) - FTR]
    PROVE  /\ Shape' /\ LastKnown' = LastKnown
           /\ StopOf(b)' = b + need
           /\ \A c \in blocks \ {b} : StopOf(c)' = StopOf(c)
  <1> DEFINE next == b + need
  <1>1. next \in Nat /\ next > b /\ next + 3 <= StopOf(b)
    BY Layout DEF Shape
  <1>2. /\ hdr'[b] \in Header /\ hdr'[next] \in Header
        /\ hdr'[next].size = hdr[b].size - need /\ hdr'[next].hole
        /\ hdr'[next].last = hdr[b].last /\ ~hdr'[b].hole /\ ~hdr'[b].last /\ hdr'[b].size = need
    BY Layout DEF Shape, Header
  <1>3. /\ StopOf(b)' = next /\ StopOf(next)' = StopOf(b)
        /\ \A c \in blocks \ {b} : StopOf(c)' = StopOf(c)
    BY <1>1, <1>2, Layout DEF Shape, StopOf
  <1>4. next \notin blocks
    BY <1>1, Order, Layout DEF Shape
  <1>10. ftr'[next - FTR] = b /\ ftr'[StopOf(b) - FTR] = next /\ next \in Addr
    <2>1. b \in Nat
      BY Layout DEF Shape
    <2>2. ftr'[next - FTR] = b
      BY <2>1
    <2> QED
      BY <2>1, <2>2
  <1> HIDE DEF next
  <1>5. blocks' = blocks \union {next}
    BY DEF next
  <1>6. List'
    <2>1. ASSUME NEW c \in blocks'
          PROVE  /\ c \in Addr /\ HeapStart <= c /\ c < end'
                 /\ hdr'[c] \in Header /\ hdr'[c].size >= 3
                 /\ StopOf(c)' \in blocks' \union {end'}
                 /\ hdr'[c].last => StopOf(c)' = end'
      <3>1. CASE c = b
        BY <1>1, <1>2, <1>3, <1>5, <3>1, Layout DEF Shape, List
      <3>2. CASE c = next
        <4>1. HeapStart <= next /\ next < end /\ next \in Addr
          BY <1>1, <1>10, Layout, Within, Constant DEF Shape
        <4>2. hdr'[next].size >= 3
          BY <1>2, Layout DEF Shape
        <4> QED
          BY <1>2, <1>3, <1>5, <3>2, <4>1, <4>2, Layout DEF Shape, List
      <3>3. CASE c \in blocks \ {b}
        BY <1>3, <1>5, <3>3, Layout DEF Shape, List
      <3> QED
        BY <1>5, <3>1, <3>2, <3>3
    <2>2. ASSUME NEW c \in blocks', NEW d \in blocks', c < d
          PROVE  StopOf(c)' <= d
      <3>1. CASE c = b
        <4>1. d # next => StopOf(b) <= d
          BY <1>5, <2>2, <3>1 DEF Shape, List
        <4> QED
          BY <1>1, <1>3, <1>5, <2>2, <3>1, <4>1, Layout DEF Shape
      <3>2. CASE c = next
        <4>1. d \in blocks /\ d > b
          BY <1>1, <1>5, <2>2, <3>2, Layout DEF Shape
        <4> QED
          BY <1>3, <3>2, <4>1 DEF Shape, List
      <3>3. CASE c \in blocks \ {b}
        <4>1. CASE d = next
          <5>1. StopOf(c) <= b
            BY <1>1, <2>2, <3>3, <4>1, Order, Layout DEF Shape
          <5> QED
            BY <1>1, <1>3, <3>3, <4>1, <5>1, Layout DEF Shape
        <4>2. CASE d # next
          BY <1>3, <1>5, <2>2, <3>3, <4>2 DEF Shape, List
        <4> QED
          BY <4>1, <4>2
      <3> QED
        BY <1>5, <3>1, <3>2, <3>3
    <2>3. ASSUME NEW c \in blocks' \ {HeapStart} PROVE \E a \in blocks' : StopOf(a)' = c
      <3>1. CASE c = next
        BY <1>3, <1>5, <3>1
      <3>2. CASE c # next
        <4>1. PICK a \in blocks : StopOf(a) = c
          BY <1>5, <2>3, <3>2 DEF Shape, List
        <4> QED
          BY <1>3, <1>5, <4>1
      <3> QED
        BY <3>1, <3>2
    <2>4. HeapStart \in blocks'
      BY <1>5 DEF Shape, List
    <2> QED
      BY <2>1, <2>2, <2>3, <2>4 DEF List
  <1>7. FootersName'
    <2> SUFFICES ASSUME NEW c \in blocks', StopOf(c)' # end'
                 PROVE  ftr'[StopOf(c)' - FTR] = c
      BY DEF FootersName
    <2>1. CASE c = b
      BY <1>3, <1>10, <2>1
    <2>2. CASE c = next
      BY <1>3, <1>10, <2>2
    <2>3. CASE c \in blocks \ {b}
      BY <1>3, <2>3 DEF Shape, FootersName
    <2> QED
      BY <1>5, <2>1, <2>2, <2>3
  <1>8. NoTwoHoles'
    <2> SUFFICES ASSUME NEW c \in blocks', hdr'[c].hole, StopOf(c)' # end'
                 PROVE  ~hdr'[StopOf(c)'].hole
      BY DEF NoTwoHoles
    <2>1. c # b
      BY <1>2
    <2>2. CASE c = next
      <3>1. StopOf(b) \in blocks \ {b} /\ ~hdr[StopOf(b)].hole
        BY <1>3, <2>2, Layout DEF Shape, NoTwoHoles
      <3> QED
        BY <1>3, <2>2, <3>1
    <2>3. CASE c \in blocks \ {b}
      <3>1. StopOf(c) \in blocks /\ ~hdr[StopOf(c)].hole
        BY <1>3, <2>3, Layout DEF Shape, NoTwoHoles
      <3>2. StopOf(c) # b
        BY <3>1
      <3> QED
        BY <1>3, <2>3, <3>1, <3>2
    <2> QED
      BY <1>5, <2>1, <2>2, <2>3
  <1>9. LastKnown' = LastKnown
    <2>1. LastKnown => LastKnown'
      <3>1. ASSUME NEW c \in blocks, hdr[c].last, StopOf(c) = end
            PROVE  \E d \in blocks' : hdr'[d].last /\ StopOf(d)' = end'
        <4>1. CASE c = b
          BY <1>2, <1>3, <1>5, <3>1, <4>1
        <4>2. CASE c # b
          BY <1>3, <1>5, <3>1, <4>2
        <4> QED
          BY <4>1, <4>2
      <3> QED
        BY <3>1 DEF LastKnown
    <2>2. LastKnown' => LastKnown
      <3>1. ASSUME NEW c \in blocks', hdr'[c].last, StopOf(c)' = end'
            PROVE  \E d \in blocks : hdr[d].last /\ StopOf(d) = end
        BY <1>2, <1>3, <1>5, <3>1
      <3> QED
        BY <3>1 DEF LastKnown
    <2> QED
      BY <2>1, <2>2 DEF LastKnown
  <1> QED
    BY <1>3, <1>6, <1>7, <1>8, <1>9 DEF Shape, next

\* heap_free makes one hole of a and of the block b behind it.
LEMMA MergeShape ==
    ASSUME Shape, end \in Nat, NEW a \in blocks, NEW b \in blocks, StopOf(a) = b,
           blocks' = blocks \ {b}, end' = end,
           hdr'[a] \in Header, hdr'[a].size = hdr[a].size + hdr[b].size,
           hdr'[a].last => StopOf(b) = end,
           ftr'[StopOf(b) - FTR] = a,
           \A c \in blocks \ {a, b} :
               /\ hdr'[c] = hdr[c]
               /\ StopOf(c) # end => ftr'[StopOf(c) - FTR] = ftr[StopOf(c) - FTR],
           StopOf(b) # end => ~hdr[StopOf(b)].hole,
           \A c \in blocks : StopOf(c) = a => ~hdr[c].hole
    PROVE  /\ Shape'
           /\ StopOf(a)' = StopOf(b)
           /\ \A c \in blocks \ {a, b} : StopOf(c)' = StopOf(c)
  <1>1. a < b /\ b < StopOf(b) /\ b # HeapStart
    BY Layout DEF Shape
  <1>2. /\ StopOf(a)' = StopOf(b)
        /\ \A c \in blocks \ {a, b} : StopOf(c)' = StopOf(c)
    BY Layout DEF Shape, StopOf
  <1>3. List'
    <2>1. ASSUME NEW c \in blocks'
          PROVE  /\ c \in Addr /\ HeapStart <= c /\ c < end'
                 /\ hdr'[c] \in Header /\ hdr'[c].size >= 3
                 /\ StopOf(c)' \in blocks' \union {end'}
                 /\ hdr'[c].last => StopOf(c)' = end'
      <3>1. CASE c = a
        BY <1>1, <1>2, <3>1, Layout DEF Shape, List
      <3>2. CASE c # a
        <4>1. StopOf(c) # b
          BY <3>2, Order DEF Shape
        <4> QED
          BY <1>2, <3>2, <4>1, Layout DEF Shape, List
      <3> QED
        BY <3>1, <3>2
    <2>2. ASSUME NEW c \in blocks', NEW d \in blocks', c < d
          PROVE  StopOf(c)' <= d
      <3>1. CASE c = a
        <4>1. d \in blocks /\ b <= d /\ d # b
          BY <2>2, <3>1 DEF Shape, List
        <4>2. StopOf(b) <= d
          BY <1>1, <4>1, Layout DEF Shape, List
        <4> QED
          BY <1>2, <3>1, <4>2
      <3>2. CASE c # a
        BY <1>2, <2>2, <3>2 DEF Shape, List
      <3> QED
        BY <3>1, <3>2
    <2>3. ASSUME NEW c \in blocks' \ {HeapStart} PROVE \E d \in blocks' : StopOf(d)' = c
      <3>1. PICK d \in blocks : StopOf(d) = c
        BY <2>3 DEF Shape, List
      <3>2. d # a
        BY <3>1
      <3>3. CASE d = b
        BY <1>1, <1>2, <3>1, <3>3
      <3>4. CASE d # b
        BY <1>2, <3>1, <3>2, <3>4
      <3> QED
        BY <3>3, <3>4
    <2>4. HeapStart \in blocks'
      BY <1>1 DEF Shape, List
    <2> QED
      BY <2>1, <2>2, <2>3, <2>4 DEF List
  <1>4. FootersName'
    BY <1>2 DEF FootersName, Shape
  <1>5. NoTwoHoles'
    <2> SUFFICES ASSUME NEW c \in blocks', hdr'[c].hole, StopOf(c)' # end'
                 PROVE  ~hdr'[StopOf(c)'].hole
      BY DEF NoTwoHoles
    <2>1. CASE c = a
      <3>1. StopOf(b) \in blocks \ {a, b}
        BY <1>1, <1>2, <2>1, Layout DEF Shape
      <3> QED
        BY <1>2, <2>1, <3>1
    <2>2. CASE c # a
      <3>1. c \in blocks \ {a, b} /\ hdr[c].hole /\ StopOf(c) # end
        BY <1>2, <2>2
      <3>2. StopOf(c) \in blocks /\ StopOf(c) # a /\ StopOf(c) # b /\ ~hdr[StopOf(c)].hole
        BY <2>2, <3>1, Order, Layout DEF Shape, NoTwoHoles
      <3> QED
        BY <1>2, <3>1, <3>2
    <2> QED
      BY <2>1, <2>2
  <1> QED
    BY <1>2, <1>3, <1>4, <1>5 DEF Shape

\* heap_free finds no hole on either side of b.
LEMMA FreeShape ==
    ASSUME Shape, end \in Nat, NEW b \in blocks, blocks' = blocks, end' = end,
           hdr'[b] \in Header, hdr'[b].size = hdr[b].size, hdr'[b].last = hdr[b].last,
           \A c \in blocks \ {b} : hdr'[c] = hdr[c],
           \A c \in blocks : StopOf(c) # end => ftr'[StopOf(c) - FTR] = ftr[StopOf(c) - FTR],
           StopOf(b) # end => ~hdr[StopOf(b)].hole,
           \A c \in blocks : StopOf(c) = b => ~hdr[c].hole
    PROVE  Shape' /\ \A c \in blocks : StopOf(c)' = StopOf(c)
  <1>1. \A c \in blocks : StopOf(c)' = StopOf(c)
    BY DEF StopOf
  <1>2. List'
    BY <1>1, Layout DEF Shape, List
  <1>3. FootersName'
    BY <1>1 DEF Shape, FootersName
  <1>4. NoTwoHoles'
    <2> SUFFICES ASSUME NEW c \in blocks, hdr'[c].hole, StopOf(c) # end
                 PROVE  ~hdr'[StopOf(c)].hole
      BY <1>1 DEF NoTwoHoles
    <2>1. StopOf(c) \in blocks /\ StopOf(c) # c
      BY Layout DEF Shape
    <2>2. CASE c = b
      BY <2>1, <2>2
    <2>3. CASE c # b
      BY <2>1, <2>3 DEF Shape, NoTwoHoles
    <2> QED
      BY <2>2, <2>3
  <1> QED
    BY <1>1, <1>2, <1>3, <1>4 DEF Shape

\* heap_malloc lets the last block grow by a page.
LEMMA ExtendShape ==
    ASSUME Shape, end \in Nat, NEW b \in blocks, StopOf(b) = end, hdr[b].last,
           blocks' = blocks, end' = end + PAGE,
           hdr'[b] = [hdr[b] EXCEPT !.size = @ + PAGE],
           \A c \in blocks \ {b} :
               hdr'[c] = hdr[c] /\ ftr'[StopOf(c) - FTR] = ftr[StopOf(c) - FTR]
    PROVE  /\ Shape' /\ LastKnown'
           /\ StopOf(b)' = end + PAGE
           /\ \A c \in blocks \ {b} : StopOf(c)' = StopOf(c) /\ StopOf(c) # end
  <1>1. /\ hdr'[b] \in Header /\ hdr'[b].size = hdr[b].size + PAGE /\ hdr'[b].last
        /\ hdr'[b].hole = hdr[b].hole
    BY Layout, Constant DEF Shape, Header
  <1>2. /\ StopOf(b)' = end + PAGE
        /\ \A c \in blocks \ {b} : StopOf(c)' = StopOf(c) /\ StopOf(c) # end
    <2>1. StopOf(b)' = b + hdr'[b].size /\ StopOf(b) = b + hdr[b].size
      BY DEF StopOf
    <2>2. StopOf(b)' = end + PAGE
      BY <1>1, <2>1, Layout, Constant DEF Shape
    <2>3. \A c \in blocks \ {b} : StopOf(c)' = StopOf(c)
      BY DEF StopOf
    <2> QED
      BY <2>2, <2>3, Order DEF Shape
  <1>3. List'
    <2>1. ASSUME NEW c \in blocks'
          PROVE  /\ c \in Addr /\ HeapStart <= c /\ c < end'
                 /\ hdr'[c] \in Header /\ hdr'[c].size >= 3
                 /\ StopOf(c)' \in blocks' \union {end'}
                 /\ hdr'[c].last => StopOf(c)' = end'
      <3>0. c < end' /\ c \in Addr /\ HeapStart <= c
        BY Layout, Constant DEF Shape, List
      <3>1. CASE c = b
        <4>1. StopOf(b)' = end' /\ hdr[b].size \in Nat /\ hdr[b].size >= 3
          BY <1>2, Layout DEF Shape
        <4>2. hdr'[b].size >= 3
          BY <1>1, <4>1, Constant
        <4>3. StopOf(c)' = end'
          BY <3>1, <4>1
        <4> QED
          BY <1>1, <3>0, <3>1, <4>2, <4>3
      <3>2. CASE c # b
        BY <1>2, <3>0, <3>2, Layout DEF Shape, List
      <3> QED
        BY <3>1, <3>2
    <2>2. ASSUME NEW c \in blocks', NEW d \in blocks', c < d
          PROVE  StopOf(c)' <= d
      <3>1. c # b
        BY <2>2, Layout, Within DEF Shape, List
      <3> QED
        BY <1>2, <2>2, <3>1 DEF Shape, List
    <2>3. ASSUME NEW c \in blocks' \ {HeapStart} PROVE \E d \in blocks' : StopOf(d)' = c
      <3>1. PICK d \in blocks : StopOf(d) = c
        BY <2>3 DEF Shape, List
      <3>2. d # b
        BY <3>1 DEF Shape, List
      <3> QED
        BY <1>2, <3>1, <3>2
    <2>4. HeapStart \in blocks'
      BY DEF Shape, List
    <2> QED
      BY <2>1, <2>2, <2>3, <2>4 DEF List
  <1>4. FootersName'
    BY <1>2 DEF FootersName, Shape
  <1>5. NoTwoHoles'
    <2> SUFFICES ASSUME NEW c \in blocks, hdr'[c].hole, StopOf(c)' # end'
                 PROVE  ~hdr'[StopOf(c)'].hole
      BY DEF NoTwoHoles
    <2>1. c # b
      BY <1>2
    <2>2. StopOf(c) \in blocks /\ ~hdr[StopOf(c)].hole
      BY <1>2, <2>1, Layout DEF Shape, NoTwoHoles
    <2>3. CASE StopOf(c) = b
      BY <1>1, <1>2, <2>1, <2>2, <2>3
    <2>4. CASE StopOf(c) # b
      BY <1>2, <2>1, <2>2, <2>4
    <2> QED
      BY <2>3, <2>4
  <1>6. LastKnown'
    BY <1>1, <1>2 DEF LastKnown
  <1> QED
    BY <1>2, <1>3, <1>4, <1>5, <1>6 DEF Shape

-----------------------------------------------------------------------------
(* What the writes of each operation leave on the words of the list. *)

\* The words of the list are memory.
LEMMA ListWords ==
    ASSUME List, end \in Nat, end <= MemSize, NEW b \in blocks
    PROVE  b \in Addr /\ StopOf(b) - FTR \in Addr
  BY Layout, Within, Constant DEF Addr

\* Data written into a block.
LEMMA WipeKeeps ==
    ASSUME List, end \in Nat, end <= MemSize, NEW b \in blocks,
           NEW words, words \subseteq Interior(b), NEW c \in blocks
    PROVE  /\ WipeHeaders(hdr, words)[c] = hdr[c]
           /\ WipeFooters(ftr, words)[StopOf(c) - FTR] = ftr[StopOf(c) - FTR]
  <1>1. c \notin words /\ c + 1 \notin words /\ StopOf(c) - FTR \notin words
    BY Inside
  <1> QED
    BY <1>1, ListWords, WipeAt

\* The two headers and two footers of a split.
LEMMA SplitWrites ==
    ASSUME List, end \in Nat, end <= MemSize, NEW b \in blocks,
           NEW next \in Nat, b + 3 <= next, next + 3 <= StopOf(b), NEW v, NEW w,
           NEW hs, hs = Also(Write(b, v), Write(next, w)),
           NEW fs, fs = Also(Write(StopOf(b) - FTR, next), Write(next - FTR, b))
    PROVE  /\ PutHeaders(hdr, hs, fs)[b] = v /\ PutHeaders(hdr, hs, fs)[next] = w
           /\ PutFooters(ftr, hs, fs)[StopOf(b) - FTR] = next
           /\ PutFooters(ftr, hs, fs)[next - FTR] = b
           /\ \A c \in blocks \ {b} :
                  /\ PutHeaders(hdr, hs, fs)[c] = hdr[c]
                  /\ PutFooters(ftr, hs, fs)[StopOf(c) - FTR] = ftr[StopOf(c) - FTR]
  <1>1. b \in Nat /\ StopOf(b) \in Nat /\ StopOf(b) <= MemSize
    BY Layout, Within, Constant
  <1>2. next \in Addr /\ b \in Addr /\ StopOf(b) - FTR \in Addr /\ next - FTR \in Addr
    BY <1>1, Constant DEF Addr
  <1>6. b # next /\ StopOf(b) - FTR # next - FTR
    BY <1>1
  <1>3. /\ DOMAIN hs = {b, next} /\ hs[b] = v /\ hs[next] = w
    BY <1>6 DEF Also, Write
  <1>4. /\ DOMAIN fs = {StopOf(b) - FTR, next - FTR}
        /\ fs[StopOf(b) - FTR] = next /\ fs[next - FTR] = b
    BY <1>6 DEF Also, Write
  <1>5. ASSUME NEW c \in blocks \ {b}
        PROVE  /\ PutHeaders(hdr, hs, fs)[c] = hdr[c]
               /\ PutFooters(ftr, hs, fs)[StopOf(c) - FTR] = ftr[StopOf(c) - FTR]
    <2>1. c \in Nat /\ StopOf(c) \in Nat /\ c + 3 <= StopOf(c)
      BY Layout
    <2>2. StopOf(b) <= c \/ StopOf(c) <= b
      BY Order
    <2>3. c \in Addr /\ StopOf(c) - FTR \in Addr
      BY ListWords
    <2>4. /\ c \notin DOMAIN hs /\ \A d \in DOMAIN hs : d + 2 <= c \/ c + 2 <= d
          /\ c \notin DOMAIN fs /\ c + 1 \notin DOMAIN fs /\ DOMAIN hs \subseteq Int
      BY <1>1, <1>3, <1>4, <2>1, <2>2
    <2>5. /\ StopOf(c) - FTR \notin DOMAIN fs
          /\ \A d \in DOMAIN hs : StopOf(c) - FTR # d /\ StopOf(c) - FTR # d + 1
      BY <1>1, <1>3, <1>4, <2>1, <2>2
    <2> QED
      BY <2>3, <2>4, <2>5, PutHeaderAt, PutFooterAt
  <1>7. PutHeaders(hdr, hs, fs)[b] = v /\ PutHeaders(hdr, hs, fs)[next] = w
    BY <1>2, <1>3, PutHeaderAt
  <1>8. /\ PutFooters(ftr, hs, fs)[StopOf(b) - FTR] = next
        /\ PutFooters(ftr, hs, fs)[next - FTR] = b
    <2>1. StopOf(b) - FTR \in DOMAIN fs /\ next - FTR \in DOMAIN fs
      BY <1>4
    <2>2. \A a \in Addr : a \in DOMAIN fs => PutFooters(ftr, hs, fs)[a] = fs[a]
      BY PutFooterAt
    <2> QED
      BY <1>2, <1>4, <2>1, <2>2
  <1> QED
    BY <1>5, <1>7, <1>8

\* The header before an aligned payload, which lies inside the block.
LEMMA InnerWrites ==
    ASSUME NEW hd, NEW ft, NEW inner \in Nat, NEW v, NEW a \in Addr
    PROVE  /\ a + 2 <= inner \/ inner + 2 <= a
              => PutHeaders(hd, Write(inner, v), NoWrite)[a] = hd[a]
           /\ a # inner /\ a # inner + 1
              => PutFooters(ft, Write(inner, v), NoWrite)[a] = ft[a]
  <1>1. DOMAIN Write(inner, v) = {inner} /\ DOMAIN NoWrite = {}
    BY DEF Write, NoWrite
  <1>2. a \in Int
    BY Constant DEF Addr
  <1> QED
    BY <1>1, <1>2, PutHeaderAt, PutFooterAt

\* The longer header, and the footer at the old end.
LEMMA ExtendWrites ==
    ASSUME List, end \in Nat, end <= MemSize, NEW b \in blocks, StopOf(b) = end, NEW v,
           NEW hs, hs = Write(b, v), NEW fs, fs = Write(StopOf(b) - FTR, b)
    PROVE  /\ PutHeaders(hdr, hs, fs)[b] = v
           /\ \A c \in blocks \ {b} :
                  /\ PutHeaders(hdr, hs, fs)[c] = hdr[c]
                  /\ PutFooters(ftr, hs, fs)[StopOf(c) - FTR] = ftr[StopOf(c) - FTR]
  <1>1. b \in Nat /\ b + 3 <= StopOf(b) /\ b \in Addr
    BY Layout
  <1>2. /\ DOMAIN hs = {b} /\ hs[b] = v /\ DOMAIN fs = {StopOf(b) - FTR}
    BY WriteIs
  <1>3. ASSUME NEW c \in blocks \ {b}
        PROVE  /\ PutHeaders(hdr, hs, fs)[c] = hdr[c]
               /\ PutFooters(ftr, hs, fs)[StopOf(c) - FTR] = ftr[StopOf(c) - FTR]
    <2>1. c \in Nat /\ StopOf(c) \in Nat /\ c + 3 <= StopOf(c)
      BY Layout
    <2>2. StopOf(b) <= c \/ StopOf(c) <= b
      BY Order
    <2>3. c \in Addr /\ StopOf(c) - FTR \in Addr
      BY ListWords
    <2>4. /\ c \notin DOMAIN hs /\ \A d \in DOMAIN hs : d + 2 <= c \/ c + 2 <= d
          /\ c \notin DOMAIN fs /\ c + 1 \notin DOMAIN fs /\ DOMAIN hs \subseteq Int
      BY <1>1, <1>2, <2>1, <2>2
    <2>5. /\ StopOf(c) - FTR \notin DOMAIN fs
          /\ \A d \in DOMAIN hs : StopOf(c) - FTR # d /\ StopOf(c) - FTR # d + 1
      BY <1>1, <1>2, <2>1, <2>2
    <2> QED
      BY <2>3, <2>4, <2>5, PutHeaderAt, PutFooterAt
  <1> QED
    BY <1>1, <1>2, <1>3, PutHeaderAt

\* The two headers of a merge of a and b, of which the first one stays, and
\* the footer at the end of b, which is made to name a.
LEMMA MergeWrites ==
    ASSUME List, end \in Nat, end <= MemSize, NEW a \in blocks, NEW b \in blocks,
           StopOf(a) = b,
           NEW hs, a \in DOMAIN hs, \A d \in DOMAIN hs : d = a \/ d = b,
           NEW fs, fs = Write(StopOf(b) - FTR, a)
    PROVE  /\ PutHeaders(hdr, hs, fs)[a] = hs[a]
           /\ PutFooters(ftr, hs, fs)[StopOf(b) - FTR] = a
           /\ \A c \in blocks \ {a, b} :
                  /\ PutHeaders(hdr, hs, fs)[c] = hdr[c]
                  /\ PutFooters(ftr, hs, fs)[StopOf(c) - FTR] = ftr[StopOf(c) - FTR]
  <1>1. /\ a \in Nat /\ a + 3 <= b /\ a \in Addr
        /\ b \in Nat /\ b + 3 <= StopOf(b) /\ b \in Addr /\ StopOf(b) \in Nat
    BY Layout
  <1>2. DOMAIN fs = {StopOf(b) - FTR} /\ fs[StopOf(b) - FTR] = a
    BY WriteIs
  <1>3. ASSUME NEW c \in blocks \ {a, b}
        PROVE  /\ PutHeaders(hdr, hs, fs)[c] = hdr[c]
               /\ PutFooters(ftr, hs, fs)[StopOf(c) - FTR] = ftr[StopOf(c) - FTR]
    <2>1. c \in Nat /\ StopOf(c) \in Nat /\ c + 3 <= StopOf(c)
      BY Layout
    <2>2. StopOf(b) <= c \/ StopOf(c) <= a
      BY <1>1, <2>1, Order
    <2>3. c \in Addr /\ StopOf(c) - FTR \in Addr
      BY ListWords
    <2>4. /\ c \notin DOMAIN hs /\ \A d \in DOMAIN hs : d + 2 <= c \/ c + 2 <= d
          /\ c \notin DOMAIN fs /\ c + 1 \notin DOMAIN fs /\ DOMAIN hs \subseteq Int
      BY <1>1, <1>2, <2>1, <2>2
    <2>5. /\ StopOf(c) - FTR \notin DOMAIN fs
          /\ \A d \in DOMAIN hs : StopOf(c) - FTR # d /\ StopOf(c) - FTR # d + 1
      BY <1>1, <1>2, <2>1, <2>2
    <2> QED
      BY <2>3, <2>4, <2>5, PutHeaderAt, PutFooterAt
  <1>4. StopOf(b) - FTR \in Addr
    BY ListWords
  <1>5. a \in DOMAIN hs
    OBVIOUS
  <1> QED
    BY <1>1, <1>2, <1>3, <1>4, <1>5, PutHeaderAt, PutFooterAt

\* Only the header of the freed block is written.
LEMMA FreeWrites ==
    ASSUME List, end \in Nat, end <= MemSize, NEW b \in blocks,
           NEW hs, b \in DOMAIN hs, \A d \in DOMAIN hs : d = b
    PROVE  /\ PutHeaders(hdr, hs, NoWrite)[b] = hs[b]
           /\ \A c \in blocks \ {b} : PutHeaders(hdr, hs, NoWrite)[c] = hdr[c]
           /\ \A c \in blocks :
                  PutFooters(ftr, hs, NoWrite)[StopOf(c) - FTR] = ftr[StopOf(c) - FTR]
  <1>1. DOMAIN NoWrite = {} /\ b \in Nat /\ b \in Addr
    BY Layout DEF NoWrite
  <1>2. ASSUME NEW c \in blocks \ {b} PROVE PutHeaders(hdr, hs, NoWrite)[c] = hdr[c]
    <2>1. c \in Nat /\ c \in Addr /\ (b + 2 <= c \/ c + 2 <= b)
      BY Order, Layout
    <2> QED
      BY <1>1, <2>1, PutHeaderAt
  <1>3. ASSUME NEW c \in blocks
        PROVE  PutFooters(ftr, hs, NoWrite)[StopOf(c) - FTR] = ftr[StopOf(c) - FTR]
    <2>1. StopOf(c) - FTR # b /\ StopOf(c) - FTR # b + 1 /\ StopOf(c) - FTR \in Addr
      BY Order, Layout, ListWords
    <2> QED
      BY <1>1, <2>1, PutFooterAt
  <1> QED
    BY <1>1, <1>2, <1>3, PutHeaderAt

-----------------------------------------------------------------------------
(* What tasks own. *)

\* A table has one home, which is in use.
LEMMA TableHome ==
    ASSUME Owners, NEW p \in tables
    PROVE  \E c \in blocks : ~hdr[c].hole /\ Holds(c, p)
  BY DEF Owners

\* No owner's block changes, except that the last block may grow: freed is the
\* block that kfree takes back.
LEMMA OwnersKept ==
    ASSUME List, Owners, List', tables \subseteq Nat, tables' = tables,
           NEW freed,
           \A c \in blocks : ~hdr[c].hole /\ c \notin freed
               => /\ c \in blocks' /\ ~hdr'[c].hole /\ hdr'[c].size >= hdr[c].size
                  /\ ~hdr[c].last => hdr'[c] = hdr[c],
           \A y \in live' : y \in live /\ BlockOf(y) \notin freed,
           \A p \in tables, c \in freed : ~Holds(c, p)
    PROVE  Owners'
  <1>1. ASSUME NEW p \in tables
        PROVE  \E c \in blocks : /\ c \in blocks' /\ ~hdr[c].hole /\ ~hdr'[c].hole
                                 /\ Holds(c, p) /\ Holds(c, p)'
    <2>1. PICK c \in blocks : ~hdr[c].hole /\ Holds(c, p)
      BY <1>1, TableHome
    <2>2. c \notin freed
      BY <1>1, <2>1
    <2>3. c \in blocks' /\ ~hdr'[c].hole /\ hdr'[c].size >= hdr[c].size
      BY <2>1, <2>2
    <2>4. StopOf(c) <= StopOf(c)' /\ StopOf(c)' \in Nat /\ StopOf(c) \in Nat /\ c \in Nat
      <3>1. c \in Nat /\ hdr[c].size \in Nat /\ hdr'[c].size \in Nat
        BY <2>3, Layout DEF List, Header
      <3> QED
        BY <2>3, <3>1 DEF StopOf
    <2>5. Holds(c, p)'
      BY <1>1, <2>1, <2>4, Constant DEF Holds
    <2> QED
      BY <2>1, <2>3, <2>5
  <1>2. ASSUME NEW b \in blocks', NEW p \in tables, Holds(b, p)'
        PROVE  b \in blocks /\ ~hdr[b].hole /\ Holds(b, p)
    <2>1. PICK c \in blocks : c \in blocks' /\ ~hdr[c].hole /\ Holds(c, p) /\ Holds(c, p)'
      BY <1>1
    <2>2. \A d, e \in blocks' : Holds(d, p)' /\ Holds(e, p)' => d = e
      <3> SUFFICES ASSUME NEW d \in blocks', NEW e \in blocks', Holds(d, p)', Holds(e, p)'
                   PROVE  d = e
        OBVIOUS
      <3>1. /\ d \in Nat /\ e \in Nat
            /\ hdr'[d].size \in Nat /\ hdr'[e].size \in Nat
            /\ d < e => StopOf(d)' <= e
            /\ e < d => StopOf(e)' <= d
        BY DEF List, Header, Addr
      <3>2. p \in Nat
        OBVIOUS
      <3>3. StopOf(d)' \in Nat /\ StopOf(e)' \in Nat
        BY <3>1 DEF StopOf
      <3> QED
        BY <3>1, <3>2, <3>3, Constant DEF Holds
    <2> QED
      BY <1>2, <2>1, <2>2
  <1>3. \A y \in live' : /\ BlockOf(y) \in blocks'
                         /\ ~hdr'[BlockOf(y)].hole /\ ~hdr'[BlockOf(y)].last
                         /\ hdr'[BlockOf(y)].size = FullSize(y.size)
    BY DEF Owners
  <1>4. \A p \in tables', y \in live' : ~Holds(BlockOf(y), p)'
    BY <1>2, <1>3 DEF Owners
  <1>5. \A p, q \in tables', b \in blocks' : Holds(b, p)' /\ Holds(b, q)' => p = q
    BY <1>2 DEF Owners
  <1> QED
    BY <1>1, <1>3, <1>4, <1>5 DEF Owners, BlockOf

\* The hole b is handed out, to a task or as a page table.
LEMMA OwnersTaken ==
    ASSUME List, Owners, List', tables \subseteq Nat, tables' \subseteq Nat,
           NEW b \in blocks, hdr[b].hole, b \in blocks', ~hdr'[b].hole,
           \A c \in blocks : ~hdr[c].hole => c \in blocks' /\ hdr'[c] = hdr[c],
           \/ /\ tables' = tables
              /\ \E y : /\ live' = live \union {y} /\ BlockOf(y) = b
                        /\ ~hdr'[b].last /\ hdr'[b].size = FullSize(y.size)
           \/ /\ live' = live
              /\ \E q : tables' = tables \union {q} /\ Holds(b, q)'
    PROVE  Owners'
  <1>1. ASSUME NEW p \in tables
        PROVE  \E c \in blocks : /\ c \in blocks' /\ ~hdr[c].hole /\ ~hdr'[c].hole
                                 /\ Holds(c, p) /\ Holds(c, p)'
    <2>1. PICK c \in blocks : ~hdr[c].hole /\ Holds(c, p)
      BY <1>1, TableHome
    <2> QED
      BY <2>1 DEF Holds, StopOf
  <1>2. \A d, e \in blocks', p \in Nat : Holds(d, p)' /\ Holds(e, p)' => d = e
    <2> SUFFICES ASSUME NEW d \in blocks', NEW e \in blocks', NEW p \in Nat,
                        Holds(d, p)', Holds(e, p)'
                 PROVE  d = e
      OBVIOUS
    <2>1. /\ d \in Nat /\ e \in Nat
          /\ hdr'[d].size \in Nat /\ hdr'[e].size \in Nat
          /\ d < e => StopOf(d)' <= e
          /\ e < d => StopOf(e)' <= d
      BY DEF List, Header, Addr
    <2>2. StopOf(d)' \in Nat /\ StopOf(e)' \in Nat
      BY <2>1 DEF StopOf
    <2> QED
      BY <2>1, <2>2, Constant DEF Holds
  <1>3. ASSUME NEW d \in blocks', NEW p \in tables, Holds(d, p)'
        PROVE  d \in blocks /\ d # b /\ Holds(d, p)
    <2>1. PICK c \in blocks : c \in blocks' /\ ~hdr[c].hole /\ Holds(c, p) /\ Holds(c, p)'
      BY <1>1
    <2> QED
      BY <1>2, <1>3, <2>1
  <1>4. \A y \in live : /\ BlockOf(y) \in blocks' /\ BlockOf(y) # b
                        /\ ~hdr'[BlockOf(y)].hole /\ ~hdr'[BlockOf(y)].last
                        /\ hdr'[BlockOf(y)].size = FullSize(y.size)
    BY DEF Owners
  <1>5. \A p \in tables, y \in live : ~Holds(BlockOf(y), p)'
    BY <1>3, <1>4 DEF Owners
  <1>6. \A p, q \in tables, c \in blocks' : Holds(c, p)' /\ Holds(c, q)' => p = q
    BY <1>3 DEF Owners
  <1>7. \A p \in tables : \E c \in blocks' : ~hdr'[c].hole /\ Holds(c, p)'
    BY <1>1
  <1>8. CASE /\ tables' = tables
             /\ \E y : /\ live' = live \union {y} /\ BlockOf(y) = b
                       /\ ~hdr'[b].last /\ hdr'[b].size = FullSize(y.size)
    <2>1. PICK y : /\ live' = live \union {y} /\ BlockOf(y) = b
                   /\ ~hdr'[b].last /\ hdr'[b].size = FullSize(y.size)
      BY <1>8
    <2>2. \A p \in tables : ~Holds(BlockOf(y), p)'
      BY <1>3, <2>1
    <2> QED
      BY <1>4, <1>5, <1>6, <1>7, <1>8, <2>1, <2>2 DEF Owners, BlockOf
  <1>9. CASE /\ live' = live
             /\ \E q : tables' = tables \union {q} /\ Holds(b, q)'
    <2>1. PICK q : tables' = tables \union {q} /\ Holds(b, q)'
      BY <1>9
    <2>2. \A y \in live : ~Holds(BlockOf(y), q)'
      BY <1>2, <1>4, <2>1
    <2>3. \A p \in tables, c \in blocks' : ~(Holds(c, p)' /\ Holds(c, q)')
      BY <1>2, <1>3, <2>1
    <2> QED
      BY <1>4, <1>5, <1>6, <1>7, <1>9, <2>1, <2>2, <2>3 DEF Owners, BlockOf
  <1> QED
    BY <1>8, <1>9

-----------------------------------------------------------------------------
(* Pages. *)

\* The words of the heap can be read and written.
LEMMA HeapWords ==
    ASSUME Pages, NEW a \in Nat, a < end
    PROVE  PageOf(a) \in Mapped
  <1>1. PageOf(end) \in Int /\ PageOf(a) \in Int
    BY PageIs DEF Pages
  <1>2. PageOf(a) < PageOf(end)
    BY <1>1, PageBelow DEF Pages
  <1>3. a \in Addr
    BY Constant DEF Pages, Addr
  <1>4. PageOf(a) \in Page
    BY <1>3, AddrPage
  <1> QED
    BY <1>2, <1>4 DEF Pages

\* What lies behind the heap can not, unless alloc_page has just mapped it.
LEMMA BehindEnd ==
    ASSUME Pages, \A t \in Tasks : pc[t] # "extend"
    PROVE  ~Sound(end) /\ ~AllMapped(HeaderWords(end))
  <1>1. PageOf(end) \notin Mapped
    BY PageIs DEF Pages
  <1>2. end \in HeaderWords(end)
    BY DEF Pages, HeaderWords
  <1> QED
    BY <1>1, <1>2 DEF Sound, AllMapped

\* heap_malloc can read the header of every block of the list.
LEMMA BlockSound ==
    ASSUME List, Pages, NEW b \in blocks
    PROVE  Sound(b)
  <1>1. b \in Nat /\ b + 3 <= end /\ end \in Nat /\ hdr[b] # NoHeader
    BY Layout, Within DEF Pages
  <1>2. \A a \in HeaderWords(b) : a \in Nat /\ a < end
    BY <1>1 DEF HeaderWords
  <1> QED
    BY <1>1, <1>2, HeapWords DEF Sound, AllMapped

\* Pages holds on while neither the directory nor the heap grows.
LEMMA PagesKept ==
    ASSUME Pages, dir' = dir, end' = end,
           (\E t \in Tasks : pc'[t] = "extend") <=> (\E t \in Tasks : pc[t] = "extend")
    PROVE  Pages'
  <1>1. Mapped' = Mapped
    BY DEF Mapped
  <1> QED
    BY <1>1 DEF Pages

-----------------------------------------------------------------------------
(* Who runs. *)

\* Who is in kmalloc is there alone.
LEMMA OthersIdle ==
    ASSUME Alone, NEW t \in Tasks, pc[t] # "idle"
    PROVE  \A u \in Tasks \ {t} : pc[u] = "idle"
  BY DEF Alone

\* No task is in kmalloc when another one comes.
LEMMA AllIdle ==
    ASSUME Alone, Quiet, malloc_mtx = Free
    PROVE  \A u \in Tasks : pc[u] = "idle"
  BY DEF Alone, Quiet

\* The one task in kmalloc goes on: the others stay where they are.
LEMMA AloneMoves ==
    ASSUME NEW l, NEW t \in Tasks, \A u \in Tasks \ {t} : pc[u] = "idle",
           TypeOK, pc' = [pc EXCEPT ![t] = l],
           malloc_mtx' = Free => l \in {"idle", "table_lock", "relock"}
    PROVE  /\ Alone' /\ pc'[t] = l
           /\ \A u \in Tasks \ {t} : pc'[u] = "idle"
           /\ Walk(t)' => Walks'
  <1>1. pc'[t] = l /\ \A u \in Tasks \ {t} : pc'[u] = "idle"
    BY DEF TypeOK
  <1>2. Alone'
    BY <1>1 DEF Alone
  <1>3. \A u \in Tasks \ {t} : Walk(u)'
    BY <1>1 DEF Walk, Growing, Tabling
  <1> QED
    BY <1>1, <1>2, <1>3 DEF Walks

\* A task outside kmalloc has no cursor to speak of.
LEMMA IdleWalks ==
    ASSUME NEW t, pc'[t] = "idle"
    PROVE  Walk(t)'
  BY DEF Walk, Growing, Tabling

\* The list, its owners and the memory are left alone.
LEMMA ListKept ==
    ASSUME Shape, Owners, UNCHANGED <<hdr, ftr, blocks, end, live, tables>>
    PROVE  /\ Shape' /\ Owners' /\ LastKnown' = LastKnown
           /\ \A b : StopOf(b)' = StopOf(b)
  <1>1. \A b : StopOf(b)' = StopOf(b)
    BY DEF StopOf
  <1>2. \A b, p : Holds(b, p)' = Holds(b, p)
    BY <1>1 DEF Holds
  <1>3. Shape'
    BY <1>1 DEF Shape, List, FootersName, NoTwoHoles
  <1>4. Owners'
    BY <1>1, <1>2 DEF Owners
  <1>5. LastKnown' = LastKnown
    BY <1>1 DEF LastKnown
  <1> QED
    BY <1>1, <1>3, <1>4, <1>5

-----------------------------------------------------------------------------
(* The steps, one lemma per operation. *)

\* The walk of a task in heap_malloc stands on a block, or behind the heap.
LEMMA CursorIs ==
    ASSUME TypeOK, Intact, NEW t \in Tasks, Scanning(t) \/ At(t, "extend")
    PROVE  /\ Sound(Cursor(t)) <=> Cursor(t) \in blocks
           /\ Cursor(t) \in blocks \/ (Cursor(t) = end /\ ~LastKnown)
           /\ ~Sound(Cursor(t)) => /\ Cursor(t) = end /\ ~LastKnown
                                   /\ ~AllMapped(HeaderWords(Cursor(t)))
  <1>1. pc[t] # "idle" /\ Walk(t)
    BY DEF Scanning, At, Intact, Walks
  <1>2. Cursor(t) \in blocks \/ (pc[t] = "scan" /\ Cursor(t) = end /\ ~LastKnown)
    BY <1>1 DEF Scanning, At, Cursor, Aligned, Walk, Growing, Tabling
  <1>3. CASE Cursor(t) \in blocks
    BY <1>2, <1>3, BlockSound DEF Intact, Shape
  <1>4. CASE pc[t] = "scan" /\ Cursor(t) = end /\ ~LastKnown
    <2>1. \A u \in Tasks : pc[u] # "extend"
      BY <1>4, OthersIdle DEF Intact
    <2>2. end \notin blocks
      BY Layout, Within DEF Intact, Shape, List
    <2> QED
      BY <1>4, <2>1, <2>2, BehindEnd DEF Intact
  <1> QED
    BY <1>2, <1>3, <1>4

\* kmalloc begins.
LEMMA StepMalloc ==
    ASSUME TypeOK, Intact, Quiet, NEW t \in Tasks, NEW n \in Sizes, Malloc(t, n)
    PROVE  Intact' /\ LastKnown' = LastKnown
  <1>1. \A u \in Tasks : pc[u] = "idle"
    BY AllIdle DEF Malloc, Lock, Intact
  <1>2. pc' = [pc EXCEPT ![t] = "scan"] /\ malloc_mtx' = Held
    BY DEF Malloc, Goto, Lock
  <1>3. /\ Shape' /\ Owners' /\ LastKnown' = LastKnown
    BY ListKept DEF Malloc, memory, ghost, Intact
  <1>4. /\ Alone' /\ pc'[t] = "scan" /\ \A u \in Tasks \ {t} : pc'[u] = "idle"
        /\ Walk(t)' => Walks'
    <2>1. malloc_mtx' # Free
      BY <1>2 DEF Free, Held
    <2> QED
      BY <1>1, <1>2, <2>1, AloneMoves
  <1>5. Pages'
    BY <1>1, <1>4, PagesKept DEF Malloc, ghost, Intact
  <1>6. Walk(t)'
    <2>1. h'[t] = HeapStart
      BY DEF Malloc, TypeOK
    <2> QED
      BY <1>3, <1>4, <2>1 DEF Walk, Growing, Tabling, Shape, List
  <1> QED
    BY <1>3, <1>4, <1>5, <1>6 DEF Intact

\* heap_malloc walks on: adding the size leads to the next block, or to the end if
\* no block is flagged as last.
LEMMA StepSkipBlock ==
    ASSUME TypeOK, Intact, NEW t \in Tasks, SkipBlock(t)
    PROVE  Intact' /\ LastKnown' = LastKnown
  <1> DEFINE c == Cursor(t)
  <1>1. c \in blocks /\ ~hdr[c].last
    BY CursorIs DEF SkipBlock
  <1>2. /\ Shape' /\ Owners' /\ LastKnown' = LastKnown
    BY ListKept DEF SkipBlock, memory, ghost, Intact
  <1>3. Pages' /\ Alone'
    BY PagesKept DEF SkipBlock, ghost, Intact, Alone
  <1>4. StopOf(c) \in blocks \/ (StopOf(c) = end /\ ~LastKnown)
    BY <1>1, LastIs, Layout DEF Intact, Shape
  <1>5. pc[t] \in {"scan", "table_scan"} /\ \A u \in Tasks \ {t} : pc[u] = "idle"
    BY OthersIdle DEF SkipBlock, Scanning, At, Intact
  <1>6. Walk(t)'
    <2>1. pc' = pc /\ page' = page /\ dir' = dir /\ end' = end /\ blocks' = blocks /\ table' = table
      BY DEF SkipBlock, ghost
    <2>2. CASE pc[t] = "scan"
      <3>1. h'[t] = StopOf(c)
        BY <2>2 DEF SkipBlock, Aligned, StopOf, TypeOK
      <3> QED
        BY <1>2, <1>4, <2>1, <2>2, <3>1 DEF Walk, Growing, Tabling
    <2>3. CASE pc[t] = "table_scan"
      <3>1. ih'[t] = StopOf(c) /\ h'[t] = h[t]
        BY <2>3 DEF SkipBlock, Aligned, StopOf, TypeOK
      <3>2. Walk(t)
        BY DEF Intact, Walks
      <3>3. LastKnown /\ StopOf(c) \in blocks
        BY <1>4, <2>3, <3>2 DEF Walk, Growing, Tabling
      <3> QED
        BY <1>2, <2>1, <2>3, <3>1, <3>2, <3>3 DEF Walk, Growing, Tabling, DirOf
    <2> QED
      BY <1>5, <2>2, <2>3
  <1>7. \A u \in Tasks \ {t} : Walk(u)'
    BY <1>5, IdleWalks DEF SkipBlock
  <1> QED
    BY <1>2, <1>3, <1>6, <1>7 DEF Intact, Walks

\* new_full_size in the block the cursor stands on.
NeedOf(t) == Need(Cursor(t), Wanted(t), Aligned(t))

\* A request that is not page-aligned never takes the last block whole.
LEMMA FitsIs ==
    ASSUME TypeOK, Intact, NEW t \in Tasks, Cursor(t) \in blocks, Fits(t)
    PROVE  LET b == Cursor(t)
               need == NeedOf(t)
           IN  /\ hdr[b].hole /\ need \in Nat /\ need >= 3
               /\ hdr[b].size = need \/ hdr[b].size - need >= 3
               /\ hdr[b].size = need /\ ~Aligned(t) => ~hdr[b].last
               /\ ~Aligned(t) => need = FullSize(req[t])
               /\ Aligned(t) => need = PAGE + 3 + Boundary(b) - b
               /\ Boundary(b) \in Nat /\ b + HDR < Boundary(b)
  <1> DEFINE b == Cursor(t)
             need == Need(b, Wanted(t), Aligned(t))
  <1>0. need = NeedOf(t)
    BY DEF NeedOf
  <1>1. b \in Nat /\ need \in Nat /\ need >= 3
    BY Numbers
  <1>2. Boundary(b) \in Nat /\ b + HDR < Boundary(b)
    BY <1>1, Above DEF Boundary
  <1>3. /\ hdr[b].hole
        /\ hdr[b].size = need \/ hdr[b].size - need >= 3
        /\ Aligned(t) \/ ~hdr[b].last \/ CouldFitPageTable(hdr[b], b, need)
    BY DEF Fits, Usable
  <1>4. CouldFitPageTable(hdr[b], b, need) => hdr[b].size # need
    <2>1. AlignUp(b + need) \in Int /\ AlignUp(b + need) > b + need
      BY <1>1, Above
    <2>2. CouldFitPageTable(hdr[b], b, need)
            => hdr[b].size >= PAGE + (AlignUp(b + need) - (b + need)) + FTR + need
      BY DEF CouldFitPageTable
    <2> QED
      BY <1>1, <2>1, <2>2, Constant
  <1>5. ~Aligned(t) => need = FullSize(req[t])
    BY Numbers DEF Need, Wanted, FullSize
  <1>6. Aligned(t) => need = PAGE + 3 + Boundary(b) - b
    BY <1>1, <1>2, PageSize DEF Need, Wanted
  <1> QED
    BY <1>0, <1>1, <1>2, <1>3, <1>4, <1>5, <1>6

\* heap_malloc returns, to its caller or to alloc_page.
LEMMA ReturnMoves ==
    ASSUME TypeOK, Intact, NEW t \in Tasks, Scanning(t), NEW ptr, Return(t, ptr),
           Shape', Owners', LastKnown' = LastKnown, blocks \subseteq blocks'
    PROVE  Intact'
  <1>1. pc[t] \in {"scan", "table_scan"} /\ \A u \in Tasks \ {t} : pc[u] = "idle"
    BY OthersIdle DEF Scanning, At, Intact
  <1>2. pc' = [pc EXCEPT ![t] = IF Aligned(t) THEN "relock" ELSE "idle"]
    BY DEF Return, Goto
  <1>3. /\ Alone' /\ pc'[t] = (IF Aligned(t) THEN "relock" ELSE "idle")
        /\ \A u \in Tasks \ {t} : pc'[u] = "idle"
        /\ Walk(t)' => Walks'
    BY <1>1, <1>2, AloneMoves
  <1>4. Pages'
    BY <1>1, <1>3, PagesKept DEF Return, Intact
  <1>5. Walk(t)'
    <2>1. CASE ~Aligned(t)
      BY <1>3, <2>1, IdleWalks
    <2>2. CASE Aligned(t)
      <3>1. table'[t] = ptr /\ ptr \in tables'
        BY <2>2 DEF Return, TypeOK
      <3>2. Walk(t) /\ pc[t] = "table_scan"
        BY <2>2 DEF Intact, Walks, Aligned
      <3>3. pc'[t] = "relock"
        BY <1>3, <2>2
      <3>4. h' = h /\ page' = page /\ end' = end /\ dir' = dir
        BY DEF Return
      <3> QED
        BY <3>1, <3>2, <3>3, <3>4 DEF Walk, Growing, Tabling, DirOf
    <2> QED
      BY <2>1, <2>2
  <1> QED
    BY <1>3, <1>4, <1>5 DEF Intact

\* heap_malloc takes a hole of the exact size.
LEMMA StepTakeWhole ==
    ASSUME TypeOK, TypeOK', Intact, NEW t \in Tasks, TakeWhole(t),
           NEW b, b = Cursor(t), NEW need, need = NeedOf(t)
    PROVE  Intact' /\ LastKnown' = LastKnown
  <1>1. b \in blocks /\ Scanning(t) /\ Fits(t) /\ hdr[b].size = need
    BY CursorIs DEF TakeWhole, NeedOf
  <1>2. /\ hdr[b].hole /\ (~Aligned(t) => ~hdr[b].last /\ need = FullSize(req[t]))
        /\ Aligned(t) => need = PAGE + 3 + Boundary(b) - b
        /\ Boundary(b) \in Nat /\ b + HDR < Boundary(b)
    BY <1>1, FitsIs
  <1>3. b \in Nat /\ b \in Addr /\ hdr[b] \in Header
    BY <1>1, Layout DEF Intact, Shape
  <1>4. /\ hdr' = [hdr EXCEPT ![b].hole = FALSE] /\ ftr' = ftr /\ blocks' = blocks
        /\ end' = end
    BY DEF TakeWhole, Return
  <1>5. /\ hdr'[b] = [hdr[b] EXCEPT !.hole = FALSE]
        /\ \A c \in blocks \ {b} : hdr'[c] = hdr[c]
    BY <1>3, <1>4, Layout DEF Intact, Shape, TypeOK
  <1>6. /\ hdr'[b] \in Header /\ hdr'[b].size = hdr[b].size
        /\ hdr'[b].last = hdr[b].last /\ ~hdr'[b].hole
    BY <1>3, <1>5 DEF Header
  <1>7. /\ Shape' /\ LastKnown' = LastKnown /\ \A c \in blocks : StopOf(c)' = StopOf(c)
    <2>1. \A c \in blocks : /\ hdr'[c] \in Header /\ hdr'[c].size = hdr[c].size
                            /\ hdr'[c].last = hdr[c].last
                            /\ hdr'[c].hole => hdr[c].hole
      BY <1>5, <1>6, Layout DEF Intact, Shape
    <2> QED
      BY <1>4, <2>1, SameShape DEF Intact, Pages
  <1>8. Owners'
    <2>1. \A c \in blocks : ~hdr[c].hole => c \in blocks' /\ hdr'[c] = hdr[c]
      BY <1>2, <1>4, <1>5
    <2>2. CASE ~Aligned(t)
      <3> DEFINE y == [ptr |-> b + HDR, size |-> req[t]]
      <3>1. live' = live \union {y} /\ tables' = tables
        BY <2>2 DEF TakeWhole, Return
      <3>2. BlockOf(y) = b /\ ~hdr'[b].last /\ hdr'[b].size = FullSize(y.size)
        BY <1>1, <1>2, <1>3, <1>6, <2>2 DEF BlockOf
      <3> HIDE DEF y
      <3>3. /\ List /\ Owners /\ List' /\ tables \subseteq Nat /\ tables' \subseteq Nat
        BY <1>7 DEF Intact, Shape, TypeOK
      <3> QED
        BY <1>1, <1>2, <1>4, <1>6, <2>1, <3>1, <3>2, <3>3, OwnersTaken
    <2>3. CASE Aligned(t)
      <3>1. live' = live /\ tables' = tables \union {b + HDR}
        BY <2>3 DEF TakeWhole, Return
      <3>2. Holds(b, b + HDR)'
        <4>1. StopOf(b)' = b + need
          BY <1>1, <1>6, <1>7 DEF StopOf
        <4>2. need \in Int /\ need >= PAGE + HDR + FTR
          <5>1. need = PAGE + 3 + Boundary(b) - b
            BY <1>2, <2>3
          <5> QED
            BY <1>2, <1>3, <5>1, PageSize
        <4> QED
          BY <1>3, <4>1, <4>2, PageSize DEF Holds
      <3>3. /\ List /\ Owners /\ List' /\ tables \subseteq Nat /\ tables' \subseteq Nat
        BY <1>7 DEF Intact, Shape, TypeOK
      <3> QED
        BY <1>1, <1>2, <1>4, <1>6, <2>1, <3>1, <3>2, <3>3, OwnersTaken
    <2> QED
      BY <2>2, <2>3
  <1>9. Return(t, b + HDR)
    BY DEF TakeWhole
  <1> QED
    BY <1>1, <1>4, <1>7, <1>8, <1>9, ReturnMoves

\* heap_malloc splits a hole, or faults because the last flag was lost; an aligned
\* request must not write its second header over the first (torn).
LEMMA StepSplitHole ==
    ASSUME TypeOK, TypeOK', Intact, ~torn, ~torn', NEW t \in Tasks, SplitHole(t),
           NEW b, b = Cursor(t), NEW need, need = NeedOf(t),
           NEW next, next = b + need, NEW inner, inner = Boundary(b) - HDR
    PROVE  Intact' /\ LastKnown' = LastKnown /\ status' = status
  <1> DEFINE stop  == b + hdr[b].size - FTR
             hs    == Also(Write(b, [size |-> need, hole |-> FALSE, last |-> FALSE]),
                           Write(next, [hdr[b] EXCEPT !.size = @ - need]))
             fs    == Also(Write(stop, next), Write(next - FTR, b))
             is    == Write(inner, [size |-> FullSize(PAGE), hole |-> FALSE, last |-> FALSE])
  <1>1. b \in blocks /\ Scanning(t) /\ Fits(t) /\ hdr[b].size # need
    BY CursorIs DEF SplitHole, NeedOf
  <1>2. /\ hdr[b].hole /\ (~Aligned(t) => need = FullSize(req[t]))
        /\ need \in Nat /\ need >= 3 /\ hdr[b].size - need >= 3
        /\ Aligned(t) => need = PAGE + 3 + Boundary(b) - b
        /\ Boundary(b) \in Nat /\ b + HDR < Boundary(b)
    BY <1>1, FitsIs
  <1>3. /\ b \in Nat /\ b \in Addr /\ hdr[b] \in Header /\ stop = StopOf(b) - FTR
        /\ next \in Nat /\ b + 3 <= next /\ next + 3 <= StopOf(b)
        /\ StopOf(b) \in Nat /\ StopOf(b) <= end /\ end \in Nat /\ end <= MemSize
    BY <1>1, <1>2, Layout, Within DEF Intact, Shape, Pages, StopOf
  <1>4. AllMapped(HeaderWords(next) \union DOMAIN fs)
    <2>1. DOMAIN fs = {stop, next - FTR}
      BY DEF Also, Write
    <2>2. \A a \in HeaderWords(next) \union DOMAIN fs : a \in Nat /\ a < end
      <3>1. \A a \in HeaderWords(next) : a \in Nat /\ a < end
        BY <1>3 DEF HeaderWords
      <3> QED
        BY <1>3, <2>1, <3>1
    <2> QED
      BY <2>2, HeapWords DEF AllMapped, Intact
  <1>5. /\ hdr' = IF Aligned(t) THEN PutHeaders(PutHeaders(hdr, hs, fs), is, NoWrite)
                  ELSE PutHeaders(hdr, hs, fs)
        /\ ftr' = IF Aligned(t) THEN PutFooters(PutFooters(ftr, hs, fs), is, NoWrite)
                  ELSE PutFooters(ftr, hs, fs)
        /\ Return(t, IF Aligned(t) THEN inner + HDR ELSE b + HDR)
        /\ blocks' = blocks \union {next}
        /\ torn' = (torn \/ (Aligned(t) /\ inner < b + HDR))
    BY <1>4 DEF SplitHole, NeedOf
  <1>6. Aligned(t) => inner \in Nat /\ b + HDR <= inner /\ inner + HDR + PAGE + FTR <= next
    <2> SUFFICES ASSUME Aligned(t)
                 PROVE  inner \in Nat /\ b + HDR <= inner /\ inner + HDR + PAGE + FTR <= next
      OBVIOUS
    <2>1. ~(inner < b + HDR)
      BY <1>5
    <2>2. inner \in Int
      BY <1>2
    <2>3. need = PAGE + 3 + Boundary(b) - b
      BY <1>2
    <2>6. b \in Nat /\ Boundary(b) \in Nat /\ PAGE \in Nat
      BY <1>2, <1>3, PageSize
    <2>4. next = PAGE + 3 + Boundary(b)
      BY <2>3, <2>6
    <2>5. b + HDR <= inner
      BY <1>3, <2>1, <2>2
    <2> QED
      <3>1. inner \in Nat
        BY <2>2, <2>5, <2>6
      <3>2. inner = Boundary(b) - 2
        OBVIOUS
      <3>3. inner + HDR + PAGE + FTR <= next
        BY <2>4, <2>6, <3>2
      <3> QED
        BY <2>5, <3>1, <3>3
  <1>7. /\ PutHeaders(hdr, hs, fs)[b] = [size |-> need, hole |-> FALSE, last |-> FALSE]
        /\ PutHeaders(hdr, hs, fs)[next] = [hdr[b] EXCEPT !.size = @ - need]
        /\ PutFooters(ftr, hs, fs)[StopOf(b) - FTR] = next
        /\ PutFooters(ftr, hs, fs)[next - FTR] = b
        /\ \A c \in blocks \ {b} :
               /\ PutHeaders(hdr, hs, fs)[c] = hdr[c]
               /\ PutFooters(ftr, hs, fs)[StopOf(c) - FTR] = ftr[StopOf(c) - FTR]
    BY <1>1, <1>3, SplitWrites DEF Intact, Shape
  <1> HIDE DEF hs, fs
  <1>8. next \in Addr /\ next - FTR \in Addr /\ StopOf(b) - FTR \in Addr
    BY <1>3, Constant DEF Addr
  <1>9. /\ hdr'[b] = [size |-> need, hole |-> FALSE, last |-> FALSE]
        /\ hdr'[next] = [hdr[b] EXCEPT !.size = @ - need]
        /\ ftr'[StopOf(b) - FTR] = next
        /\ ftr'[next - FTR] = b
        /\ \A c \in blocks \ {b} :
               /\ hdr'[c] = hdr[c]
               /\ ftr'[StopOf(c) - FTR] = ftr[StopOf(c) - FTR]
    <2>1. CASE ~Aligned(t)
      BY <1>5, <1>7, <2>1
    <2>2. CASE Aligned(t)
      <3>1. \A a \in Addr : /\ a + 2 <= inner \/ inner + 2 <= a
                               => hdr'[a] = PutHeaders(hdr, hs, fs)[a]
                            /\ a # inner /\ a # inner + 1
                               => ftr'[a] = PutFooters(ftr, hs, fs)[a]
        BY <1>5, <1>6, <2>2, InnerWrites
      <3>2. /\ inner \in Nat /\ b + 2 <= inner /\ inner + 2 + PAGE + 1 <= next /\ PAGE \in Nat
        BY <1>6, <2>2, Constant
      <3>3. /\ hdr'[b] = PutHeaders(hdr, hs, fs)[b] /\ hdr'[next] = PutHeaders(hdr, hs, fs)[next]
            /\ ftr'[StopOf(b) - FTR] = PutFooters(ftr, hs, fs)[StopOf(b) - FTR]
            /\ ftr'[next - FTR] = PutFooters(ftr, hs, fs)[next - FTR]
        <4>1. hdr'[b] = PutHeaders(hdr, hs, fs)[b]
          BY <1>3, <3>1, <3>2
        <4>2. hdr'[next] = PutHeaders(hdr, hs, fs)[next]
          BY <1>3, <1>8, <3>1, <3>2
        <4>3. ftr'[StopOf(b) - FTR] = PutFooters(ftr, hs, fs)[StopOf(b) - FTR]
          BY <1>3, <1>8, <3>1, <3>2
        <4>4. ftr'[next - FTR] = PutFooters(ftr, hs, fs)[next - FTR]
          BY <1>3, <1>8, <3>1, <3>2
        <4> QED
          BY <4>1, <4>2, <4>3, <4>4
      <3>4. ASSUME NEW c \in blocks \ {b}
            PROVE  /\ hdr'[c] = PutHeaders(hdr, hs, fs)[c]
                   /\ ftr'[StopOf(c) - FTR] = PutFooters(ftr, hs, fs)[StopOf(c) - FTR]
        <4>1. /\ c \in Nat /\ StopOf(c) \in Nat /\ c + 3 <= StopOf(c)
              /\ StopOf(b) <= c \/ StopOf(c) <= b
              /\ c \in Addr /\ StopOf(c) - FTR \in Addr
          BY <1>1, <1>3, Layout, Order, ListWords DEF Intact, Shape
        <4>2. c + 2 <= inner \/ inner + 2 <= c
          BY <1>3, <3>2, <4>1
        <4>3. StopOf(c) - FTR # inner /\ StopOf(c) - FTR # inner + 1
          BY <1>3, <3>2, <4>1
        <4> QED
          BY <3>1, <4>1, <4>2, <4>3
      <3> QED
        BY <1>7, <3>3, <3>4
    <2> QED
      BY <2>1, <2>2
  <1>10. end' = end
    BY <1>5 DEF Return
  <1>11. /\ Shape' /\ LastKnown' = LastKnown /\ StopOf(b)' = next
    <2>1. \A c \in blocks \ {b} : StopOf(c) # end => ftr'[StopOf(c) - FTR] = ftr[StopOf(c) - FTR]
      BY <1>9
    <2>2. \A c \in blocks \ {b} : hdr'[c] = hdr[c]
      BY <1>9
    <2>3. Shape /\ end \in Nat
      BY DEF Intact, Pages
    <2>4. blocks' = blocks \union {b + need} /\ b + need \in Addr
      BY <1>5, <1>8
    <2>5. ftr'[b + need - FTR] = b /\ ftr'[StopOf(b) - FTR] = b + need
      BY <1>2, <1>3, <1>9
    <2>6. hdr'[b + need] = [hdr[b] EXCEPT !.size = @ - need]
      BY <1>9
    <2> QED
      BY <1>1, <1>2, <1>9, <1>10, <2>1, <2>2, <2>3, <2>4, <2>5, <2>6, SplitShape
  <1>12. Owners'
    <2>1. \A c \in blocks : ~hdr[c].hole => c \in blocks' /\ hdr'[c] = hdr[c]
      BY <1>2, <1>5, <1>9
    <2>2. /\ List /\ Owners /\ List' /\ tables \subseteq Nat /\ tables' \subseteq Nat
          /\ b \in blocks' /\ ~hdr'[b].hole /\ ~hdr'[b].last /\ hdr'[b].size = need
      BY <1>1, <1>5, <1>9, <1>11 DEF Intact, Shape, TypeOK
    <2>3. CASE ~Aligned(t)
      <3> DEFINE y == [ptr |-> b + HDR, size |-> req[t]]
      <3>1. live' = live \union {y} /\ tables' = tables
        BY <1>5, <2>3 DEF Return
      <3>2. BlockOf(y) = b /\ hdr'[b].size = FullSize(y.size)
        BY <1>2, <1>3, <2>2, <2>3 DEF BlockOf
      <3> HIDE DEF y
      <3> QED
        BY <1>1, <1>2, <2>1, <2>2, <3>1, <3>2, OwnersTaken
    <2>4. CASE Aligned(t)
      <3>1. live' = live /\ tables' = tables \union {inner + HDR}
        BY <1>5, <2>4 DEF Return
      <3>2. Holds(b, inner + HDR)'
        <4>1. inner \in Nat /\ b + HDR <= inner /\ inner + HDR + PAGE + FTR <= next
          BY <1>6, <2>4
        <4> QED
          BY <1>3, <1>11, <4>1, PageSize DEF Holds
      <3> QED
        BY <1>1, <1>2, <2>1, <2>2, <3>1, <3>2, OwnersTaken
    <2> QED
      BY <2>3, <2>4
  <1>13. blocks \subseteq blocks'
    BY <1>5
  <1>14. Intact'
    BY <1>1, <1>5, <1>11, <1>12, <1>13, ReturnMoves
  <1>15. status' = status
    BY <1>5 DEF Return
  <1> QED
    BY <1>11, <1>14, <1>15

\* The machine halts.
LEMMA StepStop ==
    ASSUME Intact, NEW why, Stop(why)
    PROVE  Intact' /\ LastKnown' = LastKnown /\ torn' = torn /\ status' = why
  <1>1. /\ Shape' /\ Owners' /\ LastKnown' = LastKnown
    BY ListKept DEF Stop, memory, ghost, Intact
  <1>2. Pages'
    BY PagesKept DEF Stop, ghost, Intact
  <1>3. UNCHANGED <<malloc_mtx, dir, pc, h, ih, page, table, tables, blocks, end>>
    BY DEF Stop, ghost, frame
  <1>4. Alone'
    BY <1>3 DEF Alone, Intact
  <1>5. \A t \in Tasks : Walk(t) => Walk(t)'
    BY <1>1, <1>3 DEF Walk, DirOf
  <1> QED
    BY <1>1, <1>2, <1>4, <1>5 DEF Intact, Walks, Stop, ghost

\* The walk has reached the last block, so the page that is asked for is the one
\* behind the heap.
LEMMA StepScanEnds ==
    ASSUME TypeOK, Intact, NEW t \in Tasks, ScanEnds(t), ~Stop("no_table")
    PROVE  Intact' /\ LastKnown' = LastKnown
  <1> DEFINE c == Cursor(t)
  <1>1. c \in blocks /\ hdr[c].last /\ ~Aligned(t) /\ At(t, "scan")
    BY CursorIs DEF ScanEnds, Goto
  <1>2. StopOf(c) = end /\ c = h[t]
    BY <1>1 DEF Intact, Shape, List, Cursor
  <1>3. /\ Shape' /\ Owners' /\ LastKnown' = LastKnown
    BY ListKept DEF ScanEnds, Stop, memory, ghost, Intact
  <1>4. pc[t] = "scan" /\ \A u \in Tasks \ {t} : pc[u] = "idle"
    BY <1>1, OthersIdle DEF At, Intact
  <1>5. pc' = [pc EXCEPT ![t] = "grow"] /\ malloc_mtx' = malloc_mtx /\ malloc_mtx # Free
    BY <1>1, <1>4 DEF ScanEnds, Stop, Goto, Intact, Alone
  <1>6. /\ Alone' /\ pc'[t] = "grow" /\ \A u \in Tasks \ {t} : pc'[u] = "idle"
        /\ Walk(t)' => Walks'
    BY <1>4, <1>5, AloneMoves
  <1>7. Pages'
    BY <1>4, <1>6, PagesKept DEF ScanEnds, Stop, ghost, Intact
  <1>8. Walk(t)'
    <2>1. page'[t] = PageOf(StopOf(c)) /\ h' = h /\ end' = end /\ blocks' = blocks
      BY <1>1 DEF ScanEnds, Stop, StopOf, TypeOK, ghost
    <2>2. LastKnown
      BY <1>1, <1>2 DEF LastKnown
    <2> QED
      BY <1>1, <1>2, <1>3, <1>6, <2>1, <2>2 DEF Walk, Growing, Tabling
  <1> QED
    BY <1>3, <1>6, <1>7, <1>8 DEF Intact

\* alloc_page enters a page.
LEMMA MapAdds ==
    ASSUME TypeOK, NEW d \in Directory, NEW p, dir' = [dir EXCEPT ![d] = dir[d] \union {p}]
    PROVE  Mapped' = Mapped \union {p}
  <1>1. \A e \in Directory : dir'[e] = IF e = d THEN dir[d] \union {p} ELSE dir[e]
    BY DEF TypeOK
  <1> QED
    BY <1>1 DEF Mapped

\* alloc_page has mapped the page behind the heap.
LEMMA PagesAdded ==
    ASSUME Pages, NEW t \in Tasks, pc'[t] = "extend", \A u \in Tasks : pc[u] # "extend",
           PageOf(end) \in Page, Mapped' = Mapped \union {PageOf(end)}, end' = end
    PROVE  Pages'
  BY DEF Pages

\* alloc_page enters the page in its table.
LEMMA StepMapPage ==
    ASSUME TypeOK, Intact, Straight, NEW t \in Tasks, MapPage(t)
    PROVE  Intact' /\ LastKnown' = LastKnown /\ status' = status
  <1>1. pc[t] = "grow" /\ \A u \in Tasks \ {t} : pc[u] = "idle"
    BY OthersIdle DEF MapPage, At, Intact
  <1>9. /\ Goto(t, "grow", "extend")
        /\ dir' = [dir EXCEPT ![DirOf(t)] = @ \union {page[t]}]
        /\ UNCHANGED <<hdr, ftr, malloc_mtx, frame, live, tables, ghost, status>>
    <2>1. skewed[DirOf(t)] = NoPointer
      BY InDirectory DEF MapPage, DirOf, Straight
    <2>2. AllMapped({})
      BY DEF AllMapped
    <2>3. WipeHeaders(hdr, {}) = hdr /\ WipeFooters(ftr, {}) = ftr
      BY DEF TypeOK, WipeHeaders, WipeFooters
    <2> QED
      BY <2>1, <2>2, <2>3 DEF MapPage
  <1>2. pc' = [pc EXCEPT ![t] = "extend"] /\ malloc_mtx' = malloc_mtx /\ malloc_mtx # Free
    BY <1>1, <1>9 DEF Goto, Intact, Alone
  <1>3. /\ Shape' /\ Owners' /\ LastKnown' = LastKnown
    BY <1>9, ListKept DEF ghost, Intact
  <1>4. /\ Alone' /\ pc'[t] = "extend" /\ \A u \in Tasks \ {t} : pc'[u] = "idle"
        /\ Walk(t)' => Walks'
    BY <1>1, <1>2, AloneMoves
  <1>5. /\ page[t] = PageOf(end) /\ page[t] \in Page /\ DirOf(t) \in Directory
        /\ h[t] \in blocks /\ LastKnown
    BY <1>1, InDirectory DEF Intact, Walks, Walk, Growing, MapPage, DirOf
  <1>6. Pages'
    <2>1. Mapped' = Mapped \union {page[t]}
      BY <1>5, <1>9, MapAdds
    <2>2. end' = end /\ \A u \in Tasks : pc[u] # "extend"
      BY <1>1, <1>9 DEF ghost
    <2> QED
      BY <1>4, <1>5, <2>1, <2>2, PagesAdded DEF Intact
  <1>7. Walk(t)'
    <2>1. h' = h /\ page' = page /\ blocks' = blocks /\ end' = end
      BY <1>9 DEF frame, ghost
    <2> QED
      BY <1>3, <1>4, <1>5, <2>1 DEF Walk, Growing, Tabling
  <1> QED
    BY <1>3, <1>4, <1>6, <1>7, <1>9 DEF Intact

\* alloc_page has no table for the page and unlocks.
LEMMA StepNeedTable ==
    ASSUME TypeOK, Intact, NEW t \in Tasks, NeedTable(t)
    PROVE  Intact' /\ LastKnown' = LastKnown
  <1>1. pc[t] = "grow" /\ \A u \in Tasks \ {t} : pc[u] = "idle"
    BY OthersIdle DEF NeedTable, Goto, At, Intact
  <1>2. pc' = [pc EXCEPT ![t] = "table_lock"]
    BY <1>1 DEF NeedTable, Goto
  <1>3. /\ Shape' /\ Owners' /\ LastKnown' = LastKnown
    BY ListKept DEF NeedTable, memory, ghost, Intact
  <1>4. /\ Alone' /\ pc'[t] = "table_lock" /\ \A u \in Tasks \ {t} : pc'[u] = "idle"
        /\ Walk(t)' => Walks'
    BY <1>1, <1>2, AloneMoves
  <1>5. Pages'
    BY <1>1, <1>4, PagesKept DEF NeedTable, ghost, Intact
  <1>6. Walk(t)'
    <2>1. Walk(t)
      BY DEF Intact, Walks
    <2>2. h' = h /\ page' = page /\ blocks' = blocks /\ end' = end /\ dir' = dir
      BY DEF NeedTable, frame, ghost
    <2>3. dir[DirOf(t)] = NoTable /\ DirOf(t)' = DirOf(t)
      BY <2>2 DEF NeedTable, HasTable, DirOf
    <2> QED
      BY <1>1, <1>3, <1>4, <2>1, <2>2, <2>3 DEF Walk, Growing, Tabling
  <1> QED
    BY <1>3, <1>4, <1>5, <1>6 DEF Intact

\* kmalloc_a begins; Quiet has kept the mutex free and the list as it was.
LEMMA StepTableLock ==
    ASSUME TypeOK, Intact, NEW t \in Tasks, TableLock(t)
    PROVE  Intact' /\ LastKnown' = LastKnown
  <1>1. pc[t] = "table_lock" /\ \A u \in Tasks \ {t} : pc[u] = "idle"
    BY OthersIdle DEF TableLock, Goto, At, Intact
  <1>2. pc' = [pc EXCEPT ![t] = "table_scan"] /\ malloc_mtx' # Free
    BY <1>1 DEF TableLock, Goto, Lock, Free, Held
  <1>3. /\ Shape' /\ Owners' /\ LastKnown' = LastKnown
    BY ListKept DEF TableLock, memory, ghost, Intact
  <1>4. /\ Alone' /\ pc'[t] = "table_scan" /\ \A u \in Tasks \ {t} : pc'[u] = "idle"
        /\ Walk(t)' => Walks'
    BY <1>1, <1>2, AloneMoves
  <1>5. Pages'
    BY <1>1, <1>4, PagesKept DEF TableLock, ghost, Intact
  <1>6. Walk(t)'
    <2>1. Walk(t)
      BY DEF Intact, Walks
    <2>2. h' = h /\ page' = page /\ blocks' = blocks /\ end' = end /\ dir' = dir
      BY DEF TableLock, ghost
    <2>3. DirOf(t)' = DirOf(t) /\ ih'[t] = HeapStart
      BY <2>2 DEF TableLock, DirOf, TypeOK
    <2>4. HeapStart \in blocks
      BY DEF Intact, Shape, List
    <2> QED
      BY <1>1, <1>3, <1>4, <2>1, <2>2, <2>3, <2>4 DEF Walk, Growing, Tabling
  <1> QED
    BY <1>3, <1>4, <1>5, <1>6 DEF Intact

\* Whoever fills a payload or a page table leaves the list alone.
LEMMA FillKeeps ==
    ASSUME TypeOK, Intact, NEW b \in blocks, NEW words, words \subseteq Interior(b),
           hdr' = WipeHeaders(hdr, words), ftr' = WipeFooters(ftr, words),
           UNCHANGED <<blocks, end, live, tables>>
    PROVE  Shape' /\ Owners' /\ LastKnown' = LastKnown
  <1>1. /\ Shape /\ List /\ end \in Nat /\ end <= MemSize
    BY DEF Intact, Shape, Pages
  <1>2. \A c \in blocks : /\ hdr'[c] = hdr[c]
                          /\ ftr'[StopOf(c) - FTR] = ftr[StopOf(c) - FTR]
    BY <1>1, WipeKeeps
  <1>3. \A c \in blocks : hdr[c] \in Header
    BY <1>1, Layout
  <1>4. Shape' /\ LastKnown' = LastKnown
    BY <1>1, <1>2, <1>3, SameShape
  <1>5. Owners'
    <2>1. \A c \in blocks : ~hdr[c].hole /\ c \notin {}
              => /\ c \in blocks' /\ ~hdr'[c].hole /\ hdr'[c].size >= hdr[c].size
                 /\ ~hdr[c].last => hdr'[c] = hdr[c]
      BY <1>1, <1>2, Layout
    <2>2. tables \subseteq Nat /\ List' /\ Owners
      BY <1>4 DEF TypeOK, Shape, Intact
    <2>3. PICK none : none = {}
      OBVIOUS
    <2>4. /\ tables' = tables /\ \A y \in live' : y \in live /\ BlockOf(y) \notin none
          /\ \A p \in tables, c \in none : ~Holds(c, p)
      BY <2>3
    <2> QED
      BY <1>1, <2>1, <2>2, <2>3, <2>4, OwnersKept
  <1> QED
    BY <1>4, <1>5

\* What lies in a block can be written.
LEMMA InteriorMapped ==
    ASSUME Intact, NEW b \in blocks, NEW a \in Interior(b)
    PROVE  PageOf(a) \in Mapped
  <1>1. /\ b \in Nat /\ a \in Nat /\ a < StopOf(b)
    BY Layout DEF Interior, Intact, Shape
  <1>2. StopOf(b) \in Nat /\ StopOf(b) <= end /\ end \in Nat
    BY Layout, Within DEF Intact, Shape, Pages
  <1>3. a < end
    BY <1>1, <1>2
  <1> QED
    BY <1>1, <1>3, HeapWords DEF Intact

\* alloc_page clears the new table, which holds no word of the list.
LEMMA StepInstallTable ==
    ASSUME TypeOK, Intact, NEW t \in Tasks, InstallTable(t), ~torn'
    PROVE  Intact' /\ LastKnown' = LastKnown /\ status' = status
  <1> DEFINE words == table[t] .. table[t] + PAGE - 1
  <1>1. pc[t] = "relock" /\ \A u \in Tasks \ {t} : pc[u] = "idle"
    BY OthersIdle DEF InstallTable, At, Intact
  <1>3. /\ page[t] = PageOf(end) /\ page[t] \in Page /\ DirOf(t) \in Directory
        /\ h[t] \in blocks /\ LastKnown /\ table[t] \in tables /\ dir[DirOf(t)] = {}
    BY <1>1, InDirectory DEF Intact, Walks, Walk, Growing, Tabling, TypeOK, DirOf, NoTable
  <1>4. \E c \in blocks : words \subseteq Interior(c)
    <2>1. PICK c \in blocks : Holds(c, table[t])
      BY <1>3, TableHome DEF Intact
    <2>2. table[t] \in Nat /\ c \in Nat /\ StopOf(c) \in Nat
      BY <2>1, Layout DEF TypeOK, Intact, Shape
    <2>3. \A w \in words : w \in Nat /\ table[t] <= w /\ w + 1 <= table[t] + PAGE
      BY <2>2, PageSize
    <2>4. c + HDR <= table[t] /\ table[t] + PAGE + FTR <= StopOf(c)
      BY <2>1 DEF Holds
    <2> HIDE DEF words
    <2>5. \A w \in words : w \in Nat /\ c + HDR <= w /\ w < StopOf(c) - FTR
      BY <2>2, <2>3, <2>4, PageSize
    <2> QED
      BY <2>5 DEF Interior
  <1>9. AllMapped(words)
    <2>1. PICK c \in blocks : words \subseteq Interior(c)
      BY <1>4
    <2> QED
      BY <2>1, InteriorMapped DEF AllMapped
  <1>10. /\ Goto(t, "relock", "extend") /\ Lock(malloc_mtx)
         /\ hdr' = WipeHeaders(hdr, words) /\ ftr' = WipeFooters(ftr, words)
         /\ dir' = [dir EXCEPT ![DirOf(t)] = {page[t]}]
         /\ UNCHANGED <<frame, live, tables, blocks, end, status>>
    BY <1>9 DEF InstallTable
  <1>2. pc' = [pc EXCEPT ![t] = "extend"] /\ malloc_mtx' # Free
    BY <1>1, <1>10 DEF Goto, Lock, Free, Held
  <1>5. Shape' /\ Owners' /\ LastKnown' = LastKnown
    BY <1>4, <1>10, FillKeeps
  <1>6. /\ Alone' /\ pc'[t] = "extend" /\ \A u \in Tasks \ {t} : pc'[u] = "idle"
        /\ Walk(t)' => Walks'
    BY <1>1, <1>2, AloneMoves
  <1>7. Pages'
    <2>1. dir' = [dir EXCEPT ![DirOf(t)] = dir[DirOf(t)] \union {page[t]}]
      BY <1>3, <1>10
    <2>2. Mapped' = Mapped \union {page[t]}
      BY <1>3, <2>1, MapAdds
    <2>3. end' = end /\ \A u \in Tasks : pc[u] # "extend"
      BY <1>1, <1>10
    <2> QED
      BY <1>3, <1>6, <2>2, <2>3, PagesAdded DEF Intact
  <1>8. Walk(t)'
    <2>1. h' = h /\ page' = page /\ blocks' = blocks /\ end' = end
      BY <1>10 DEF frame
    <2> QED
      BY <1>3, <1>5, <1>6, <2>1 DEF Walk, Growing, Tabling
  <1> QED
    BY <1>5, <1>6, <1>7, <1>8, <1>10 DEF Intact

\* An owner fills its payload, which holds no word of the list.
LEMMA StepUseBlock ==
    ASSUME TypeOK, Intact, NEW x \in live, UseBlock(x)
    PROVE  Intact' /\ LastKnown' = LastKnown /\ status' = status
  <1>2. BlockOf(x) \in blocks /\ Payload(x) \subseteq Interior(BlockOf(x))
    <2> DEFINE b == BlockOf(x)
    <2>1. b \in blocks /\ hdr[b].size = FullSize(x.size)
      BY DEF Intact, Owners
    <2>2. b \in Nat /\ StopOf(b) = b + FullSize(x.size)
      BY <2>1, Layout DEF Intact, Shape, StopOf
    <2>3. x.size \in Nat /\ x.ptr \in Nat /\ b = x.ptr - HDR
      BY HeapTasksAssumption DEF TypeOK, BlockOf
    <2> HIDE DEF b
    <2>4. \A w \in Payload(x) : w \in Nat /\ b + HDR <= w /\ w < StopOf(b) - FTR
      BY <2>2, <2>3 DEF Payload, FullSize
    <2>5. Payload(x) \subseteq Interior(b)
      BY <2>4 DEF Interior
    <2> QED
      BY <2>1, <2>5 DEF b
  <1>7. AllMapped(Payload(x))
    BY <1>2, InteriorMapped DEF AllMapped
  <1>1. /\ UNCHANGED <<malloc_mtx, dir, pc, h, ih, page, table, live, tables, blocks, end, status>>
        /\ hdr' = WipeHeaders(hdr, Payload(x)) /\ ftr' = WipeFooters(ftr, Payload(x))
    BY <1>7 DEF UseBlock, ghost, frame
  <1>3. Shape' /\ Owners' /\ LastKnown' = LastKnown
    BY <1>1, <1>2, FillKeeps
  <1>4. Pages'
    BY <1>1, PagesKept DEF Intact
  <1>5. Alone'
    BY <1>1 DEF Alone, Intact
  <1>6. \A t \in Tasks : Walk(t) => Walk(t)'
    BY <1>1, <1>3 DEF Walk, DirOf
  <1> QED
    BY <1>1, <1>3, <1>4, <1>5, <1>6 DEF Intact, Walks

\* heap_malloc looks for the last block again.
LEMMA StepFindLast ==
    ASSUME TypeOK, Intact, NEW t \in Tasks, FindLast(t)
    PROVE  Intact' /\ LastKnown' = LastKnown
  <1>1. pc[t] = "extend" /\ pc' = pc /\ ~hdr[h[t]].last /\ \A u \in Tasks \ {t} : pc[u] = "idle"
    BY OthersIdle DEF FindLast, At, Intact
  <1>2. Walk(t) /\ h[t] \in blocks /\ LastKnown
    BY <1>1 DEF Intact, Walks, Walk, Growing
  <1>3. /\ Shape' /\ Owners' /\ LastKnown' = LastKnown
    BY ListKept DEF FindLast, memory, ghost, Intact
  <1>4. Pages' /\ Alone'
    BY PagesKept DEF FindLast, ghost, Intact, Alone
  <1>5. h'[t] \in blocks
    <2>1. h'[t] = StopOf(h[t])
      BY DEF FindLast, StopOf, TypeOK
    <2> QED
      BY <1>1, <1>2, <2>1, LastIs, Layout DEF Intact, Shape
  <1>6. Walk(t)'
    <2>1. pc' = pc /\ page' = page /\ end' = end /\ blocks' = blocks
      BY DEF FindLast, ghost
    <2> QED
      BY <1>1, <1>2, <1>3, <1>5, <2>1 DEF Walk, Growing, Tabling
  <1>7. \A u \in Tasks \ {t} : Walk(u)'
    BY <1>1, IdleWalks
  <1> QED
    BY <1>3, <1>4, <1>6, <1>7 DEF Intact, Walks

\* The last block gets a page longer, as far as memory is mapped.
LEMMA StepExtend ==
    ASSUME TypeOK, Intact, NEW t \in Tasks, Extend(t), NEW b, b = h[t]
    PROVE  Intact' /\ LastKnown' /\ status' = status
  <1> DEFINE stop   == b + hdr[b].size - FTR
             longer == [hdr[b] EXCEPT !.size = @ + PAGE]
  <1>1. pc[t] = "extend" /\ hdr[b].last /\ \A u \in Tasks \ {t} : pc[u] = "idle"
    BY OthersIdle DEF Extend, At, Intact
  <1>2. b \in blocks /\ LastKnown /\ page[t] = PageOf(end) /\ page[t] \in Page
    BY <1>1 DEF Intact, Walks, Walk, Growing
  <1>3. /\ StopOf(b) = end /\ Shape /\ List /\ end \in Nat /\ end <= MemSize
        /\ end = PageOf(end) * PAGE /\ b + 3 <= end /\ b \in Nat
    BY <1>1, <1>2, Layout DEF Intact, Shape, List, Pages
  <1>4. stop = StopOf(b) - FTR /\ AllMapped({stop})
    <2>1. stop = end - FTR /\ stop = StopOf(b) - FTR
      <3>1. /\ StopOf(b) = b + hdr[b].size /\ StopOf(b) = end
            /\ b \in Nat /\ hdr[b].size \in Nat
        BY <1>2, <1>3, Layout
      <3> QED
        BY <3>1
    <2>2. stop \in Nat /\ stop < end
      BY <1>3, <2>1
    <2> QED
      BY <2>1, <2>2, HeapWords DEF AllMapped, Intact
  <1>5. /\ pc' = [pc EXCEPT ![t] = "scan"] /\ end' = end + PAGE
        /\ hdr' = PutHeaders(hdr, Write(b, longer), Write(StopOf(b) - FTR, b))
        /\ ftr' = PutFooters(ftr, Write(b, longer), Write(StopOf(b) - FTR, b))
        /\ h' = [h EXCEPT ![t] = HeapStart]
        /\ UNCHANGED <<used, malloc_mtx, dir, req, ih, page, table, live, tables, blocks,
                       torn, status>>
    BY <1>4 DEF Extend, Goto
  <1>6. /\ hdr'[b] = longer
        /\ \A c \in blocks \ {b} : /\ hdr'[c] = hdr[c]
                                   /\ ftr'[StopOf(c) - FTR] = ftr[StopOf(c) - FTR]
    BY <1>2, <1>3, <1>5, ExtendWrites
  <1>7. Shape' /\ LastKnown'
    BY <1>1, <1>2, <1>3, <1>5, <1>6, ExtendShape
  <1>8. Owners'
    <2>1. hdr'[b].size >= hdr[b].size /\ hdr'[b].hole = hdr[b].hole
      BY <1>2, <1>3, <1>6, Layout, PageSize DEF Header
    <2>2. \A c \in blocks : ~hdr[c].hole /\ c \notin {}
              => /\ c \in blocks' /\ ~hdr'[c].hole /\ hdr'[c].size >= hdr[c].size
                 /\ ~hdr[c].last => hdr'[c] = hdr[c]
      BY <1>1, <1>3, <1>5, <1>6, <2>1, Layout
    <2>3. tables \subseteq Nat /\ List' /\ Owners
      BY <1>7 DEF TypeOK, Shape, Intact
    <2>4. PICK none : none = {}
      OBVIOUS
    <2>5. /\ tables' = tables /\ \A y \in live' : y \in live /\ BlockOf(y) \notin none
          /\ \A p \in tables, c \in none : ~Holds(c, p)
      BY <1>5, <2>4
    <2> QED
      BY <1>3, <2>2, <2>3, <2>4, <2>5, OwnersKept
  <1>9. malloc_mtx' = malloc_mtx /\ malloc_mtx # Free
    BY <1>1, <1>5 DEF Intact, Alone
  <1>10. /\ Alone' /\ pc'[t] = "scan" /\ \A u \in Tasks \ {t} : pc'[u] = "idle"
         /\ Walk(t)' => Walks'
    BY <1>1, <1>5, <1>9, AloneMoves
  <1>11. Pages'
    <2> DEFINE k == PageOf(end)
    <2>1. k \in Nat /\ k + 1 <= MemPages /\ MemPages \in Nat /\ end = k * PAGE
      BY <1>2, <1>3, Constant DEF Page
    <2>2. Mapped = {p \in Page : p < k \/ p = k}
      BY <1>1 DEF Intact, Pages
    <2>3. Mapped' = Mapped
      BY <1>5 DEF Mapped
    <2> HIDE DEF k
    <2>4. end' = (k + 1) * PAGE
      BY <1>5, <2>1, PageSize
    <2>5. PageOf(end') = k + 1
      BY <2>1, <2>4, PageBelow
    <2>6. end' <= MemSize
      <3>1. (k + 1) * PAGE <= MemPages * PAGE
        BY <2>1, PageSize
      <3> QED
        BY <2>4, <3>1, Constant
    <2>7. Mapped' = {p \in Page : p < k + 1}
      BY <2>1, <2>2, <2>3 DEF Page
    <2>8. end' \in Nat
      BY <1>3, <1>5, PageSize
    <2>9. \A u \in Tasks : pc'[u] # "extend"
      BY <1>10
    <2>10. PageOf(end)' = k + 1
      BY <2>5 DEF PageOf
    <2> QED
      BY <2>4, <2>6, <2>7, <2>8, <2>9, <2>10 DEF Pages
  <1>12. Walk(t)'
    <2>1. h'[t] = HeapStart
      BY <1>5 DEF TypeOK
    <2> QED
      BY <1>7, <1>10, <2>1 DEF Walk, Growing, Tabling, Shape, List
  <1> QED
    BY <1>5, <1>7, <1>8, <1>10, <1>11, <1>12 DEF Intact

\* Two owners never own the same block.
LEMMA OneOwner ==
    ASSUME TypeOK, Owners, NEW x \in live, NEW y \in live, BlockOf(x) = BlockOf(y)
    PROVE  x = y
  <1>1. FullSize(x.size) = FullSize(y.size)
    BY DEF Owners
  <1>2. x.size \in Nat /\ y.size \in Nat /\ x.ptr \in Nat /\ y.ptr \in Nat
    BY HeapTasksAssumption DEF TypeOK
  <1>3. x.size = y.size /\ x.ptr = y.ptr
    BY <1>1, <1>2 DEF FullSize, BlockOf
  <1>4. x = [ptr |-> x.ptr, size |-> x.size] /\ y = [ptr |-> y.ptr, size |-> y.size]
    BY DEF TypeOK
  <1> QED
    BY <1>3, <1>4

\* What kfree finds on either side of a block.
LEMMA Neighbours ==
    ASSUME TypeOK, Intact, NEW b \in blocks, ~hdr[b].last, \A t \in Tasks : pc[t] # "extend"
    PROVE  /\ Sound(b) /\ LeftSound(b)
           /\ MergesLeft(b) => /\ Left(b) \in blocks /\ StopOf(Left(b)) = b /\ hdr[Left(b)].hole
           /\ \A c \in blocks : StopOf(c) = b /\ hdr[c].hole => MergesLeft(b)
           /\ StopOf(b) = Right(b)
           /\ StopOf(b) # end => Right(b) \in blocks /\ RightSound(b)
           /\ StopOf(b) = end => /\ ~RightSound(b) /\ ~LastKnown
                                 /\ ~AllMapped(HeaderWords(Right(b)))
  <1>1. Shape /\ List /\ FootersName /\ Pages /\ end \in Nat
    BY DEF Intact, Shape, Pages
  <1>2. Sound(b) /\ StopOf(b) = Right(b)
    BY <1>1, BlockSound DEF StopOf, Right
  <1>3. b # HeapStart => /\ Left(b) \in blocks /\ StopOf(Left(b)) = b
                         /\ ftr[b - FTR] = Left(b)
    BY <1>1, LeftNeighbour DEF Left
  <1>4. LeftSound(b)
    <2>1. b # HeapStart => Sound(Left(b)) /\ Left(b) # NoFooter
      <3>1. \A c \in blocks : c \in Nat
        BY <1>1, Layout
      <3> QED
        BY <1>1, <1>3, <3>1, BlockSound, NoHeaderAssumption
    <2> QED
      BY <1>3, <2>1 DEF LeftSound
  <1>5. MergesLeft(b) => Left(b) \in blocks /\ StopOf(Left(b)) = b /\ hdr[Left(b)].hole
    BY <1>3 DEF MergesLeft
  <1>6. \A c \in blocks : StopOf(c) = b /\ hdr[c].hole => MergesLeft(b)
    <2> SUFFICES ASSUME NEW c \in blocks, StopOf(c) = b, hdr[c].hole
                 PROVE  MergesLeft(b)
      OBVIOUS
    <2>1. b # HeapStart
      BY <1>1, Layout
    <2>2. c = Left(b)
      BY <1>1, <1>3, <2>1, Order
    <2> QED
      BY <2>1, <2>2 DEF MergesLeft
  <1>7. StopOf(b) # end => Right(b) \in blocks /\ RightSound(b)
    BY <1>1, <1>2, Layout, BlockSound DEF RightSound
  <1>8. StopOf(b) = end => /\ ~RightSound(b) /\ ~LastKnown
                           /\ ~AllMapped(HeaderWords(Right(b)))
    BY <1>1, <1>2, BehindEnd, LastIs DEF RightSound
  <1> QED
    BY <1>2, <1>4, <1>5, <1>6, <1>7, <1>8

\* The header of the freed block, which takes in the hole on its right.
OwnHeader(b) == [hdr[b] EXCEPT !.hole = TRUE,
                               !.size = @ + IF MergesRight(b) THEN hdr[Right(b)].size ELSE 0]

\* What kfree writes, case by case of what it merges.
LEMMA FreedIs ==
    ASSUME NEW b, NEW c, c = Right(b), NEW own, own = OwnHeader(b)
    PROVE  /\ DOMAIN FreedFooters(b) \subseteq {c + hdr[c].size - FTR, c - FTR}
           /\ MergesLeft(b) /\ ~MergesRight(b)
              => /\ DOMAIN FreedHeaders(b) = {Left(b), b}
                 /\ FreedHeaders(b)[Left(b)] = [hdr[Left(b)] EXCEPT !.size = @ + hdr[b].size,
                                                                   !.last = hdr[b].last]
                 /\ FreedFooters(b) = Write(c - FTR, Left(b))
           /\ ~MergesLeft(b) /\ MergesRight(b)
              => /\ DOMAIN FreedHeaders(b) = {b} /\ FreedHeaders(b)[b] = own
                 /\ FreedFooters(b) = Write(c + hdr[c].size - FTR, b)
           /\ ~MergesLeft(b) /\ ~MergesRight(b)
              => /\ DOMAIN FreedHeaders(b) = {b} /\ FreedHeaders(b)[b] = own
                 /\ FreedFooters(b) = NoWrite
  <1>4. DOMAIN FreedFooters(b) \subseteq {c + hdr[c].size - FTR, c - FTR}
    BY DEF FreedFooters, Also, Write, NoWrite
  <1>5. /\ ~MergesLeft(b) => FreedHeaders(b) = Write(b, own)
        /\ MergesLeft(b) => FreedHeaders(b) =
               Also(Write(Left(b), [hdr[Left(b)] EXCEPT !.size = @ + hdr[b].size,
                                                        !.last = hdr[b].last]),
                    Write(b, own))
    BY DEF FreedHeaders, OwnHeader
  <1>6. DOMAIN Write(b, own) = {b} /\ Write(b, own)[b] = own
    BY WriteIs
  <1>1. CASE MergesLeft(b) /\ ~MergesRight(b)
    <2>1. FreedFooters(b) = Also(NoWrite, Write(c - FTR, Left(b)))
      BY <1>1 DEF FreedFooters
    <2>2. FreedFooters(b) = Write(c - FTR, Left(b))
      BY <2>1 DEF Also, NoWrite, Write
    <2> QED
      BY <1>1, <1>4, <1>5, <2>2 DEF Also, Write
  <1>2. CASE ~MergesLeft(b) /\ MergesRight(b)
    <2>1. FreedFooters(b) = Also(Write(c + hdr[c].size - FTR, b), NoWrite)
      BY <1>2 DEF FreedFooters
    <2>2. FreedFooters(b) = Write(c + hdr[c].size - FTR, b)
      BY <2>1 DEF Also, NoWrite, Write
    <2>3. FreedHeaders(b) = Write(b, own)
      BY <1>2, <1>5
    <2>4. DOMAIN FreedHeaders(b) = {b} /\ FreedHeaders(b)[b] = own
      BY <2>3 DEF Write
    <2> QED
      BY <1>2, <1>4, <2>2, <2>4
  <1>3. CASE ~MergesLeft(b) /\ ~MergesRight(b)
    <2>1. FreedFooters(b) = Also(NoWrite, NoWrite)
      BY <1>3 DEF FreedFooters
    <2>2. FreedFooters(b) = NoWrite
      BY <2>1 DEF Also, NoWrite
    <2>3. FreedHeaders(b) = Write(b, own)
      BY <1>3, <1>5
    <2>4. DOMAIN FreedHeaders(b) = {b} /\ FreedHeaders(b)[b] = own
      BY <2>3 DEF Write
    <2> QED
      BY <1>3, <1>4, <2>2, <2>4
  <1> QED
    BY <1>1, <1>2, <1>3, <1>4

\* kfree gives a block back, merged with the hole on one side, or faults because
\* the last flag was lost; a merge on both sides tears the list.
LEMMA StepKFree ==
    ASSUME TypeOK, TypeOK', Intact, Quiet, ~torn, ~torn',
           NEW t \in Tasks, NEW x \in live, KFree(t, x), NEW b, b = BlockOf(x)
    PROVE  \/ Intact' /\ status' = status
           \/ Stop("fault") /\ ~LastKnown
  <1>1. malloc_mtx = Free /\ \A u \in Tasks : pc[u] = "idle"
    BY AllIdle DEF KFree, Intact
  <1>2. /\ b \in blocks /\ ~hdr[b].hole /\ ~hdr[b].last /\ hdr[b].size = FullSize(x.size)
        /\ Shape /\ List /\ NoTwoHoles /\ end \in Nat /\ end <= MemSize /\ tables \subseteq Nat
        /\ Owners
    BY DEF Intact, Owners, Shape, Pages, TypeOK
  <1>3. /\ Sound(b) /\ LeftSound(b)
        /\ MergesLeft(b) => /\ Left(b) \in blocks /\ StopOf(Left(b)) = b /\ hdr[Left(b)].hole
        /\ \A c \in blocks : StopOf(c) = b /\ hdr[c].hole => MergesLeft(b)
        /\ StopOf(b) = Right(b)
        /\ StopOf(b) # end => Right(b) \in blocks /\ RightSound(b)
        /\ StopOf(b) = end => /\ ~RightSound(b) /\ ~LastKnown
                              /\ ~AllMapped(HeaderWords(Right(b)))
    BY <1>1, <1>2, Neighbours
  <1>4. CASE StopOf(b) = end
    BY <1>3, <1>4 DEF KFree, StopAt, BlockOf
  <1>5. CASE StopOf(b) # end
    <2>0. PICK c : c = Right(b)
      OBVIOUS
    <2>1. /\ c \in blocks /\ StopOf(b) = c /\ RightSound(b)
          /\ c + hdr[c].size = StopOf(c)
          /\ (MergesRight(b) <=> hdr[c].hole)
          /\ b \in Nat /\ c \in Nat /\ b + 3 <= c /\ c + 3 <= StopOf(c) /\ StopOf(c) <= end
          /\ hdr[b] \in Header /\ hdr[c] \in Header /\ StopOf(c) \in Nat
      BY <1>2, <1>3, <1>5, <2>0, Layout, Within DEF MergesRight, StopOf
    <2>11. PICK own : own = OwnHeader(b)
      OBVIOUS
    <2>2. /\ DOMAIN FreedFooters(b) \subseteq {StopOf(c) - FTR, c - FTR}
          /\ MergesLeft(b) /\ ~MergesRight(b)
             => /\ DOMAIN FreedHeaders(b) = {Left(b), b}
                /\ FreedHeaders(b)[Left(b)] = [hdr[Left(b)] EXCEPT !.size = @ + hdr[b].size,
                                                                  !.last = hdr[b].last]
                /\ FreedFooters(b) = Write(StopOf(b) - FTR, Left(b))
          /\ ~MergesLeft(b) /\ MergesRight(b)
             => /\ DOMAIN FreedHeaders(b) = {b} /\ FreedHeaders(b)[b] = own
                /\ FreedFooters(b) = Write(StopOf(c) - FTR, b)
          /\ ~MergesLeft(b) /\ ~MergesRight(b)
             => /\ DOMAIN FreedHeaders(b) = {b} /\ FreedHeaders(b)[b] = own
                /\ FreedFooters(b) = NoWrite
      <3>1. c + hdr[c].size = StopOf(c) /\ StopOf(b) = c
        BY <2>1
      <3>2. c + hdr[c].size - FTR = StopOf(c) - FTR
        BY <2>1 DEF Header
      <3> QED
        BY <2>0, <2>11, <3>1, <3>2, FreedIs
    <2>3. own \in Header /\ own.hole /\ own.last = hdr[b].last
          /\ own.size = hdr[b].size + IF hdr[c].hole THEN hdr[c].size ELSE 0
      <3>1. CASE hdr[c].hole
        <4>1. own = [hdr[b] EXCEPT !.hole = TRUE, !.size = @ + hdr[c].size]
          BY <2>0, <2>1, <2>11, <3>1 DEF OwnHeader
        <4>2. hdr[b].size + hdr[c].size \in Nat
          BY <2>1 DEF Header
        <4> QED
          BY <2>1, <3>1, <4>1, <4>2 DEF Header
      <3>2. CASE ~hdr[c].hole
        <4>1. own = [hdr[b] EXCEPT !.hole = TRUE, !.size = @ + 0]
          BY <2>0, <2>1, <2>11, <3>2 DEF OwnHeader
        <4>2. hdr[b].size + 0 = hdr[b].size /\ hdr[b].size \in Nat
          BY <2>1 DEF Header
        <4> QED
          BY <2>1, <3>2, <4>1, <4>2 DEF Header
      <3> QED
        BY <3>1, <3>2
    <2>4. AllMapped(DOMAIN FreedFooters(b))
      <3>1. \A a \in {StopOf(c) - FTR, c - FTR} : a \in Nat /\ a < end
        BY <2>1, <1>2
      <3> QED
        BY <2>2, <3>1, HeapWords DEF AllMapped, Intact
    <2>5. /\ hdr' = PutHeaders(hdr, FreedHeaders(b), FreedFooters(b))
          /\ ftr' = PutFooters(ftr, FreedHeaders(b), FreedFooters(b))
          /\ live' = live \ {x}
          /\ blocks' = blocks \ Detached(b)
          /\ torn' = (torn \/ (MergesLeft(b) /\ MergesRight(b)))
          /\ UNCHANGED <<malloc_mtx, dir, pc, frame, tables, end, status>>
      BY <1>3, <2>1, <2>4 DEF KFree, BlockOf
    <2>12. blocks' = blocks \ IF MergesLeft(b) THEN {b} ELSE IF MergesRight(b) THEN {c} ELSE {}
      BY <2>0, <2>5 DEF Detached
    <2>6. ~(MergesLeft(b) /\ MergesRight(b))
      BY <2>5
    <2>7. ASSUME NEW d \in blocks, StopOf(d) = b, ~MergesLeft(b) PROVE ~hdr[d].hole
      BY <1>3, <2>7
    <2>8. /\ Shape'
          /\ \A d \in blocks : ~hdr[d].hole /\ d # b => d \in blocks' /\ hdr'[d] = hdr[d]
      <3>1. CASE MergesLeft(b)
        <4>0. PICK a : a = Left(b)
          OBVIOUS
        <4>1. /\ a \in blocks /\ StopOf(a) = b /\ hdr[a].hole /\ ~hdr[c].hole
              /\ hdr[a] \in Header /\ a # b
          BY <1>2, <1>3, <2>1, <2>6, <3>1, <4>0, Layout
        <4>2. /\ DOMAIN FreedHeaders(b) = {a, b}
              /\ FreedHeaders(b)[a] = [hdr[a] EXCEPT !.size = @ + hdr[b].size, !.last = hdr[b].last]
              /\ FreedFooters(b) = Write(StopOf(b) - FTR, a)
          BY <2>6, <2>2, <3>1, <4>0
        <4>3. blocks' = blocks \ {b} /\ end' = end
          BY <2>5, <2>12, <3>1
        <4>4. /\ hdr'[a] = FreedHeaders(b)[a] /\ ftr'[StopOf(b) - FTR] = a
              /\ \A d \in blocks \ {a, b} :
                     /\ hdr'[d] = hdr[d]
                     /\ ftr'[StopOf(d) - FTR] = ftr[StopOf(d) - FTR]
          <5>1. a \in DOMAIN FreedHeaders(b) /\ \A d \in DOMAIN FreedHeaders(b) : d = a \/ d = b
            BY <4>2
          <5> QED
            BY <1>2, <2>5, <4>1, <4>2, <5>1, MergeWrites
        <4>5. /\ hdr'[a] \in Header /\ hdr'[a].size = hdr[a].size + hdr[b].size
              /\ ~hdr'[a].last
          <5>1. hdr[a].size + hdr[b].size \in Nat /\ hdr[b].last \in BOOLEAN
            BY <2>1, <4>1 DEF Header
          <5>2. hdr'[a] = [hdr[a] EXCEPT !.size = @ + hdr[b].size, !.last = hdr[b].last]
            BY <4>2, <4>4
          <5> QED
            BY <1>2, <4>1, <5>1, <5>2 DEF Header
        <4>6. \A d \in blocks : StopOf(d) = a => ~hdr[d].hole
          <5>1. a # end
            BY <1>2, <4>1, Layout, Within
          <5> QED
            BY <1>2, <4>1, <5>1 DEF NoTwoHoles
        <4>7. StopOf(b) # end => ~hdr[StopOf(b)].hole
          BY <2>1, <4>1
        <4>8. Shape'
          BY <1>2, <4>1, <4>3, <4>4, <4>5, <4>6, <4>7, MergeShape
        <4> QED
          BY <4>1, <4>3, <4>4, <4>8
      <3>2. CASE ~MergesLeft(b) /\ MergesRight(b)
        <4>1. hdr[c].hole /\ c # b
          BY <2>1, <3>2
        <4>2. /\ DOMAIN FreedHeaders(b) = {b} /\ FreedHeaders(b)[b] = own
              /\ FreedFooters(b) = Write(StopOf(c) - FTR, b)
          BY <2>1, <2>2, <3>2
        <4>3. blocks' = blocks \ {c} /\ end' = end
          BY <2>5, <2>12, <3>2
        <4>4. /\ hdr'[b] = own /\ ftr'[StopOf(c) - FTR] = b
              /\ \A d \in blocks \ {b, c} :
                     /\ hdr'[d] = hdr[d]
                     /\ ftr'[StopOf(d) - FTR] = ftr[StopOf(d) - FTR]
          <5>1. b \in DOMAIN FreedHeaders(b) /\ \A d \in DOMAIN FreedHeaders(b) : d = b \/ d = c
            BY <4>2
          <5> QED
            BY <1>2, <2>1, <2>5, <4>2, <5>1, MergeWrites
        <4>5. /\ hdr'[b] \in Header /\ hdr'[b].size = hdr[b].size + hdr[c].size
              /\ ~hdr'[b].last
          BY <1>2, <2>3, <4>1, <4>4
        <4>6. \A d \in blocks : StopOf(d) = b => ~hdr[d].hole
          BY <2>7, <3>2
        <4>7. StopOf(c) # end => ~hdr[StopOf(c)].hole
          BY <1>2, <2>1, <4>1 DEF NoTwoHoles
        <4>8. Shape'
          BY <1>2, <2>1, <4>1, <4>3, <4>4, <4>5, <4>6, <4>7, MergeShape
        <4> QED
          BY <4>1, <4>3, <4>4, <4>8
      <3>3. CASE ~MergesLeft(b) /\ ~MergesRight(b)
        <4>1. ~hdr[c].hole
          BY <2>1, <3>3
        <4>2. DOMAIN FreedHeaders(b) = {b} /\ FreedHeaders(b)[b] = own /\ FreedFooters(b) = NoWrite
          BY <2>2, <3>3
        <4>3. blocks' = blocks /\ end' = end
          BY <2>5, <2>12, <3>3
        <4>4. /\ hdr'[b] = own /\ \A d \in blocks \ {b} : hdr'[d] = hdr[d]
              /\ \A d \in blocks : ftr'[StopOf(d) - FTR] = ftr[StopOf(d) - FTR]
          <5>1. b \in DOMAIN FreedHeaders(b) /\ \A d \in DOMAIN FreedHeaders(b) : d = b
            BY <4>2
          <5> QED
            BY <1>2, <2>5, <4>2, <5>1, FreeWrites
        <4>5. hdr'[b] \in Header /\ hdr'[b].size = hdr[b].size /\ hdr'[b].last = hdr[b].last
          BY <2>1, <2>3, <4>1, <4>4 DEF Header
        <4>6. \A d \in blocks : StopOf(d) = b => ~hdr[d].hole
          BY <2>7, <3>3
        <4>7. StopOf(b) # end => ~hdr[StopOf(b)].hole
          BY <2>1, <4>1
        <4>8. Shape'
          BY <1>2, <4>3, <4>4, <4>5, <4>6, <4>7, FreeShape
        <4> QED
          BY <4>3, <4>4, <4>8
      <3> QED
        BY <2>6, <3>1, <3>2, <3>3
    <2>9. Owners'
      <3>1. \A d \in blocks : ~hdr[d].hole /\ d \notin {b}
                => /\ d \in blocks' /\ ~hdr'[d].hole /\ hdr'[d].size >= hdr[d].size
                   /\ ~hdr[d].last => hdr'[d] = hdr[d]
        BY <1>2, <2>8, Layout
      <3>2. \A y \in live' : y \in live /\ BlockOf(y) \notin {b}
        BY <1>2, <2>5, OneOwner
      <3>3. \A p \in tables, d \in {b} : ~Holds(d, p)
        BY <1>2 DEF Owners
      <3>4. tables' = tables /\ List'
        BY <2>5, <2>8 DEF Shape
      <3> QED
        BY <1>2, <3>1, <3>2, <3>3, <3>4, OwnersKept
    <2>10. Pages' /\ Alone' /\ Walks'
      <3>1. \A u \in Tasks : pc'[u] = "idle"
        BY <1>1, <2>5
      <3>2. Pages'
        BY <2>5, PagesKept DEF Intact
      <3>3. Alone'
        BY <3>1 DEF Alone
      <3>4. Walks'
        BY <3>1, IdleWalks DEF Walks
      <3> QED
        BY <3>2, <3>3, <3>4
    <2> QED
      BY <2>5, <2>8, <2>9, <2>10 DEF Intact
  <1> QED
    BY <1>4, <1>5

-----------------------------------------------------------------------------
(* The invariant. *)

\* heap_init leaves one hole, which is the heap.
LEMMA InitIntact == Init => Intact
  <1> SUFFICES ASSUME Init PROVE Intact
    OBVIOUS
  <1>1. /\ InitialEnd \in Nat /\ InitialEnd <= MemSize /\ HeapStart + PAGE <= InitialEnd
        /\ InitialEnd = PageOf(InitialEnd) * PAGE
        /\ HeapStart \in Addr /\ HeapStart \in Nat
        /\ hdr[HeapStart] = [size |-> HeapPages * PAGE, hole |-> TRUE, last |-> TRUE]
        /\ hdr[HeapStart] \in Header
        /\ Mapped = {p \in Page : p * PAGE < InitialEnd}
    BY InitIs, Constant
  <1>2. /\ blocks = {HeapStart} /\ end = InitialEnd /\ live = {} /\ tables = {}
        /\ malloc_mtx = Free /\ \A t \in Tasks : pc[t] = "idle"
    BY DEF Init
  <1>3. StopOf(HeapStart) = end /\ hdr[HeapStart].size = HeapPages * PAGE
    BY <1>1, <1>2 DEF StopOf, InitialEnd
  <1>4. hdr[HeapStart].size >= HDR + FTR
    <2>1. HeapPages * PAGE >= PAGE
      BY Constant
    <2> QED
      BY <1>3, <2>1, PageSize, Constant
  <1>5. HeapStart < end
    BY <1>1, <1>2, PageSize
  <1>6. Shape
    BY <1>1, <1>2, <1>3, <1>4, <1>5 DEF Shape, List, FootersName, NoTwoHoles
  <1>7. Owners
    BY <1>2 DEF Owners
  <1>8. Pages
    <2>1. \A p \in Page : p * PAGE < InitialEnd <=> p < PageOf(InitialEnd)
      <3> SUFFICES ASSUME NEW p \in Page PROVE p * PAGE < InitialEnd <=> p < PageOf(InitialEnd)
        OBVIOUS
      <3>1. PageOf(InitialEnd) \in Int /\ p \in Int /\ PAGE \in Nat \ {0}
        BY <1>1, PageIs, Constant DEF Page
      <3>2. p * PAGE < PageOf(InitialEnd) * PAGE <=> p < PageOf(InitialEnd)
        BY <3>1, Below
      <3> QED
        BY <1>1, <3>2
    <2>2. Mapped = {p \in Page : p < PageOf(InitialEnd)}
      BY <1>1, <2>1
    <2>3. \A t \in Tasks : pc[t] # "extend"
      BY <1>2
    <2> QED
      BY <1>1, <1>2, <2>2, <2>3 DEF Pages
  <1>9. Alone
    BY <1>2 DEF Alone
  <1>10. Walks
    BY <1>2 DEF Walks, Walk, Growing, Tabling
  <1> QED
    BY <1>6, <1>7, <1>8, <1>9, <1>10 DEF Intact

\* The invariant holds at first.
LEMMA InitInv == Init => Inv
  <1>1. Init => Straight
    BY DEF Init, Straight
  <1> QED
    BY <1>1, InitTypes, InitIntact DEF Inv, StopsExplained, Init

\* What was torn stays torn.
LEMMA TornStays ==
    ASSUME [Next]_vars, torn
    PROVE  torn'
  <1>1. CASE UNCHANGED vars
    BY <1>1 DEF vars, ghost
  <1>2. ASSUME NEW why, Stop(why) PROVE torn'
    BY <1>2 DEF Stop, ghost
  <1>3. ASSUME NEW words, StopAt(words) PROVE torn'
    BY <1>2, <1>3 DEF StopAt
  <1>4. ASSUME NEW t \in Tasks, Client(t) PROVE torn'
    <2>1. ASSUME NEW n \in Sizes, Malloc(t, n) PROVE torn'
      BY <2>1 DEF Malloc, ghost
    <2>2. ASSUME NEW x \in live, KFree(t, x) PROVE torn'
      BY <1>2, <1>3, <2>2 DEF KFree
    <2> QED
      BY <1>4, <2>1, <2>2 DEF Client
  <1>5. ASSUME NEW t \in Tasks, Continue(t) PROVE torn'
    <2>1. CASE SkipBlock(t) \/ MapPage(t) \/ NeedTable(t) \/ TableLock(t) \/ InstallTable(t)
               \/ FindLast(t) \/ TakeWhole(t)
      BY <1>2, <2>1 DEF SkipBlock, MapPage, NeedTable, TableLock, InstallTable, FindLast,
                        TakeWhole, ghost
    <2>2. CASE SplitHole(t)
      BY <1>2, <2>2 DEF SplitHole
    <2>3. CASE WalkFails(t) \/ ScanEnds(t) \/ PageRefused(t) \/ Extend(t)
      BY <1>2, <1>3, <2>3 DEF WalkFails, ScanEnds, PageRefused, Extend, ghost
    <2> QED
      BY <1>5, <2>1, <2>2, <2>3 DEF Continue
  <1>6. ASSUME NEW x \in live, UseBlock(x) PROVE torn'
    BY <1>2, <1>6 DEF UseBlock, ghost
  <1>7. ASSUME NEW d \in Directory, Remap(d) PROVE torn'
    BY <1>7 DEF Remap, ghost
  <1> QED
    BY <1>1, <1>4, <1>5, <1>6, <1>7 DEF Next

\* A page table off its boundary comes with a step that tears the heap.
LEMMA StraightStep ==
    ASSUME TypeOK, Straight, [Next]_vars, ~torn'
    PROVE  Straight'
  <1>1. ASSUME skewed' = skewed PROVE Straight'
    BY <1>1 DEF Straight
  <1>2. ASSUME NEW why, Stop(why) PROVE skewed' = skewed
    BY <1>2 DEF Stop
  <1>3. ASSUME NEW words, StopAt(words) PROVE skewed' = skewed
    BY <1>2, <1>3 DEF StopAt
  <1>4. CASE UNCHANGED vars
    BY <1>1, <1>4 DEF vars
  <1>5. ASSUME NEW t \in Tasks, Client(t) PROVE Straight'
    <2>1. ASSUME NEW n \in Sizes, Malloc(t, n) PROVE skewed' = skewed
      BY <2>1 DEF Malloc
    <2>2. ASSUME NEW x \in live, KFree(t, x) PROVE skewed' = skewed
      BY <1>2, <1>3, <2>2 DEF KFree
    <2> QED
      BY <1>1, <1>5, <2>1, <2>2 DEF Client
  <1>6. ASSUME NEW t \in Tasks, Continue(t) PROVE Straight'
    <2>1. CASE InstallTable(t)
      <3>1. CASE Stop("fault")
        BY <1>1, <1>2, <3>1
      <3>2. CASE ~Stop("fault")
        BY <2>1, <3>2 DEF InstallTable, Straight, TypeOK
      <3> QED
        BY <3>1, <3>2
    <2>2. CASE SkipBlock(t) \/ MapPage(t) \/ NeedTable(t) \/ TableLock(t) \/ FindLast(t)
      BY <1>1, <1>2, <2>2 DEF SkipBlock, MapPage, NeedTable, TableLock, FindLast
    <2>3. CASE TakeWhole(t) \/ SplitHole(t)
      BY <1>1, <1>2, <2>3 DEF TakeWhole, SplitHole, Return
    <2>4. CASE WalkFails(t) \/ ScanEnds(t) \/ PageRefused(t) \/ Extend(t)
      BY <1>1, <1>2, <1>3, <2>4 DEF WalkFails, ScanEnds, PageRefused, Extend
    <2> QED
      BY <1>6, <2>1, <2>2, <2>3, <2>4 DEF Continue
  <1>7. ASSUME NEW x \in live, UseBlock(x) PROVE Straight'
    BY <1>1, <1>2, <1>7 DEF UseBlock
  <1>8. ASSUME NEW d \in Directory, Remap(d) PROVE Straight'
    BY <1>8 DEF Remap, Straight
  <1> QED
    BY <1>4, <1>5, <1>6, <1>7, <1>8 DEF Next

\* A step of a heap that is not torn, and does not tear it.
LEMMA IntactStep ==
    ASSUME TypeOK, TypeOK', StopsExplained, Intact, Straight, [QuietNext]_vars, ~torn, ~torn'
    PROVE  Intact' /\ StopsExplained'
  <1>1. ASSUME Intact', LastKnown' = LastKnown, status' = status
        PROVE  Intact' /\ StopsExplained'
    BY <1>1 DEF StopsExplained
  <1>2. ASSUME NEW why, Stop(why), why # "corrupt", why = "fault" => ~LastKnown
        PROVE  Intact' /\ StopsExplained'
    BY <1>2, StepStop DEF StopsExplained
  <1>3. ASSUME Intact', status' = status, status = "ok" PROVE Intact' /\ StopsExplained'
    BY <1>3 DEF StopsExplained
  <1>4. CASE UNCHANGED vars
    <2>1. Stop(status)
      BY <1>4 DEF vars, Stop
    <2> QED
      BY <2>1, StepStop, <1>1
  <1>5. ASSUME NEW t \in Tasks, Quiet, Client(t) PROVE Intact' /\ StopsExplained'
    <2>1. ASSUME NEW n \in Sizes, Malloc(t, n) PROVE Intact' /\ StopsExplained'
      BY <1>1, <1>5, <2>1, StepMalloc DEF Malloc
    <2>2. ASSUME NEW x \in live, KFree(t, x) PROVE Intact' /\ StopsExplained'
      <3>1. status = "ok"
        BY <2>2 DEF KFree, At
      <3>2. PICK b : b = BlockOf(x)
        OBVIOUS
      <3>3. \/ Intact' /\ status' = status
            \/ Stop("fault") /\ ~LastKnown
        BY <1>5, <2>2, <3>2, StepKFree
      <3> QED
        BY <1>2, <1>3, <3>1, <3>3
    <2> QED
      BY <1>5, <2>1, <2>2 DEF Client
  <1>6. ASSUME NEW t \in Tasks, Continue(t) PROVE Intact' /\ StopsExplained'
    <2>1. CASE SkipBlock(t)
      BY <1>1, <2>1, StepSkipBlock DEF SkipBlock
    <2>2. CASE TakeWhole(t)
      <3>1. PICK b, need : b = Cursor(t) /\ need = NeedOf(t)
        OBVIOUS
      <3> QED
        BY <1>1, <2>2, <3>1, StepTakeWhole DEF TakeWhole, Return
    <2>3. CASE SplitHole(t)
      <3>1. PICK b, need : b = Cursor(t) /\ need = NeedOf(t)
        OBVIOUS
      <3>2. PICK next, inner : next = b + need /\ inner = Boundary(b) - HDR
        OBVIOUS
      <3> QED
        BY <1>1, <2>3, <3>1, <3>2, StepSplitHole
    <2>4. CASE WalkFails(t)
      <3>1. Cursor(t) = end /\ ~LastKnown /\ ~AllMapped(HeaderWords(Cursor(t)))
        BY <2>4, CursorIs DEF WalkFails
      <3> QED
        BY <1>2, <2>4, <3>1 DEF WalkFails, StopAt
    <2>5. CASE ScanEnds(t)
      <3>1. CASE Stop("no_table")
        BY <1>2, <3>1
      <3>2. CASE ~Stop("no_table")
        BY <1>1, <2>5, <3>2, StepScanEnds DEF ScanEnds
      <3> QED
        BY <3>1, <3>2
    <2>6. CASE PageRefused(t)
      BY <1>2, <2>6 DEF PageRefused
    <2>7. CASE MapPage(t)
      BY <1>1, <2>7, StepMapPage
    <2>8. CASE NeedTable(t)
      BY <1>1, <2>8, StepNeedTable DEF NeedTable
    <2>9. CASE TableLock(t)
      BY <1>1, <2>9, StepTableLock DEF TableLock
    <2>10. CASE InstallTable(t)
      BY <1>1, <2>10, StepInstallTable
    <2>11. CASE FindLast(t)
      BY <1>1, <2>11, StepFindLast DEF FindLast
    <2>12. CASE Extend(t)
      <3>1. status = "ok"
        BY <2>12 DEF Extend, At
      <3>2. PICK b : b = h[t]
        OBVIOUS
      <3> QED
        BY <1>3, <2>12, <3>1, <3>2, StepExtend
    <2> QED
      BY <1>6, <2>1, <2>2, <2>3, <2>4, <2>5, <2>6, <2>7, <2>8, <2>9, <2>10, <2>11, <2>12
      DEF Continue
  <1>7. ASSUME NEW x \in live, UseBlock(x) PROVE Intact' /\ StopsExplained'
    BY <1>1, <1>7, StepUseBlock
  <1>8. ASSUME NEW d \in Directory, Remap(d) PROVE FALSE
    BY <1>8 DEF Remap, Straight
  <1> QED
    BY <1>4, <1>5, <1>6, <1>7, <1>8 DEF QuietNext

\* A quiet step is a step of the code.
LEMMA QuietIsNext == [QuietNext]_vars => [Next]_vars
  BY DEF QuietNext, Next

\* The invariant is inductive under QuietNext.
LEMMA InvStep ==
    ASSUME Inv, [QuietNext]_vars
    PROVE  Inv'
  <1>1. TypeOK'
    BY TypeStep, QuietIsNext DEF Inv
  <1>2. CASE torn'
    BY <1>1, <1>2 DEF Inv, StopsExplained
  <1>3. CASE ~torn'
    <2>1. ~torn
      BY <1>3, TornStays, QuietIsNext
    <2>2. Straight'
      BY <1>3, <2>1, StraightStep, QuietIsNext DEF Inv
    <2> QED
      BY <1>1, <1>3, <2>1, <2>2, IntactStep DEF Inv
  <1> QED
    BY <1>2, <1>3

\* The invariant implies what the run heap checks of the list.
LEMMA SoundList == Inv => BlockListSound
  <1> SUFFICES ASSUME Inv PROVE BlockListSound
    OBVIOUS
  <1>1. TypeOK
    BY DEF Inv
  <1>2. CASE torn
    BY <1>1, <1>2 DEF BlockListSound, Tiling, FootersRight, HolesMerged, HeapMapped
  <1>3. CASE ~torn
    <2>1. List /\ FootersName /\ NoTwoHoles /\ Pages
      BY <1>3 DEF Inv, Intact, Shape
    <2>2. Tiling
      BY <2>1, Layout DEF Tiling, List
    <2>3. FootersRight /\ HolesMerged
      BY <2>1 DEF FootersRight, FootersName, HolesMerged, NoTwoHoles
    <2>4. \A a \in HeapStart .. end - 1 : a \in Nat /\ a < end
      BY <2>1, Constant DEF Pages
    <2>5. HeapMapped
      BY <2>1, <2>4, HeapWords DEF HeapMapped, AllMapped
    <2> QED
      BY <1>1, <2>2, <2>3, <2>5 DEF BlockListSound
  <1> QED
    BY <1>2, <1>3

\* What is owned lies inside blocks: nothing else of the list can be there.
LEMMA Payloads ==
    ASSUME TypeOK, Intact, NEW x \in live
    PROVE  /\ BlockOf(x) \in blocks /\ Payload(x) = Interior(BlockOf(x))
           /\ x.ptr \in Nat /\ x.size \in Nat /\ x.ptr = BlockOf(x) + HDR
           /\ StopOf(BlockOf(x)) = x.ptr + x.size + FTR
  <1> DEFINE b == BlockOf(x)
  <1>1. b \in blocks /\ hdr[b].size = FullSize(x.size)
    BY DEF Intact, Owners
  <1>2. b \in Nat /\ StopOf(b) = b + FullSize(x.size)
    BY <1>1, Layout DEF Intact, Shape, StopOf
  <1>3. x.size \in Nat /\ x.ptr \in Nat /\ b = x.ptr - HDR
    BY HeapTasksAssumption DEF TypeOK, BlockOf
  <1> HIDE DEF b
  <1>4. StopOf(b) = x.ptr + x.size + FTR /\ x.ptr = b + HDR
    BY <1>2, <1>3 DEF FullSize
  <1>5. \A w : w \in Payload(x) <=> w \in Interior(b)
    BY <1>2, <1>3, <1>4 DEF Payload, Interior
  <1>6. Payload(x) = Interior(b)
    BY <1>5 DEF Payload, Interior
  <1> QED
    BY <1>1, <1>3, <1>4, <1>6 DEF b

\* A page table lies inside a block.
LEMMA Tables ==
    ASSUME TypeOK, Intact, NEW p \in tables
    PROVE  \E c \in blocks : Holds(c, p) /\ TableWords(p) \subseteq Interior(c)
  <1>1. PICK c \in blocks : Holds(c, p)
    BY TableHome DEF Intact
  <1>2. p \in Nat
    BY DEF TypeOK
  <1>3. c \in Nat /\ StopOf(c) \in Nat
    BY Layout DEF Intact, Shape
  <1>4. c + HDR <= p /\ p + PAGE + FTR <= StopOf(c)
    BY <1>1 DEF Holds
  <1>5. \A w \in TableWords(p) : w \in Nat /\ c + HDR <= w /\ w < StopOf(c) - FTR
    BY <1>2, <1>3, <1>4, PageSize DEF TableWords
  <1> QED
    BY <1>1, <1>5 DEF Interior

\* Insides of different blocks are disjoint.
LEMMA Apart ==
    ASSUME List, NEW b \in blocks, NEW c \in blocks, b # c
    PROVE  Interior(b) \cap Interior(c) = {}
  BY Order, Layout DEF Interior

\* The invariant implies what the run heap checks of the owners.
LEMMA SafeOwners == Inv => OwnersSafe
  <1> SUFFICES ASSUME Inv, ~torn PROVE OwnedBlocksKept /\ PayloadsApart
    BY DEF OwnersSafe, OwnedBlocksKept, PayloadsApart
  <1>1. TypeOK /\ Intact /\ List /\ Owners
    BY DEF Inv, Intact, Shape
  <1>2. OwnedBlocksKept
    BY <1>1 DEF OwnedBlocksKept, Owners, BlockOf
  <1>3. ASSUME NEW x \in live, NEW y \in live, x # y
        PROVE  Payload(x) \cap Payload(y) = {}
    BY <1>1, <1>3, Payloads, Apart, OneOwner
  <1>4. ASSUME NEW p \in tables, NEW q \in tables, p # q
        PROVE  TableWords(p) \cap TableWords(q) = {}
    <2>1. PICK b \in blocks : Holds(b, p) /\ TableWords(p) \subseteq Interior(b)
      BY <1>1, Tables
    <2>2. PICK c \in blocks : Holds(c, q) /\ TableWords(q) \subseteq Interior(c)
      BY <1>1, Tables
    <2>3. b # c
      BY <1>1, <1>4, <2>1, <2>2 DEF Owners
    <2> QED
      BY <1>1, <2>1, <2>2, <2>3, Apart
  <1>5. ASSUME NEW x \in live, NEW p \in tables
        PROVE  Payload(x) \cap TableWords(p) = {}
    <2>1. PICK b \in blocks : Holds(b, p) /\ TableWords(p) \subseteq Interior(b)
      BY <1>1, Tables
    <2>2. b # BlockOf(x)
      BY <1>1, <2>1 DEF Owners
    <2> QED
      BY <1>1, <2>1, <2>2, Payloads, Apart
  <1>6. ASSUME NEW b \in blocks, NEW c \in blocks
        PROVE  BlockWords(b) \cap Interior(c) = {}
    <2>1. b \in Nat
      BY <1>1, Layout
    <2>2. BlockWords(b) = {b, b + 1, StopOf(b) - FTR}
      BY <2>1 DEF BlockWords, HeaderWords
    <2> QED
      BY <1>1, <2>2, Inside
  <1>7. ASSUME NEW b \in blocks, NEW x \in live PROVE BlockWords(b) \cap Payload(x) = {}
    BY <1>1, <1>6, Payloads
  <1>8. ASSUME NEW b \in blocks, NEW p \in tables PROVE BlockWords(b) \cap TableWords(p) = {}
    BY <1>1, <1>6, Tables
  <1> QED
    BY <1>2, <1>3, <1>4, <1>5, <1>7, <1>8 DEF PayloadsApart

-----------------------------------------------------------------------------
(* Sums over the owners.  The fold of UsedIsOwned is a recursive function: *)
(* it exists, and the order in which it takes the owners does not matter.   *)

\* What a function says is the sum of the sizes of each subset of S.
Sums(f, S) == f = [s \in SUBSET S |->
                      IF s = {} THEN 0
                      ELSE LET x == CHOOSE e \in s : TRUE IN x.size + f[s \ {x}]]

SumOf(S) == MapThenSumSet(LAMBDA x : x.size, S)

\* The fold of UsedIsOwned is such a function, if there is one.
LEMMA Expands == ASSUME NEW S PROVE SumOf(S) = (CHOOSE f : Sums(f, S))[S]
  BY DEF SumOf, MapThenSumSet, MapThenFoldSet, Sums

\* A set of numbers that is not empty has a least one.
LEMMA Least ==
    ASSUME NEW T \in SUBSET Nat, T # {}
    PROVE  \E x \in T : \A y \in T : x <= y
  <1>1. PICK R : R = OpToRel(<, Nat)
    OBVIOUS
  <1>2. IsWellFoundedOn(R, Nat)
    BY <1>1, NatLessThanWellFounded
  <1>3. ASSUME NEW x \in Nat, NEW y \in Nat, y < x PROVE <<y, x>> \in R
    BY <1>1, <1>3 DEF OpToRel
  <1>4. PICK x \in T : \A y \in T : ~ (<<y, x>> \in R)
    BY <1>2, WFMin
  <1>5. ASSUME NEW y \in T PROVE x <= y
    <2>1. x \in Nat /\ y \in Nat
      OBVIOUS
    <2>2. ~ (<<y, x>> \in R)
      BY <1>4
    <2>3. ~(y < x)
      BY <1>3, <2>1, <2>2
    <2> QED
      BY <2>1, <2>3
  <1> QED
    BY <1>5

\* A set of finite sets that is not empty has a smallest member.
LEMMA Smallest ==
    ASSUME NEW C, C # {}, \A s \in C : IsFiniteSet(s)
    PROVE  \E s \in C : \A r \in C : Cardinality(s) <= Cardinality(r)
  <1> DEFINE T == {Cardinality(s) : s \in C}
  <1>1. T \in SUBSET Nat /\ T # {}
    BY FS_CardinalityType
  <1> HIDE DEF T
  <1>2. PICK n \in T : \A m \in T : n <= m
    BY <1>1, Least
  <1> QED
    BY <1>2 DEF T

\* A finite set without one of its members is smaller.
LEMMA Smaller ==
    ASSUME NEW s, IsFiniteSet(s), NEW x \in s
    PROVE  /\ IsFiniteSet(s \ {x})
           /\ Cardinality(s) \in Nat /\ Cardinality(s \ {x}) \in Nat
           /\ Cardinality(s \ {x}) = Cardinality(s) - 1
  BY FS_RemoveElement, FS_CardinalityType

\* The member that the fold takes from a set.
First(s) == CHOOSE e \in s : TRUE

LEMMA FirstIn == ASSUME NEW s, s # {} PROVE First(s) \in s
  BY DEF First

\* The same in terms of First.
LEMMA SumsIs ==
    ASSUME NEW S, NEW f
    PROVE  Sums(f, S) <=> f = [s \in SUBSET S |->
                                  IF s = {} THEN 0 ELSE First(s).size + f[s \ {First(s)}]]
  BY DEF Sums, First

\* f is right about the subsets of S with at most n members.
Upto(f, S, n) ==
    \A s \in SUBSET S : Cardinality(s) <= n
        => f[s] = IF s = {} THEN 0 ELSE First(s).size + f[s \ {First(s)}]

\* There is a function right about any size: from the smallest size without one.
LEMMA UptoAll ==
    ASSUME NEW S, IsFiniteSet(S), NEW n \in Nat
    PROVE  \E f : f = [s \in SUBSET S |-> f[s]] /\ Upto(f, S, n)
  <1> DEFINE none == {m \in Nat : ~ \E f : f = [s \in SUBSET S |-> f[s]] /\ Upto(f, S, m)}
  <1> SUFFICES ASSUME none # {} PROVE FALSE
    OBVIOUS
  <1>1. PICK m \in none : \A k \in none : m <= k
    BY Least
  <1>2. \A s \in SUBSET S : IsFiniteSet(s) /\ Cardinality(s) \in Nat
    BY FS_Subset, FS_CardinalityType
  <1>5. m \in Nat
    OBVIOUS
  <1>3. CASE m = 0
    <2> DEFINE f == [s \in SUBSET S |-> 0]
    <2>1. f = [s \in SUBSET S |-> f[s]]
      OBVIOUS
    <2>2. Upto(f, S, 0)
      <3> SUFFICES ASSUME NEW s \in SUBSET S, Cardinality(s) <= 0
                   PROVE  s = {} /\ f[s] = 0
        BY DEF Upto
      <3> QED
        BY <1>2, FS_EmptySet
    <2> QED
      BY <1>3, <2>1, <2>2
  <1>4. CASE m # 0
    <2>1. m - 1 \in Nat /\ m - 1 \notin none
      <3> HIDE DEF none
      <3> QED
        BY <1>1, <1>4, <1>5
    <2>2. PICK g : g = [s \in SUBSET S |-> g[s]] /\ Upto(g, S, m - 1)
      BY <2>1
    <2> DEFINE f == [s \in SUBSET S |->
                        IF s = {} THEN 0 ELSE First(s).size + g[s \ {First(s)}]]
    <2>3. f = [s \in SUBSET S |-> f[s]]
      OBVIOUS
    <2>4. \A s \in SUBSET S : Cardinality(s) <= m - 1 => f[s] = g[s]
      BY <2>2 DEF Upto
    <2>5. Upto(f, S, m)
      <3> SUFFICES ASSUME NEW s \in SUBSET S, Cardinality(s) <= m, s # {}
                   PROVE  f[s] = First(s).size + f[s \ {First(s)}]
        BY DEF Upto
      <3>1. First(s) \in s /\ s \ {First(s)} \in SUBSET S
        BY FirstIn
      <3>2. Cardinality(s \ {First(s)}) <= m - 1
        BY <1>2, <3>1, Smaller
      <3>3. f[s \ {First(s)}] = g[s \ {First(s)}]
        BY <2>4, <3>1, <3>2
      <3>4. f[s] = First(s).size + g[s \ {First(s)}]
        OBVIOUS
      <3> QED
        BY <3>3, <3>4
    <2> HIDE DEF f
    <2> QED
      BY <1>1, <2>3, <2>5
  <1> QED
    BY <1>3, <1>4

\* So the sums of a finite set exist.
LEMMA SumsExist == ASSUME NEW S, IsFiniteSet(S) PROVE \E f : Sums(f, S)
  <1>1. Cardinality(S) \in Nat /\ \A s \in SUBSET S : Cardinality(s) <= Cardinality(S)
    BY FS_CardinalityType, FS_Subset
  <1>2. PICK f : f = [s \in SUBSET S |-> f[s]] /\ Upto(f, S, Cardinality(S))
    BY <1>1, UptoAll
  <1>3. \A s \in SUBSET S : f[s] = IF s = {} THEN 0
                                  ELSE First(s).size + f[s \ {First(s)}]
    BY <1>1, <1>2 DEF Upto
  <1>4. f = [s \in SUBSET S |-> IF s = {} THEN 0 ELSE First(s).size + f[s \ {First(s)}]]
    BY <1>2, <1>3
  <1> QED
    BY <1>4, SumsIs

\* What the sets of owners are.
Sized(S) == IsFiniteSet(S) /\ \A x \in S : x.size \in Nat

\* The order in which the members are taken does not matter.
LEMMA AnyOrder ==
    ASSUME NEW S, Sized(S), NEW f, Sums(f, S)
    PROVE  \A s \in SUBSET S : /\ f[s] \in Nat
                               /\ \A x \in s : f[s] = x.size + f[s \ {x}]
  <1> DEFINE Splits(s) == f[s] \in Nat /\ \A x \in s : f[s] = x.size + f[s \ {x}]
             wrong == {s \in SUBSET S : ~Splits(s)}
  <1> SUFFICES ASSUME wrong # {} PROVE FALSE
    OBVIOUS
  <1>1. \A s \in SUBSET S : IsFiniteSet(s) /\ Cardinality(s) \in Nat
    BY FS_Subset, FS_CardinalityType DEF Sized
  <1>2. PICK s \in wrong : \A r \in wrong : Cardinality(s) <= Cardinality(r)
    BY <1>1, Smallest
  <1>3. \A r \in SUBSET S :
            f[r] = IF r = {} THEN 0 ELSE First(r).size + f[r \ {First(r)}]
    <2>1. f = [r \in SUBSET S |-> IF r = {} THEN 0 ELSE First(r).size + f[r \ {First(r)}]]
      BY SumsIs
    <2> QED
      BY <2>1
  <1>4. s # {}
    <2> SUFFICES ASSUME s = {} PROVE FALSE
      OBVIOUS
    <2>1. f[s] = 0
      BY <1>3
    <2>2. Splits(s)
      BY <2>1
    <2> QED
      BY <2>2
  <1>10. PICK y : y = First(s)
    OBVIOUS
  <1>5. y \in s /\ y.size \in Nat
    BY <1>4, <1>10, FirstIn DEF Sized
  <1>6. \A x \in s : s \ {x} \in SUBSET S /\ Splits(s \ {x})
    <2> SUFFICES ASSUME NEW x \in s PROVE Splits(s \ {x})
      OBVIOUS
    <2>1. Cardinality(s \ {x}) < Cardinality(s)
      BY <1>1, Smaller
    <2>2. Cardinality(s \ {x}) \in Nat /\ Cardinality(s) \in Nat
      BY <1>1, Smaller
    <2>3. s \ {x} \notin wrong
      <3> HIDE DEF wrong
      <3> QED
        BY <1>2, <2>1, <2>2
    <2> QED
      BY <2>3
  <1>7. f[s] = y.size + f[s \ {y}] /\ f[s \ {y}] \in Nat
    BY <1>3, <1>4, <1>5, <1>6, <1>10
  <1>8. ASSUME NEW x \in s PROVE f[s] = x.size + f[s \ {x}]
    <2>1. CASE x = y
      BY <1>7, <2>1
    <2>2. CASE x # y
      <3>1. x \in s \ {y} /\ y \in s \ {x} /\ (s \ {y}) \ {x} = (s \ {x}) \ {y}
        BY <1>5, <2>2
      <3>2. f[s \ {y}] = x.size + f[(s \ {y}) \ {x}]
        BY <1>5, <1>6, <3>1
      <3>3. f[s \ {x}] = y.size + f[(s \ {x}) \ {y}]
        BY <1>6, <3>1
      <3>4. x.size \in Nat /\ f[s \ {x}] \in Nat
        BY <1>6 DEF Sized
      <3>5. (s \ {x}) \ {y} \in SUBSET S /\ f[(s \ {x}) \ {y}] \in Nat
        <4>1. /\ IsFiniteSet(s \ {x}) /\ Cardinality(s) \in Nat
              /\ Cardinality(s \ {x}) \in Nat /\ Cardinality(s \ {x}) < Cardinality(s)
          BY <1>1, Smaller
        <4>2. /\ Cardinality((s \ {x}) \ {y}) \in Nat
              /\ Cardinality((s \ {x}) \ {y}) < Cardinality(s \ {x})
          <5>1. \A r : IsFiniteSet(r) => \A e \in r :
                    /\ Cardinality(r \ {e}) \in Nat /\ Cardinality(r) \in Nat
                    /\ Cardinality(r \ {e}) = Cardinality(r) - 1
            BY Smaller
          <5> QED
            BY <3>1, <4>1, <5>1
        <4>3. (s \ {x}) \ {y} \notin wrong
          <5> HIDE DEF wrong
          <5> QED
            BY <1>2, <4>1, <4>2
        <4> QED
          BY <4>3
      <3>6. PICK a : a = f[(s \ {x}) \ {y}]
        OBVIOUS
      <3>7. /\ f[s \ {y}] = x.size + a /\ f[s \ {x}] = y.size + a
            /\ a \in Nat /\ x.size \in Nat /\ y.size \in Nat
        BY <1>5, <3>1, <3>2, <3>3, <3>4, <3>5, <3>6
      <3>8. f[s] = y.size + (x.size + a)
        BY <1>7, <3>7
      <3>9. f[s] = x.size + (y.size + a)
        BY <3>7, <3>8
      <3> QED
        BY <3>7, <3>9
    <2> QED
      BY <2>1, <2>2
  <1>9. f[s] \in Nat
    BY <1>5, <1>7
  <1> QED
    BY <1>8, <1>9

\* Two functions agree about what both sum.
LEMMA SameSums ==
    ASSUME NEW S, IsFiniteSet(S), NEW T \in SUBSET S, NEW f, Sums(f, S), NEW g, Sums(g, T)
    PROVE  f[T] = g[T]
  <1> DEFINE differ == {s \in SUBSET T : f[s] # g[s]}
  <1> SUFFICES ASSUME differ # {} PROVE FALSE
    OBVIOUS
  <1>1. \A s \in SUBSET T : IsFiniteSet(s) /\ Cardinality(s) \in Nat
    BY FS_Subset, FS_CardinalityType
  <1>2. PICK s \in differ : \A r \in differ : Cardinality(s) <= Cardinality(r)
    BY <1>1, Smallest
  <1>3. \A r \in SUBSET S :
            f[r] = IF r = {} THEN 0 ELSE First(r).size + f[r \ {First(r)}]
    <2>1. f = [r \in SUBSET S |-> IF r = {} THEN 0 ELSE First(r).size + f[r \ {First(r)}]]
      BY SumsIs
    <2> QED
      BY <2>1
  <1>4. \A r \in SUBSET T :
            g[r] = IF r = {} THEN 0 ELSE First(r).size + g[r \ {First(r)}]
    <2>1. g = [r \in SUBSET T |-> IF r = {} THEN 0 ELSE First(r).size + g[r \ {First(r)}]]
      BY SumsIs
    <2> QED
      BY <2>1
  <1>5. s # {} /\ First(s) \in s
    BY <1>3, <1>4, FirstIn
  <1>6. s \ {First(s)} \notin differ
    <2>1. /\ Cardinality(s \ {First(s)}) < Cardinality(s)
          /\ Cardinality(s \ {First(s)}) \in Nat /\ Cardinality(s) \in Nat
      BY <1>1, <1>5, Smaller
    <2> QED
      BY <1>2, <2>1
  <1>7. s \ {First(s)} \in SUBSET T
    OBVIOUS
  <1>8. f[s] = First(s).size + f[s \ {First(s)}] /\ g[s] = First(s).size + g[s \ {First(s)}]
    BY <1>3, <1>4, <1>5
  <1> QED
    BY <1>6, <1>7, <1>8

\* The sum over a set is a member's size and the sum over the others.
LEMMA SumSplits ==
    ASSUME NEW S, Sized(S), NEW x \in S
    PROVE  SumOf(S) = x.size + SumOf(S \ {x}) /\ SumOf(S) \in Nat /\ SumOf(S \ {x}) \in Nat
  <1> DEFINE T == S \ {x}
  <1>1. T \in SUBSET S /\ Sized(T) /\ IsFiniteSet(S)
    BY FS_Subset DEF Sized
  <1>2. PICK f : f = (CHOOSE k : Sums(k, S)) /\ Sums(f, S)
    BY <1>1, SumsExist
  <1>3. PICK g : g = (CHOOSE k : Sums(k, T)) /\ Sums(g, T)
    BY <1>1, SumsExist DEF Sized
  <1>4. SumOf(S) = f[S] /\ SumOf(T) = g[T]
    BY <1>2, <1>3, Expands
  <1>5. f[T] = g[T]
    BY <1>1, <1>2, <1>3, SameSums
  <1>6. f[S] = x.size + f[T] /\ f[S] \in Nat /\ f[T] \in Nat
    <2>1. \A s \in SUBSET S : /\ f[s] \in Nat
                              /\ \A e \in s : f[s] = e.size + f[s \ {e}]
      BY <1>2, AnyOrder
    <2> QED
      BY <1>1, <2>1
  <1> QED
    BY <1>4, <1>5, <1>6

\* Nothing adds up to nothing.
LEMMA SumOfNone == SumOf({}) = 0
  <1>1. PICK f : f = (CHOOSE k : Sums(k, {})) /\ Sums(f, {})
    BY SumsExist, FS_EmptySet
  <1>2. f = [r \in SUBSET {} |-> IF r = {} THEN 0 ELSE First(r).size + f[r \ {First(r)}]]
    BY <1>1, SumsIs
  <1> QED
    BY <1>1, <1>2, Expands

\* The sum is a number.
LEMMA SumIsNat == ASSUME NEW S, Sized(S) PROVE SumOf(S) \in Nat
  <1>1. CASE S = {}
    BY <1>1, SumOfNone
  <1>2. CASE S # {}
    BY <1>2, SumSplits
  <1> QED
    BY <1>1, <1>2

-----------------------------------------------------------------------------
(* The bytes in use. *)

\* The bytes in use, and that there are finitely many owners.
Counted == /\ IsFiniteSet(live) /\ IsFiniteSet(tables)
           /\ ~torn => used = SumOf(live) + PAGE * Cardinality(tables)

\* A block that is handed out is counted.
LEMMA OneMoreBlock ==
    ASSUME TypeOK, TypeOK', IsFiniteSet(live), NEW y, y \notin live, live' = live \union {y}
    PROVE  /\ IsFiniteSet(live') /\ SumOf(live') = SumOf(live) + y.size
           /\ SumOf(live) \in Nat /\ y.size \in Nat
  <1>1. live' \ {y} = live /\ y \in live'
    OBVIOUS
  <1>2. Sized(live')
    <2>1. IsFiniteSet(live')
      BY FS_AddElement
    <2>2. \A x \in live' : x.size \in Nat
      BY HeapTasksAssumption DEF TypeOK
    <2> QED
      BY <2>1, <2>2 DEF Sized
  <1>3. /\ SumOf(live') = y.size + SumOf(live' \ {y})
        /\ SumOf(live' \ {y}) \in Nat
    BY <1>1, <1>2, SumSplits
  <1>4. y.size \in Nat
    BY <1>1, <1>2 DEF Sized
  <1>5. SumOf(live') = y.size + SumOf(live) /\ SumOf(live) \in Nat
    BY <1>1, <1>3
  <1>6. SumOf(live') = SumOf(live) + y.size
    BY <1>4, <1>5
  <1> QED
    BY <1>2, <1>4, <1>5, <1>6 DEF Sized

\* The returned address lies in a block that nobody had.
LEMMA CountedReturn ==
    ASSUME TypeOK, TypeOK', Counted, ~torn, NEW t \in Tasks, Scanning(t),
           NEW ptr, Return(t, ptr),
           NEW y, y = [ptr |-> ptr, size |-> req[t]],
           ~Aligned(t) => y \notin live, Aligned(t) => ptr \notin tables
    PROVE  Counted'
  <1>1. CASE ~Aligned(t)
    <2>1. live' = live \union {y} /\ tables' = tables /\ used' = used + req[t]
      BY <1>1 DEF Return, Wanted
    <2>2. /\ IsFiniteSet(live') /\ SumOf(live') = SumOf(live) + y.size
          /\ SumOf(live) \in Nat /\ y.size \in Nat
      BY <1>1, <2>1, OneMoreBlock DEF Counted
    <2>3. y.size = req[t]
      OBVIOUS
    <2>4. used = SumOf(live) + PAGE * Cardinality(tables) /\ IsFiniteSet(tables)
      BY DEF Counted
    <2>5. PICK n : n = PAGE * Cardinality(tables)
      OBVIOUS
    <2>6. n \in Int
      BY <2>4, <2>5, FS_CardinalityType, PageSize
    <2>7. used' = SumOf(live') + n
      BY <2>1, <2>2, <2>3, <2>4, <2>5, <2>6
    <2> QED
      BY <2>1, <2>2, <2>4, <2>5, <2>7 DEF Counted
  <1>2. CASE Aligned(t)
    <2>1. live' = live /\ tables' = tables \union {ptr} /\ used' = used + PAGE
      BY <1>2 DEF Return, Wanted
    <2>2. used = SumOf(live) + PAGE * Cardinality(tables) /\ IsFiniteSet(tables)
      BY DEF Counted
    <2>3. /\ IsFiniteSet(tables') /\ Cardinality(tables') = Cardinality(tables) + 1
          /\ Cardinality(tables) \in Nat
      BY <1>2, <2>1, <2>2, FS_AddElement, FS_CardinalityType
    <2>4. PAGE * Cardinality(tables') = PAGE * Cardinality(tables) + PAGE
          /\ PAGE * Cardinality(tables) \in Nat
      BY <2>3, PageSize
    <2>5. SumOf(live) \in Nat
      BY SumIsNat, HeapTasksAssumption DEF TypeOK, Counted, Sized
    <2>6. used' = SumOf(live) + PAGE * Cardinality(tables')
      BY <2>1, <2>2, <2>4, <2>5, PageSize
    <2> QED
      BY <2>1, <2>3, <2>6 DEF Counted
  <1> QED
    BY <1>1, <1>2

\* Nobody has the hole that heap_malloc takes.
LEMMA HoleIsFree ==
    ASSUME TypeOK, Intact, NEW b \in blocks, hdr[b].hole
    PROVE  /\ \A x \in live : BlockOf(x) # b
           /\ \A p \in tables : ~Holds(b, p)
  <1>1. \A x \in live : BlockOf(x) # b
    BY DEF Intact, Owners
  <1>2. ASSUME NEW p \in tables, Holds(b, p) PROVE FALSE
    <2>1. PICK c \in blocks : ~hdr[c].hole /\ Holds(c, p)
      BY TableHome DEF Intact
    <2>2. b = c
      BY <1>2, <2>1, Home DEF Intact, Shape, TypeOK
    <2> QED
      BY <2>1, <2>2
  <1> QED
    BY <1>1, <1>2

\* heap_malloc takes a hole of the exact size.
LEMMA CountedTake ==
    ASSUME TypeOK, TypeOK', Intact, Counted, ~torn, NEW t \in Tasks, TakeWhole(t)
    PROVE  Counted'
  <1>1. PICK b, need : b = Cursor(t) /\ need = NeedOf(t)
    OBVIOUS
  <1>2. b \in blocks /\ Scanning(t) /\ Fits(t) /\ hdr[b].size = need /\ Return(t, b + HDR)
    BY <1>1, CursorIs DEF TakeWhole, NeedOf
  <1>3. /\ hdr[b].hole /\ need \in Nat /\ Boundary(b) \in Nat /\ b + HDR < Boundary(b)
        /\ Aligned(t) => need = PAGE + 3 + Boundary(b) - b
    BY <1>1, <1>2, FitsIs
  <1>4. b \in Nat /\ StopOf(b) = b + need
    BY <1>2, Layout DEF Intact, Shape
  <1>5. Aligned(t) => Holds(b, b + HDR)
    <2> SUFFICES ASSUME Aligned(t) PROVE Holds(b, b + HDR)
      OBVIOUS
    <2>1. need = PAGE + 3 + Boundary(b) - b
      BY <1>3
    <2>2. need >= PAGE + HDR + FTR
      BY <1>3, <1>4, <2>1, PageSize
    <2> QED
      BY <1>3, <1>4, <2>2, PageSize DEF Holds
  <1>6. PICK y : y = [ptr |-> b + HDR, size |-> req[t]]
    OBVIOUS
  <1>7. BlockOf(y) = b
    <2>1. y.ptr = b + HDR
      BY <1>6
    <2> QED
      BY <1>4, <2>1 DEF BlockOf
  <1>8. y \notin live /\ (Aligned(t) => b + HDR \notin tables)
    BY <1>2, <1>3, <1>5, <1>7, HoleIsFree
  <1> QED
    BY <1>2, <1>6, <1>8, CountedReturn

\* heap_malloc splits a hole, or faults.
LEMMA CountedSplit ==
    ASSUME TypeOK, TypeOK', Intact, Counted, ~torn, ~torn', NEW t \in Tasks, SplitHole(t)
    PROVE  Counted'
  <1>1. PICK b, need, ptr : /\ b = Cursor(t) /\ need = NeedOf(t)
                            /\ ptr = IF Aligned(t) THEN Boundary(b) - HDR + HDR ELSE b + HDR
    OBVIOUS
  <1>2. b \in blocks /\ Scanning(t) /\ Fits(t)
    BY <1>1, CursorIs DEF SplitHole
  <1>3. /\ hdr[b].hole /\ need \in Nat /\ Boundary(b) \in Nat /\ b + HDR < Boundary(b)
        /\ Aligned(t) => need = PAGE + 3 + Boundary(b) - b
        /\ hdr[b].size = need \/ hdr[b].size - need >= 3
    BY <1>1, <1>2, FitsIs
  <1>4. b \in Nat /\ StopOf(b) = b + hdr[b].size /\ hdr[b].size \in Nat
    BY <1>2, Layout DEF Intact, Shape
  <1>5. Aligned(t) => Holds(b, ptr)
    <2> SUFFICES ASSUME Aligned(t) PROVE Holds(b, ptr)
      OBVIOUS
    <2>1. ptr = Boundary(b) /\ ptr \in Nat /\ b + HDR <= ptr
      BY <1>1, <1>3, <1>4
    <2>2. need = PAGE + 3 + ptr - b
      BY <1>3, <2>1
    <2>3. b + need = PAGE + 3 + ptr
      BY <1>3, <1>4, <2>1, <2>2, PageSize
    <2>4. b + need <= StopOf(b)
      BY <1>3, <1>4
    <2>5. ptr + PAGE + FTR <= StopOf(b)
      BY <1>4, <2>1, <2>3, <2>4, PageSize
    <2> QED
      BY <2>1, <2>5 DEF Holds
  <1>6. PICK y : y = [ptr |-> ptr, size |-> req[t]]
    OBVIOUS
  <1>7. ~Aligned(t) => BlockOf(y) = b
    <2>1. y.ptr = ptr
      BY <1>6
    <2>2. ~Aligned(t) => y.ptr = b + HDR
      BY <1>1, <2>1
    <2> QED
      BY <1>4, <2>2 DEF BlockOf
  <1>8. (~Aligned(t) => y \notin live) /\ (Aligned(t) => ptr \notin tables)
    BY <1>2, <1>3, <1>5, <1>7, HoleIsFree
  <1>9. CASE Return(t, ptr)
    BY <1>2, <1>6, <1>8, <1>9, CountedReturn
  <1>10. CASE Stop("fault")
    BY <1>10 DEF Stop, memory, Counted
  <1>11. Return(t, ptr) \/ Stop("fault")
    BY <1>1 DEF SplitHole
  <1> QED
    BY <1>9, <1>10, <1>11

\* heap_free gives back what the owner asked for.
LEMMA CountedFree ==
    ASSUME TypeOK, TypeOK', Intact, Counted, ~torn, NEW t \in Tasks, NEW x \in live, KFree(t, x)
    PROVE  Counted'
  <1>1. CASE UNCHANGED <<used, live, tables>>
    BY <1>1 DEF Counted
  <1>2. CASE /\ used' = used - (hdr[BlockOf(x)].size - HDR - FTR)
             /\ live' = live \ {x} /\ tables' = tables
    <2>1. Sized(live) /\ x.size \in Nat
      BY HeapTasksAssumption DEF TypeOK, Counted, Sized
    <2>2. /\ SumOf(live) = x.size + SumOf(live') /\ SumOf(live') \in Nat
      BY <1>2, <2>1, SumSplits
    <2>3. hdr[BlockOf(x)].size - HDR - FTR = x.size
      <3>1. PICK size : size = hdr[BlockOf(x)].size
        OBVIOUS
      <3>2. size = FullSize(x.size)
        BY <3>1 DEF Intact, Owners
      <3>3. size - HDR - FTR = x.size
        BY <2>1, <3>2 DEF FullSize
      <3> QED
        BY <3>1, <3>3
    <2>4. used = SumOf(live) + PAGE * Cardinality(tables) /\ IsFiniteSet(tables)
      BY DEF Counted
    <2>5. PICK n : n = PAGE * Cardinality(tables)
      OBVIOUS
    <2>6. n \in Int
      BY <2>4, <2>5, FS_CardinalityType, PageSize
    <2>7. used' = SumOf(live') + n
      BY <1>2, <2>1, <2>2, <2>3, <2>4, <2>5, <2>6
    <2>8. IsFiniteSet(live')
      BY <1>2, FS_RemoveElement DEF Counted
    <2> QED
      BY <1>2, <2>4, <2>5, <2>7, <2>8 DEF Counted
  <1> QED
    BY <1>1, <1>2 DEF KFree, Stop, StopAt, memory, BlockOf

\* The owners stay finite, whatever happens to the list.
Finite == IsFiniteSet(live) /\ IsFiniteSet(tables)

LEMMA FiniteStep ==
    ASSUME Finite, [Next]_vars
    PROVE  Finite'
  <1>1. CASE UNCHANGED <<live, tables>>
    BY <1>1 DEF Finite
  <1>2. ASSUME NEW t \in Tasks, NEW ptr, Return(t, ptr) PROVE Finite'
    BY <1>2, FS_AddElement DEF Return, Finite
  <1>3. ASSUME NEW t \in Tasks, Client(t) PROVE Finite'
    <2>1. ASSUME NEW n \in Sizes, Malloc(t, n) PROVE Finite'
      BY <1>1, <2>1 DEF Malloc
    <2>2. ASSUME NEW x \in live, KFree(t, x) PROVE Finite'
      <3>1. live' = live \ {x} \/ live' = live
        BY <2>2 DEF KFree, Stop, StopAt
      <3>2. tables' = tables
        BY <2>2 DEF KFree, Stop, StopAt
      <3> QED
        BY <3>1, <3>2, FS_RemoveElement DEF Finite
    <2> QED
      BY <1>3, <2>1, <2>2 DEF Client
  <1>4. ASSUME NEW t \in Tasks, Continue(t) PROVE Finite'
    <2>1. CASE SkipBlock(t) \/ MapPage(t) \/ NeedTable(t) \/ TableLock(t) \/ InstallTable(t)
               \/ FindLast(t) \/ WalkFails(t) \/ ScanEnds(t) \/ PageRefused(t) \/ Extend(t)
      BY <1>1, <2>1 DEF SkipBlock, MapPage, NeedTable, TableLock, InstallTable, FindLast,
                        WalkFails, ScanEnds, PageRefused, Extend, Stop, StopAt
    <2>2. CASE TakeWhole(t)
      BY <1>2, <2>2 DEF TakeWhole
    <2>3. CASE SplitHole(t)
      <3>1. (\E ptr : Return(t, ptr)) \/ Stop("fault")
        BY <2>3 DEF SplitHole
      <3> QED
        BY <1>1, <1>2, <3>1 DEF Stop
    <2> QED
      BY <1>4, <2>1, <2>2, <2>3 DEF Continue
  <1>5. ASSUME NEW x \in live, UseBlock(x) PROVE Finite'
    BY <1>1, <1>5 DEF UseBlock, Stop
  <1>7. ASSUME NEW d \in Directory, Remap(d) PROVE Finite'
    BY <1>1, <1>7 DEF Remap
  <1>6. CASE UNCHANGED vars
    BY <1>1, <1>6 DEF vars
  <1> QED
    BY <1>3, <1>4, <1>5, <1>6, <1>7 DEF Next

\* A quiet step keeps the count.
LEMMA CountedStep ==
    ASSUME Inv, Inv', Counted, [QuietNext]_vars
    PROVE  Counted'
  <1>1. CASE torn'
    <2>1. Finite'
      BY FiniteStep, QuietIsNext DEF Counted, Finite
    <2> QED
      BY <1>1, <2>1 DEF Counted, Finite
  <1>2. CASE ~torn'
    <2>1. ~torn /\ TypeOK /\ TypeOK' /\ Intact
      BY <1>2, TornStays, QuietIsNext DEF Inv
    <2>2. CASE UNCHANGED <<used, live, tables>>
      BY <2>1, <2>2 DEF Counted
    <2>3. ASSUME NEW t \in Tasks, Client(t) PROVE Counted'
      <3>1. ASSUME NEW n \in Sizes, Malloc(t, n) PROVE Counted'
        BY <2>2, <3>1 DEF Malloc, memory
      <3> QED
        BY <2>1, <2>3, <3>1, CountedFree DEF Client
    <2>4. ASSUME NEW t \in Tasks, Continue(t) PROVE Counted'
      <3>1. CASE SkipBlock(t) \/ MapPage(t) \/ NeedTable(t) \/ TableLock(t) \/ InstallTable(t)
                 \/ FindLast(t) \/ WalkFails(t) \/ ScanEnds(t) \/ PageRefused(t) \/ Extend(t)
        BY <2>2, <3>1 DEF SkipBlock, MapPage, NeedTable, TableLock, InstallTable, FindLast,
                          WalkFails, ScanEnds, PageRefused, Extend, Stop, StopAt, memory
      <3> QED
        BY <1>2, <2>1, <2>4, <3>1, CountedTake, CountedSplit DEF Continue
    <2>5. ASSUME NEW x \in live, UseBlock(x) PROVE Counted'
      BY <2>2, <2>5 DEF UseBlock, Stop, memory
    <2>6. CASE UNCHANGED vars
      BY <2>2, <2>6 DEF vars, memory
    <2>7. ASSUME NEW d \in Directory, Remap(d) PROVE Counted'
      BY <2>2, <2>7 DEF Remap, memory
    <2> QED
      BY <2>3, <2>4, <2>5, <2>6, <2>7 DEF QuietNext
  <1> QED
    BY <1>1, <1>2

\* Nobody owns anything at first.
LEMMA InitCounted == Init => Counted
  <1> SUFFICES ASSUME Init PROVE Counted
    OBVIOUS
  <1>1. live = {} /\ tables = {} /\ used = 0
    BY DEF Init
  <1>2. SumOf(live) = 0 /\ Cardinality(tables) = 0
    BY <1>1, SumOfNone, FS_EmptySet
  <1> QED
    BY <1>1, <1>2, FS_EmptySet, PageSize DEF Counted

-----------------------------------------------------------------------------
(* The results. *)

\* The allocator keeps its inductive invariant: list, owners, pages, one task in
\* it, and cursors.
THEOREM InvHolds == QuietSpec => []Inv
  <1>1. Inv /\ [QuietNext]_vars => Inv'
    BY InvStep
  <1> QED
    BY <1>1, InitInv, PTL DEF QuietSpec

\* The block list of heap.c is sound at every step of kmalloc and kfree: blocks
\* tile the heap, footers name their headers, holes are merged, and every word of
\* the heap is mapped.
THEOREM ListCorrect == QuietSpec => []BlockListSound
  BY InvHolds, SoundList, PTL

\* What kmalloc handed out stays allocated at its full size until kfree, apart from
\* every other payload and page table and from all headers and footers.
THEOREM OwnersCorrect == QuietSpec => []OwnersSafe
  BY InvHolds, SafeOwners, PTL

\* kmalloc and kfree stop the machine on bad data only if the list was torn, and on
\* an unmapped page only if it was torn or the last flag was lost.
THEOREM StopsCorrect == QuietSpec => []StopsExplained
  <1>1. Inv => StopsExplained
    BY DEF Inv
  <1> QED
    BY <1>1, InvHolds, PTL

\* used_bytes is what the owners of payloads and page tables asked for, through
\* growth, splits and merges.
THEOREM UsedCorrect == QuietSpec => []UsedIsOwned
  <1>1. Inv /\ Inv' /\ Counted /\ [QuietNext]_vars => Counted'
    BY CountedStep
  <1>2. Counted => UsedIsOwned
    BY DEF Counted, UsedIsOwned, SumOf
  <1> QED
    BY <1>1, <1>2, InvHolds, InitCounted, PTL DEF QuietSpec
=============================================================================
