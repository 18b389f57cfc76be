---------------------------- MODULE Boot_proofs ----------------------------
(***************************************************************************)
(* What kmalloc_internal gives out before the heap exists is apart, and    *)
(* all of it is mapped when paging is turned on; programs are relocated    *)
(* once; load_ustar finds every file.  For machines, modules and archives  *)
(* of any size.                                                            *)
(***************************************************************************)
EXTENDS Boot, SequenceTheorems, WellFoundedInduction, TLAPS

-----------------------------------------------------------------------------
(* Multiples of PAGE. *)

Aligned(a) == \E j \in Int : a = j * PAGE

LEMMA Sizes == /\ PAGE \in Nat /\ PAGE > 0 /\ END \in Nat /\ QDATA \in Nat
               /\ HEAP \in Nat /\ HEAP > 0 /\ BLOCK \in Nat /\ BLOCK > 0
  BY BootAssumption

LEMMA OneMore == ASSUME NEW j \in Int, NEW k \in Int, j < k PROVE j * PAGE + PAGE <= k * PAGE
  BY Sizes

LEMMA Distributes ==
    ASSUME NEW j \in Int, NEW k \in Int
    PROVE  /\ (j + k) * PAGE = j * PAGE + k * PAGE /\ (j - k) * PAGE = j * PAGE - k * PAGE
           /\ j * PAGE \in Int /\ k * PAGE \in Int /\ 1 * PAGE = PAGE
  BY Sizes

LEMMA AlignedSum ==
    ASSUME NEW a \in Int, NEW b \in Int, Aligned(a), Aligned(b)
    PROVE  Aligned(a + b) /\ Aligned(a - b)
  <1>1. PICK j \in Int : a = j * PAGE
    BY DEF Aligned
  <1>2. PICK k \in Int : b = k * PAGE
    BY DEF Aligned
  <1>3. a + b = (j + k) * PAGE /\ a - b = (j - k) * PAGE
    BY <1>1, <1>2, Distributes
  <1>4. j + k \in Int /\ j - k \in Int
    OBVIOUS
  <1> QED
    BY <1>3, <1>4 DEF Aligned

\* There is nothing aligned between an aligned address and the next.
LEMMA NextPage ==
    ASSUME NEW a \in Int, NEW b \in Int, Aligned(a), Aligned(b), a < b
    PROVE  a + PAGE <= b
  <1>1. PICK j \in Int : a = j * PAGE
    BY DEF Aligned
  <1>2. PICK k \in Int : b = k * PAGE
    BY DEF Aligned
  <1>3. j < k
    <2>1. k <= j => k * PAGE <= j * PAGE
      BY Sizes
    <2> QED
      BY <1>1, <1>2, <2>1, Distributes
  <1> QED
    BY <1>1, <1>2, <1>3, OneMore

LEMMA Divided == ASSUME NEW p \in Nat
                 PROVE  /\ p \div PAGE \in Int /\ p = PAGE * (p \div PAGE) + (p % PAGE)
                        /\ p % PAGE \in 0 .. PAGE - 1
  BY Sizes

LEMMA PageOf ==
    ASSUME NEW p \in Nat
    PROVE  /\ p - (p % PAGE) \in Nat /\ Aligned(p - (p % PAGE))
           /\ p - (p % PAGE) <= p /\ p < p - (p % PAGE) + PAGE
  <1> DEFINE q == p \div PAGE
             r == p % PAGE
  <1>1. q \in Int /\ r \in 0 .. PAGE - 1 /\ p = q * PAGE + r
    BY Divided, Sizes
  <1> HIDE DEF q, r
  <1>2. p - r = q * PAGE
    BY <1>1, Sizes
  <1>3. q * PAGE >= 0
    <2>1. q < 0 => q * PAGE + PAGE <= 0 * PAGE
      BY <1>1, OneMore
    <2> QED
      BY <1>1, <2>1, Sizes
  <1>4. Aligned(p - r)
    BY <1>1, <1>2 DEF Aligned
  <1> QED
    BY <1>1, <1>2, <1>3, <1>4, Sizes DEF r

LEMMA Exact == ASSUME NEW p \in Nat, p % PAGE = 0 PROVE Aligned(p)
  BY PageOf

\* align4k goes to the next page boundary, not below where it was.
LEMMA AlignUp ==
    ASSUME NEW a \in Nat
    PROVE  align4k(a) \in Nat /\ align4k(a) >= a /\ Aligned(align4k(a))
  <1> DEFINE low == a - (a % PAGE)
  <1>1. low \in Nat /\ Aligned(low) /\ a < low + PAGE
    BY PageOf
  <1>2. Aligned(PAGE)
    BY Distributes DEF Aligned
  <1>3. align4k(a) = IF a % PAGE = 0 THEN a ELSE low + PAGE
    BY DEF align4k
  <1> HIDE DEF low
  <1>4. Aligned(low + PAGE)
    BY <1>1, <1>2, AlignedSum, Sizes
  <1>5. CASE a % PAGE = 0
    BY <1>3, <1>5, Exact
  <1>6. CASE a % PAGE # 0
    BY <1>1, <1>3, <1>4, <1>6, Sizes
  <1> QED
    BY <1>5, <1>6

-----------------------------------------------------------------------------
(* The invariant: while memory is given out it is given out upwards; when  *)
(* paging is on, nothing is given out any more.                            *)

Early == phase \in {"io_init", "idt_init", "memory_init", "map"}
Kept  == {"directory", "table", "heap"}

Inputs   == memory_size \in Nat /\ mods \in ModuleLists
TakenOK  == /\ \A a \in taken : a.from \in Nat /\ a.to \in Nat
            /\ \A a, b \in taken : a # b => Apart(a, b)
            /\ \A a \in taken : a.use \in Kept /\ mods # <<>> => mods[1].to <= a.from
Upwards  == /\ alloc_ptr \in Nat /\ heap_start = NULL /\ status # "page_fault"
            /\ \A a \in taken : a.to <= alloc_ptr
Walked   == /\ it \in Nat /\ Aligned(it)
            /\ \A p \in mapped : p <= memory_size - PAGE
            /\ \A p \in Nat : Aligned(p) /\ p < it /\ p <= memory_size - PAGE => p \in mapped
Mapping  == Aligned(alloc_ptr) /\ (mods # <<>> => mods[1].to <= alloc_ptr)
Backed   == /\ heap_start # NULL /\ status # "page_fault"
                 => \A a \in taken : a.use \in Kept
                      => \A p \in a.from .. a.to - 1 : p - (p % PAGE) \in mapped
            /\ status = "page_fault" => heap_start + HEAP > memory_size

HInv == /\ Inputs /\ TakenOK
        /\ Early => Upwards /\ Walked
        /\ phase = "map" => Mapping
        /\ ~Early => Backed

LEMMA HInvBacked == HInv => HeapBacked
  <1> SUFFICES ASSUME HInv PROVE HeapBacked
    OBVIOUS
  <1>1. \A a \in taken : a.use \in Kept /\ mods # <<>> => Apart(a, mods[1])
    BY DEF HInv, TakenOK, Apart
  <1>2. Backed
    BY DEF HInv, Upwards, Backed
  <1> QED
    BY <1>1, <1>2 DEF HInv, TakenOK, HeapBacked, Backed, Kept

LEMMA HInvInit == Init => HInv
  <1> SUFFICES ASSUME Init PROVE HInv
    OBVIOUS
  <1>1. Inputs
    BY BootAssumption DEF Init, Inputs
  <1>2. TakenOK
    <2>1. taken = {[use |-> "kernel", from |-> 0, to |-> END]}
      BY DEF Init, Area
    <2>2. \A a \in taken : a.from \in Nat /\ a.to \in Nat
      BY <2>1, Sizes
    <2>3. \A a \in taken : a.use \notin Kept
      BY <2>1 DEF Kept
    <2>4. \A a, b \in taken : a = b
      BY <2>1
    <2> QED
      BY <2>2, <2>3, <2>4 DEF TakenOK
  <1>3. Upwards
    BY Sizes DEF Init, Upwards, Area
  <1>4. Aligned(0)
    BY Sizes DEF Aligned
  <1>5. Walked
    BY <1>4 DEF Init, Walked
  <1>6. Early /\ phase # "map"
    BY DEF Init, Early
  <1> QED
    BY <1>1, <1>2, <1>3, <1>5, <1>6 DEF HInv

\* What is given out at or above alloc_ptr is apart from what was before.
LEMMA BumpKeeps ==
    ASSUME Inputs, TakenOK, Upwards, NEW use, NEW size \in Nat, NEW from \in Nat,
           from >= alloc_ptr, use \in Kept /\ mods # <<>> => mods[1].to <= from,
           Bump(use, size, from), UNCHANGED <<mods, heap_start, status>>
    PROVE  TakenOK' /\ Upwards' /\ alloc_ptr' = from + size
  <1> DEFINE new == Area(use, from, from + size)
  <1>1. taken' = taken \union {new} /\ alloc_ptr' = from + size
    BY DEF Bump
  <1>2. new.from = from /\ new.to = from + size
        /\ new.use = use
    BY DEF Area
  <1> HIDE DEF new
  <1>3. \A a \in taken : a.to <= from /\ a.to \in Nat /\ a.from \in Nat
    BY DEF Upwards, TakenOK
  <1>4. \A a \in taken : Apart(a, new) /\ Apart(new, a)
    BY <1>2, <1>3 DEF Apart
  <1>5. \A a, b \in taken' : a # b => Apart(a, b)
    BY <1>1, <1>4 DEF TakenOK
  <1>6. \A a \in taken' : a.use \in Kept /\ mods # <<>> => mods[1].to <= a.from
    BY <1>1, <1>2 DEF TakenOK
  <1>7. \A a \in taken' : a.from \in Nat /\ a.to \in Nat
    BY <1>1, <1>2 DEF TakenOK
  <1>8. \A a \in taken' : a.to <= from + size
    BY <1>1, <1>2, <1>3
  <1>9. from + size \in Nat
    OBVIOUS
  <1>10. Upwards'
    BY <1>1, <1>8, <1>9 DEF Upwards
  <1>11. TakenOK'
    BY <1>5, <1>6, <1>7 DEF TakenOK, Apart, Kept
  <1> QED
    BY <1>1, <1>10, <1>11

\* One turn of the mapping loop.
LEMMA MapPageKeeps ==
    ASSUME HInv, MapPage
    PROVE  Inputs' /\ TakenOK' /\ Upwards' /\ Walked' /\ Mapping'
  <1>1. /\ Early /\ Inputs /\ TakenOK /\ Upwards /\ Walked /\ Mapping
    BY DEF HInv, MapPage, Goto, Early
  <1>2. UNCHANGED <<memory_size, mods, heap_start, status>> /\ it' = it + PAGE
    BY DEF MapPage, inputs
  <1>3. Inputs'
    BY <1>1, <1>2 DEF Inputs
  <1>4. Aligned(PAGE)
    BY Distributes DEF Aligned
  <1>5. it' \in Nat /\ Aligned(it')
    BY <1>1, <1>2, <1>4, AlignedSum, Sizes DEF Walked
  <1>6. Walked'
    <2>1. mapped' = IF it > memory_size - PAGE THEN mapped ELSE mapped \union {it}
      BY DEF MapPage
    <2>2. \A q \in mapped' : q <= memory_size - PAGE
      BY <1>1, <2>1, Sizes DEF Walked, Inputs
    <2>3. ASSUME NEW q \in Nat, Aligned(q), q < it', q <= memory_size - PAGE
          PROVE  q \in mapped'
      <3>1. CASE q < it
        BY <1>1, <2>1, <2>3, <3>1 DEF Walked
      <3>2. CASE ~(q < it)
        <4>1. it < q => it + PAGE <= q
          BY <1>1, <2>3, NextPage DEF Walked
        <4>2. q = it
          BY <1>1, <1>2, <2>3, <3>2, <4>1, Sizes DEF Walked
        <4> QED
          BY <1>1, <2>1, <2>3, <4>2, Sizes DEF Inputs
      <3> QED
        BY <3>1, <3>2
    <2> QED
      BY <1>2, <1>5, <2>2, <2>3 DEF Walked, Aligned
  <1>7. CASE it > memory_size - PAGE \/ directory[TableOf(it)] # NULL
    <2>1. UNCHANGED <<alloc_ptr, taken>>
      BY <1>7 DEF MapPage
    <2>2. TakenOK'
      BY <1>1, <1>2, <2>1 DEF TakenOK, Apart
    <2>3. Upwards' /\ Mapping'
      BY <1>1, <1>2, <2>1 DEF Upwards, Mapping, Aligned
    <2> QED
      BY <1>3, <1>6, <2>2, <2>3
  <1>8. CASE ~(it > memory_size - PAGE \/ directory[TableOf(it)] # NULL)
    <2>1. Bump("table", PAGE, align4k(alloc_ptr))
      BY <1>8 DEF MapPage
    <2>2. align4k(alloc_ptr) \in Nat /\ align4k(alloc_ptr) >= alloc_ptr /\ Aligned(align4k(alloc_ptr))
      BY <1>1, AlignUp DEF Upwards
    <2>3. mods # <<>> => mods[1].to \in Nat
      BY <1>1, BootAssumption DEF Inputs
    <2>4. mods # <<>> => mods[1].to <= align4k(alloc_ptr)
      BY <1>1, <2>2, <2>3 DEF Mapping, Upwards
    <2>5. TakenOK' /\ Upwards' /\ alloc_ptr' = align4k(alloc_ptr) + PAGE
      <3>1. UNCHANGED <<mods, heap_start, status>>
        BY <1>2
      <3> DEFINE from == align4k(alloc_ptr)
      <3>2. from \in Nat /\ from >= alloc_ptr /\ Bump("table", PAGE, from) /\ PAGE \in Nat
        BY <2>1, <2>2, Sizes
      <3>3. mods # <<>> => mods[1].to <= from
        BY <2>4
      <3> HIDE DEF from
      <3>4. TakenOK' /\ Upwards' /\ alloc_ptr' = from + PAGE
        BY <1>1, <3>1, <3>2, <3>3, BumpKeeps
      <3> QED
        BY <3>4 DEF from
    <2>6. Aligned(alloc_ptr')
      BY <1>4, <2>2, <2>5, AlignedSum, Sizes
    <2>7. mods # <<>> => mods[1].to <= alloc_ptr'
      BY <2>2, <2>3, <2>4, <2>5, Sizes
    <2>8. Mapping'
      BY <1>2, <2>6, <2>7 DEF Mapping, Aligned
    <2> QED
      BY <1>3, <1>6, <2>5, <2>8
  <1> QED
    BY <1>7, <1>8

\* The loop is through: everything up to the end of the heap is mapped, or the
\* machine ends before it.
LEMMA HeapInitBacks ==
    ASSUME HInv, HeapInit
    PROVE  Inputs' /\ TakenOK' /\ Backed'
  <1>1. /\ Early /\ Inputs /\ TakenOK /\ Upwards /\ Walked /\ Mapping
    BY DEF HInv, HeapInit, Goto, Early
  <1> DEFINE new == Area("heap", alloc_ptr, alloc_ptr + HEAP)
             top == alloc_ptr + HEAP
  <1>2. /\ UNCHANGED <<memory_size, mods, mapped>> /\ heap_start' = alloc_ptr
        /\ taken' = taken \union {new} /\ it >= top
    BY DEF HeapInit, inputs, LoopEnd
  <1>3. new.use = "heap" /\ new.from = alloc_ptr /\ new.to = top
    BY DEF Area
  <1>4. /\ alloc_ptr \in Nat /\ top \in Nat /\ alloc_ptr < top /\ it \in Nat /\ memory_size \in Nat
    BY <1>1, Sizes DEF Upwards, Walked, Inputs
  <1>5. /\ {alloc_ptr, top - PAGE} \subseteq mapped => status' = status
        /\ ~({alloc_ptr, top - PAGE} \subseteq mapped) => status' = "page_fault"
    <2>1. alloc_ptr + HEAP - PAGE = top - PAGE
      BY <1>4, Sizes
    <2> QED
      BY <2>1 DEF HeapInit, Stop
  <1>6. Aligned(top) /\ Aligned(top - PAGE) /\ Aligned(alloc_ptr) /\ alloc_ptr + PAGE <= top
    <2>1. Aligned(PAGE) /\ Aligned(HEAP) /\ Aligned(alloc_ptr)
      <3>1. Aligned(PAGE)
        BY Distributes DEF Aligned
      <3>2. Aligned(HEAP)
        BY Exact, BootAssumption, Sizes
      <3> QED
        BY <1>1, <3>1, <3>2 DEF Mapping
    <2>2. Aligned(top)
      BY <1>4, <2>1, AlignedSum, Sizes
    <2> QED
      BY <1>4, <2>1, <2>2, AlignedSum, NextPage, Sizes
  <1> HIDE DEF new, top
  <1>7. Inputs'
    BY <1>1, <1>2 DEF Inputs
  <1>8. TakenOK'
    <2>1. \A a \in taken : Apart(a, new) /\ Apart(new, a)
      BY <1>1, <1>3 DEF Apart, Upwards
    <2>2. \A a, b \in taken' : a # b => Apart(a, b)
      BY <1>1, <1>2, <2>1 DEF TakenOK
    <2>3. \A a \in taken' : a.use \in Kept /\ mods # <<>> => mods[1].to <= a.from
      BY <1>1, <1>2, <1>3 DEF TakenOK, Mapping
    <2>4. \A a \in taken' : a.from \in Nat /\ a.to \in Nat
      BY <1>1, <1>2, <1>3, <1>4 DEF TakenOK
    <2> QED
      BY <1>2, <2>2, <2>3, <2>4 DEF TakenOK, Apart, Kept
  <1>9. CASE {alloc_ptr, top - PAGE} \subseteq mapped
    <2>1. top - PAGE <= memory_size - PAGE
      BY <1>1, <1>9 DEF Walked
    <2>2. ASSUME NEW a \in taken', NEW p \in a.from .. a.to - 1
          PROVE  p - (p % PAGE) \in mapped
      <3>1. a.from \in Nat /\ a.to \in Nat /\ a.to <= top
        BY <1>1, <1>2, <1>3, <1>4, <2>2 DEF TakenOK, Upwards
      <3>2. p \in Nat /\ p < top
        BY <1>4, <2>2, <3>1
      <3> DEFINE q == p - (p % PAGE)
      <3>3. q \in Nat /\ Aligned(q) /\ q <= p
        BY <3>2, PageOf
      <3> HIDE DEF q
      <3>4. q + PAGE <= top
        BY <1>4, <1>6, <3>2, <3>3, NextPage
      <3>5. q < it /\ q <= memory_size - PAGE
        BY <1>2, <1>4, <2>1, <3>2, <3>3, <3>4, Sizes
      <3>6. q \in mapped
        BY <1>1, <3>3, <3>5 DEF Walked
      <3> QED
        BY <3>6 DEF q
    <2>3. status' # "page_fault"
      BY <1>1, <1>5, <1>9 DEF Upwards
    <2> QED
      BY <1>2, <1>7, <1>8, <2>2, <2>3 DEF Backed
  <1>10. CASE ~({alloc_ptr, top - PAGE} \subseteq mapped)
    <2>1. PICK q \in {alloc_ptr, top - PAGE} : q \notin mapped
      BY <1>10
    <2>2. q \in Nat /\ Aligned(q) /\ q < it /\ q + PAGE <= top
      BY <1>2, <1>4, <1>6, Sizes
    <2>3. q > memory_size - PAGE
      BY <1>1, <1>4, <2>1, <2>2, Sizes DEF Walked
    <2>4. alloc_ptr + HEAP > memory_size
      BY <1>4, <2>2, <2>3, Sizes DEF top
    <2>5. status' = "page_fault"
      BY <1>5, <1>10
    <2> QED
      BY <1>2, <1>7, <1>8, <2>4, <2>5 DEF Backed
  <1> QED
    BY <1>9, <1>10

\* From check_modules on memory stays as it is.
Later == /\ ~Early /\ ~Early' /\ phase' # "map"
         /\ UNCHANGED <<memory_size, mods, heap_start, mapped, taken>>
         /\ status = "ok" /\ status' # "page_fault"

LEMMA CallStatus ==
    ASSUME NEW k, elf_load(k), status = "ok"
    PROVE  status' # "page_fault"
  BY DEF elf_load, Call, Stop

LEMMA LaterSteps ==
    ASSUME CheckModules \/ LoadHeader \/ LoadEnd \/ NextModule \/ RunShell \/ Exec \/ Return
    PROVE  Later
  <1>1. CASE CheckModules
    BY <1>1 DEF CheckModules, Goto, Later, Early, inputs, memory
  <1>2. CASE LoadHeader
    BY <1>2 DEF LoadHeader, Goto, Later, Early, inputs, memory
  <1>3. CASE LoadEnd
    BY <1>3 DEF LoadEnd, Goto, Later, Early, inputs, memory
  <1>4. CASE NextModule
    BY <1>4 DEF NextModule, Goto, Stop, Later, Early, inputs, memory
  <1>5. CASE RunShell
    <2>1. status = "ok" /\ phase = "run_shell" /\ phase' = "running"
      BY <1>5 DEF RunShell, Goto
    <2>2. status' # "page_fault"
      BY <1>5, <2>1, CallStatus DEF RunShell, Stop
    <2> QED
      BY <1>5, <2>1, <2>2 DEF RunShell, Later, Early, inputs, memory
  <1>6. CASE Exec
    <2>1. status = "ok" /\ phase = "running" /\ phase' = "running"
      BY <1>6 DEF Exec, Goto
    <2>2. status' # "page_fault"
      BY <1>6, <2>1, CallStatus DEF Exec
    <2> QED
      BY <1>6, <2>1, <2>2 DEF Exec, Later, Early, inputs, memory
  <1>7. CASE Return
    BY <1>7 DEF Return, Goto, Later, Early, inputs, memory
  <1> QED
    BY <1>1, <1>2, <1>3, <1>4, <1>5, <1>6, <1>7

LEMMA HInvStep == HInv /\ [Next]_vars => HInv'
  <1> SUFFICES ASSUME HInv, [Next]_vars PROVE HInv'
    OBVIOUS
  <1> USE DEF Goto
  <1>1. CASE IoInit
    <2>1. Early /\ Inputs /\ TakenOK /\ Upwards /\ Walked
      BY <1>1 DEF HInv, IoInit, Early
    <2>2. UNCHANGED <<memory_size, mods, heap_start, status, it, mapped>> /\ phase' = "idt_init"
      BY <1>1 DEF IoInit, inputs
    <2>3. TakenOK' /\ Upwards'
      <3>1. Bump("queue", QDATA, alloc_ptr) /\ "queue" \notin Kept
        BY <1>1 DEF IoInit, Kept
      <3> QED
        BY <2>1, <2>2, <3>1, BumpKeeps, Sizes DEF Upwards
    <2>4. Inputs' /\ Walked'
      BY <2>1, <2>2 DEF Inputs, Walked, Aligned
    <2> QED
      BY <2>2, <2>3, <2>4 DEF HInv, Early
  <1>2. CASE IdtInit
    <2>1. Early /\ Inputs /\ TakenOK /\ Upwards /\ Walked
      BY <1>2 DEF HInv, IdtInit, Early
    <2>2. /\ UNCHANGED <<memory_size, mods, alloc_ptr, heap_start, status, it, mapped, taken>>
          /\ phase' = "memory_init"
      BY <1>2 DEF IdtInit, inputs, memory
    <2> QED
      BY <2>1, <2>2 DEF HInv, Early, Inputs, TakenOK, Apart, Upwards, Walked, Aligned
  <1>3. CASE Tick
    <2>1. UNCHANGED <<memory_size, mods, phase, alloc_ptr, heap_start, it, mapped, taken>>
      BY <1>3 DEF Tick, inputs, memory
    <2>2. status = "ok" /\ status' = "triple_fault"
      BY <1>3 DEF Tick, Stop
    <2>3. Inputs' /\ TakenOK'
      BY <2>1 DEF HInv, Inputs, TakenOK, Apart, Kept
    <2>4. Early' => Upwards' /\ Walked'
      BY <2>1, <2>2 DEF HInv, Early, Upwards, Walked, Aligned
    <2>5. phase' = "map" => Mapping'
      BY <2>1 DEF HInv, Mapping, Aligned
    <2>6. ~Early' => Backed'
      BY <2>1, <2>2 DEF HInv, Early, Backed, Kept
    <2> QED
      BY <2>3, <2>4, <2>5, <2>6 DEF HInv
  <1>4. CASE MemoryInit
    <2>1. Early /\ Inputs /\ TakenOK /\ Upwards /\ Walked
      BY <1>4 DEF HInv, MemoryInit, Early
    <2>2. UNCHANGED <<memory_size, mods, heap_start, status, it, mapped>> /\ phase' = "map"
      BY <1>4 DEF MemoryInit, inputs
    <2> DEFINE start == IF alloc_ptr < save_modules THEN save_modules ELSE alloc_ptr
               from  == align4k(start)
    <2>3. Bump("directory", PAGE, from)
      BY <1>4 DEF MemoryInit
    <2>4. mods # <<>> => mods[1].to \in Nat
      BY <2>1, BootAssumption DEF Inputs
    <2>5. start \in Nat /\ start >= alloc_ptr /\ (mods # <<>> => mods[1].to <= start)
      BY <2>1, <2>4 DEF save_modules, Upwards
    <2> HIDE DEF start
    <2>6. from \in Nat /\ from >= start /\ Aligned(from)
      BY <2>5, AlignUp
    <2> HIDE DEF from
    <2>7. from >= alloc_ptr /\ (mods # <<>> => mods[1].to <= from)
      BY <2>1, <2>4, <2>5, <2>6 DEF Upwards
    <2>8. TakenOK' /\ Upwards' /\ alloc_ptr' = from + PAGE
      BY <2>1, <2>2, <2>3, <2>6, <2>7, BumpKeeps, Sizes
    <2>9. Mapping'
      <3>1. Aligned(PAGE)
        BY Distributes DEF Aligned
      <3>2. Aligned(alloc_ptr')
        BY <2>6, <2>8, <3>1, AlignedSum, Sizes
      <3>3. mods # <<>> => mods[1].to <= alloc_ptr'
        BY <2>4, <2>6, <2>7, <2>8, Sizes
      <3> QED
        BY <2>2, <3>2, <3>3 DEF Mapping, Aligned
    <2>10. Inputs' /\ Walked'
      BY <2>1, <2>2 DEF Inputs, Walked, Aligned
    <2> QED
      BY <2>2, <2>8, <2>9, <2>10 DEF HInv, Early
  <1>5. CASE MapPage
    BY <1>5, MapPageKeeps DEF HInv, MapPage, Early
  <1>6. CASE HeapInit
    BY <1>6, HeapInitBacks DEF HInv, HeapInit, Early
  <1>7. CASE CheckModules \/ LoadHeader \/ LoadEnd \/ NextModule \/ RunShell \/ Exec \/ Return
    <2>1. Later
      BY <1>7, LaterSteps
    <2>2. Inputs' /\ TakenOK'
      BY <2>1 DEF Later, HInv, Inputs, TakenOK, Apart, Kept
    <2>3. Backed'
      BY <2>1 DEF Later, HInv, Backed, Kept
    <2> QED
      BY <2>1, <2>2, <2>3 DEF Later, HInv
  <1>8. CASE UNCHANGED vars
    <2>1. UNCHANGED <<memory_size, mods, phase, alloc_ptr, heap_start, it, mapped, taken, status>>
      BY <1>8 DEF vars, inputs, memory
    <2>2. Inputs' /\ TakenOK'
      BY <2>1 DEF HInv, Inputs, TakenOK, Apart, Kept
    <2>3. Early' => Upwards' /\ Walked'
      BY <2>1 DEF HInv, Early, Upwards, Walked, Aligned
    <2>4. phase' = "map" => Mapping'
      BY <2>1 DEF HInv, Mapping, Aligned
    <2>5. ~Early' => Backed'
      BY <2>1 DEF HInv, Early, Backed, Kept
    <2> QED
      BY <2>2, <2>3, <2>4, <2>5 DEF HInv
  <1> QED
    BY <1>1, <1>2, <1>3, <1>4, <1>5, <1>6, <1>7, <1>8 DEF Next

\* kmalloc_internal, alloc_page and memory_init: whatever the size of memory,
\* of a page and of the heap, and wherever the loader has put the modules, what
\* is given out is apart, the directory, its tables and the heap are behind the
\* first module, and the whole of them is mapped when paging is turned on.
THEOREM MemoryIsBacked == Spec => []HeapBacked
  BY HInvInit, HInvStep, HInvBacked, PTL DEF Spec

-----------------------------------------------------------------------------
(* Relocation: a file is marked exactly when its table has been relocated, *)
(* and only marked files are in execution.                                 *)

Words(k)  == 0 .. archive[k].size - 1
Nodes     == {[name |-> archive[k].name, size |-> archive[k].size, data |-> d, file |-> k] :
                 k \in Files, d \in Int}
FilesOK   == /\ archive \in Archives
             /\ fs_root \in Seq(Nodes)
             /\ phase = "load_ustar" => header \in Int
Shape     == /\ shifted = [k \in Files |-> shifted[k]]
             /\ \A k \in Files : shifted[k] \in [Words(k) -> Int]
             /\ ran \in [Files -> BOOLEAN]
             /\ stack \in Seq(Files)
Shifted(k) == \A w \in Words(k) : shifted[k][w] = IF w \in GotWords(archive[k]) THEN 1 ELSE 0
Fresh(k)   == \A w \in Words(k) : shifted[k][w] = 0
Marks     == \A k \in Files :
                /\ ran[k] => archive[k].magic /\ EntryMoves(archive[k]) /\ Shifted(k)
                /\ ~ran[k] /\ status = "ok" => Fresh(k)
                /\ \A w \in Words(k) : shifted[k][w] <= 1
Running   == \A i \in DOMAIN stack : ran[stack[i]]

RInv == FilesOK /\ Shape /\ Marks /\ Running

\* A program's table is inside its file.
LEMMA TableInFile ==
    ASSUME FilesOK, NEW k \in Files, archive[k].magic
    PROVE  GotWords(archive[k]) \subseteq Words(k)
  <1>1. /\ archive[k].size \in Nat /\ archive[k].got.at \in Int /\ archive[k].got.words \in Int
        /\ archive[k].got.at >= 1 /\ archive[k].got.at + archive[k].got.words - 2 < archive[k].size
    <2>1. archive \in Archives /\ k \in DOMAIN archive
      BY DEF FilesOK, Files
    <2> QED
      BY <2>1, ArchiveAssumption
  <1> QED
    BY <1>1 DEF GotWords, Words

LEMMA RInvOnce == RInv => RelocatedOnce
  <1> SUFFICES ASSUME RInv PROVE RelocatedOnce
    OBVIOUS
  <1>1. ASSUME NEW k \in Files PROVE \A w \in DOMAIN shifted[k] : shifted[k][w] <= 1
    BY DEF RInv, Shape, Marks
  <1>2. ASSUME NEW k \in Files, NEW i \in DOMAIN stack, stack[i] = k,
               NEW w \in GotWords(archive[k])
        PROVE  shifted[k][w] = 1
    <2>1. ran[k]
      BY <1>2 DEF RInv, Running
    <2>2. archive[k].magic /\ Shifted(k)
      BY <2>1 DEF RInv, Marks
    <2>3. w \in Words(k)
      BY <1>2, <2>2, TableInFile DEF RInv
    <2> QED
      BY <1>2, <2>2, <2>3 DEF Shifted
  <1> QED
    BY <1>1, <1>2 DEF RelocatedOnce

LEMMA RInvInit == Init => RInv
  <1> SUFFICES ASSUME Init PROVE RInv
    OBVIOUS
  <1>1. FilesOK
    BY DEF Init, FilesOK
  <1>2. \A k \in Files : shifted[k] = [w \in Words(k) |-> 0]
    BY DEF Init, Words
  <1>3. \A k \in Files : shifted[k] \in [Words(k) -> Int]
    <2>1. ASSUME NEW k \in Files PROVE [w \in Words(k) |-> 0] \in [Words(k) -> Int]
      OBVIOUS
    <2> QED
      BY <1>2, <2>1
  <1>4. shifted = [k \in Files |-> [w \in Words(k) |-> 0]]
    BY DEF Init, Words
  <1>5. shifted = [k \in Files |-> shifted[k]]
    BY <1>4
  <1>6. Shape
    BY <1>3, <1>5 DEF Init, Shape
  <1>7. Marks
    <2>1. ASSUME NEW k \in Files PROVE Fresh(k) /\ \A w \in Words(k) : shifted[k][w] <= 1
      <3>1. \A w \in Words(k) : shifted[k][w] = 0
        BY <1>2
      <3> QED
        BY <3>1 DEF Fresh
    <2>2. \A k \in Files : ~ran[k]
      BY DEF Init
    <2> QED
      BY <2>1, <2>2 DEF Marks
  <1>8. Running
    BY DEF Init, Running
  <1> QED
    BY <1>1, <1>6, <1>7, <1>8 DEF RInv

\* remap_global_offset_table adds to the words of an unmarked file only.
LEMMA RelocateKeeps ==
    ASSUME RInv, NEW k \in Files, status = "ok", Relocate(k), UNCHANGED archive
    PROVE  /\ shifted' = [j \in Files |-> shifted'[j]]
           /\ \A j \in Files : shifted'[j] \in [Words(j) -> Int]
           /\ \A j \in Files \ {k} : shifted'[j] = shifted[j]
           /\ \A w \in Words(k) : shifted'[k][w] = IF w \in GotWords(archive[k]) THEN 1 ELSE 0
  <1> DEFINE add(w) == IF w \in GotWords(archive[k]) /\ ~ran[k] THEN 1 ELSE 0
  <1>1. shifted = [j \in Files |-> shifted[j]] /\ \A j \in Files : shifted[j] \in [Words(j) -> Int]
    BY DEF RInv, Shape
  <1>2. shifted' = [shifted EXCEPT ![k] = [w \in DOMAIN shifted[k] |-> shifted[k][w] + add(w)]]
    BY DEF Relocate
  <1>3. \A w \in Words(k) : add(w) \in Int
    OBVIOUS
  <1> HIDE DEF add
  <1>4. DOMAIN shifted[k] = Words(k)
    BY <1>1
  <1>5. shifted'[k] = [w \in Words(k) |-> shifted[k][w] + add(w)]
    BY <1>1, <1>2, <1>4
  <1>6. \A j \in Files \ {k} : shifted'[j] = shifted[j]
    BY <1>1, <1>2
  <1>7. shifted' = [j \in Files |-> shifted'[j]]
    BY <1>1, <1>2
  <1>8. shifted'[k] \in [Words(k) -> Int]
    <2>1. \A w \in Words(k) : shifted[k][w] + add(w) \in Int
      BY <1>1, <1>3
    <2> QED
      BY <1>5, <2>1
  <1>9. ASSUME NEW w \in Words(k)
        PROVE  shifted'[k][w] = IF w \in GotWords(archive[k]) THEN 1 ELSE 0
    <2>1. shifted'[k][w] = shifted[k][w] + add(w)
      BY <1>5
    <2>2. CASE ran[k]
      <3>1. shifted[k][w] = IF w \in GotWords(archive[k]) THEN 1 ELSE 0
        BY <2>2 DEF RInv, Marks, Shifted
      <3>2. add(w) = 0
        BY <2>2 DEF add
      <3> QED
        BY <2>1, <3>1, <3>2
    <2>3. CASE ~ran[k]
      <3>1. shifted[k][w] = 0
        BY <2>3 DEF RInv, Marks, Fresh
      <3>2. add(w) = IF w \in GotWords(archive[k]) THEN 1 ELSE 0
        BY <2>3 DEF add
      <3> QED
        BY <2>1, <3>1, <3>2
    <2> QED
      BY <2>2, <2>3
  <1> QED
    BY <1>1, <1>6, <1>7, <1>8, <1>9

LEMMA CallKeeps ==
    ASSUME RInv, NEW k \in Files, status = "ok", elf_load(k), UNCHANGED archive
    PROVE  Shape' /\ Marks' /\ Running'
  <1>1. Call(k) /\ ran' = [ran EXCEPT ![k] = stack' # stack]
    BY DEF elf_load
  <1>2. /\ ran \in [Files -> BOOLEAN] /\ stack \in Seq(Files)
        /\ ran' \in [Files -> BOOLEAN] /\ \A j \in Files \ {k} : ran'[j] = ran[j]
        /\ ran'[k] <=> stack' # stack
    <2>1. ran \in [Files -> BOOLEAN] /\ stack \in Seq(Files)
      BY DEF RInv, Shape
    <2> DEFINE moved == stack' # stack
    <2>2. moved \in BOOLEAN /\ ran' = [ran EXCEPT ![k] = moved]
      BY <1>1
    <2> HIDE DEF moved
    <2>3. ran' \in [Files -> BOOLEAN] /\ ran'[k] = moved /\ \A j \in Files \ {k} : ran'[j] = ran[j]
      BY <2>1, <2>2
    <2> QED
      BY <2>1, <2>3 DEF moved
  <1>3. ASSUME UNCHANGED stack, ~ran[k] PROVE Running'
    <2>1. \A i \in DOMAIN stack : stack[i] \in Files /\ stack[i] # k
      BY <1>2, <1>3 DEF RInv, Running
    <2> QED
      BY <1>2, <1>3, <2>1 DEF RInv, Running
  <1>4. CASE ~archive[k].magic
    <2>1. UNCHANGED <<shifted, stack>> /\ status' = "bad_magic"
      BY <1>1, <1>4 DEF Call, Stop
    <2>2. ~ran[k] /\ ~ran'[k]
      BY <1>2, <1>4, <2>1 DEF RInv, Marks
    <2>3. Shape'
      BY <1>2, <2>1 DEF RInv, Shape, Files, Words
    <2>4. Marks'
      <3>1. ASSUME NEW j \in Files, ran'[j]
            PROVE  archive[j].magic /\ EntryMoves(archive[j]) /\ Shifted(j)
        BY <1>2, <2>2, <3>1 DEF RInv, Marks
      <3>2. \A j \in Files : \A w \in Words(j) : shifted[j][w] <= 1
        BY DEF RInv, Marks
      <3> QED
        BY <2>1, <3>1, <3>2 DEF Marks, Files, Words, Shifted
    <2> QED
      BY <1>3, <2>1, <2>2, <2>3, <2>4
  <1>5. CASE archive[k].magic
    <2>1. Relocate(k)
      BY <1>1, <1>5 DEF Call
    <2>2. /\ shifted' = [j \in Files |-> shifted'[j]]
          /\ \A j \in Files : shifted'[j] \in [Words(j) -> Int]
          /\ \A j \in Files \ {k} : shifted'[j] = shifted[j]
          /\ \A w \in Words(k) : shifted'[k][w] = IF w \in GotWords(archive[k]) THEN 1 ELSE 0
      BY <2>1, RelocateKeeps
    <2>3. \A j \in Files : \A w \in Words(j) : shifted'[j][w] <= 1
      <3>1. ASSUME NEW j \in Files, NEW w \in Words(j) PROVE shifted'[j][w] <= 1
        <4>1. CASE j = k
          BY <2>2, <4>1
        <4>2. CASE j # k
          BY <2>2, <4>2 DEF RInv, Marks
        <4> QED
          BY <4>1, <4>2
      <3> QED
        BY <3>1
    <2>4. CASE EntryMoves(archive[k])
      <3>1. stack' = Append(stack, k) /\ status' = "ok"
        BY <1>1, <1>5, <2>4 DEF Call
      <3>2. /\ stack' \in Seq(Files) /\ Len(stack') = Len(stack) + 1 /\ Len(stack) \in Nat
            /\ \A i \in 1 .. Len(stack) : stack'[i] = stack[i]
            /\ stack'[Len(stack) + 1] = k
        BY <1>2, <3>1, AppendProperties, LenProperties
      <3>3. ran'[k]
        BY <1>2, <3>2
      <3>4. Shape'
        BY <1>2, <2>2, <3>2 DEF Shape, Files, Words
      <3>5. Running'
        <4>1. ASSUME NEW i \in DOMAIN stack' PROVE ran'[stack'[i]]
          <5>1. i \in 1 .. Len(stack) \/ i = Len(stack) + 1
            BY <3>2
          <5>2. CASE i \in 1 .. Len(stack)
            <6>1. stack[i] \in Files /\ ran[stack[i]] /\ stack'[i] = stack[i]
              BY <1>2, <3>2, <5>2 DEF RInv, Running
            <6> QED
              BY <1>2, <3>3, <6>1
          <5>3. CASE i = Len(stack) + 1
            BY <3>2, <3>3, <5>3
          <5> QED
            BY <5>1, <5>2, <5>3
        <4> QED
          BY <4>1 DEF Running
      <3>6. Marks'
        <4>1. ASSUME NEW j \in Files
              PROVE  /\ ran'[j] => /\ archive[j].magic /\ EntryMoves(archive[j])
                                   /\ \A w \in Words(j) : shifted'[j][w]
                                         = IF w \in GotWords(archive[j]) THEN 1 ELSE 0
                     /\ ~ran'[j] => \A w \in Words(j) : shifted'[j][w] = 0
          <5>1. CASE j = k
            BY <1>5, <2>2, <2>4, <3>3, <5>1
          <5>2. CASE j # k
            <6>1. ran'[j] = ran[j] /\ shifted'[j] = shifted[j]
              BY <1>2, <2>2, <5>2
            <6>2. /\ ran[j] => archive[j].magic /\ EntryMoves(archive[j]) /\ Shifted(j)
                  /\ ~ran[j] => Fresh(j)
              BY DEF RInv, Marks
            <6> QED
              BY <6>1, <6>2 DEF Shifted, Fresh
          <5> QED
            BY <5>1, <5>2
        <4> QED
          BY <2>3, <4>1 DEF Marks, Files, Words, Shifted, Fresh
      <3> QED
        BY <3>4, <3>5, <3>6
    <2>5. CASE ~EntryMoves(archive[k])
      <3>1. UNCHANGED stack /\ status' = "no_entry"
        BY <1>1, <1>5, <2>5 DEF Call, Stop
      <3>2. ~ran[k] /\ ~ran'[k]
        BY <1>2, <2>5, <3>1 DEF RInv, Marks
      <3>3. Shape'
        BY <1>2, <2>2, <3>1 DEF Shape, Files, Words
      <3>4. Marks'
        <4>1. ASSUME NEW j \in Files, ran'[j]
              PROVE  /\ archive[j].magic /\ EntryMoves(archive[j])
                     /\ \A w \in Words(j) : shifted'[j][w]
                            = IF w \in GotWords(archive[j]) THEN 1 ELSE 0
          <5>1. j # k
            BY <3>2, <4>1
          <5>2. ran[j] /\ shifted'[j] = shifted[j]
            BY <1>2, <2>2, <4>1, <5>1
          <5>3. archive[j].magic /\ EntryMoves(archive[j]) /\ Shifted(j)
            BY <5>2 DEF RInv, Marks
          <5> QED
            BY <5>2, <5>3 DEF Shifted
        <4> QED
          BY <2>3, <3>1, <4>1 DEF Marks, Files, Words, Shifted
      <3> QED
        BY <1>3, <3>1, <3>2, <3>3, <3>4
    <2> QED
      BY <2>4, <2>5
  <1> QED
    BY <1>4, <1>5

\* A set of numbers that is not empty has a least one.
LEMMA Least ==
    ASSUME NEW T \in SUBSET Nat, T # {}
    PROVE  \E x \in T : \A y \in T : x <= y
  <1>1. PICK R : R = OpToRel(<, Nat)
    OBVIOUS
  <1>2. IsWellFoundedOn(R, Nat)
    BY <1>1, NatLessThanWellFounded
  <1>3. ASSUME NEW x \in Nat, NEW y \in Nat, y < x PROVE <<y, x>> \in R
    BY <1>1, <1>3 DEF OpToRel
  <1>4. PICK x \in T : \A y \in T : ~ (<<y, x>> \in R)
    BY <1>2, WFMin
  <1>5. ASSUME NEW y \in T PROVE x <= y
    <2>1. x \in Nat /\ y \in Nat
      OBVIOUS
    <2>2. ~ (<<y, x>> \in R)
      BY <1>4
    <2>3. ~(y < x)
      BY <1>3, <2>1, <2>2
    <2> QED
      BY <2>1, <2>3
  <1> QED
    BY <1>5

\* The node that is found is on the list.
LEMMA FoundIsNode ==
    ASSUME FilesOK, NEW name, tar_find_file(name) # NULL
    PROVE  tar_find_file(name) \in DOMAIN fs_root
  <1> DEFINE found == {k \in DOMAIN fs_root : fs_root[k].name = name}
  <1>1. tar_find_file(name) = IF found = {} THEN NULL
                              ELSE CHOOSE k \in found : \A l \in found : k <= l
    BY DEF tar_find_file
  <1>2. found \in SUBSET Nat /\ found \subseteq DOMAIN fs_root
    BY DEF FilesOK
  <1> HIDE DEF found
  <1>3. found # {} /\ \E k \in found : \A l \in found : k <= l
    BY <1>1, <1>2, Least
  <1>4. (CHOOSE k \in found : \A l \in found : k <= l) \in found
    BY <1>3
  <1> QED
    BY <1>1, <1>2, <1>3, <1>4

LEMMA NodesFile ==
    ASSUME FilesOK, NEW n \in DOMAIN fs_root
    PROVE  fs_root[n].file \in Files
  <1>1. fs_root[n] \in Nodes
    BY DEF FilesOK
  <1> QED
    BY <1>1 DEF Nodes

LEMMA RInvStep == RInv /\ [Next]_vars => RInv'
  <1> SUFFICES ASSUME RInv, [Next]_vars PROVE RInv'
    OBVIOUS
  <1> USE DEF Goto
  <1>1. ASSUME UNCHANGED <<archive, ran, shifted, stack>>, status = "ok" \/ UNCHANGED status
        PROVE  Shape' /\ Marks' /\ Running'
    BY <1>1 DEF RInv, Shape, Marks, Running, Shifted, Fresh, Files, Words
  <1>2. ASSUME UNCHANGED <<archive, fs_root, header>>, phase' = "load_ustar" => phase = "load_ustar"
        PROVE  FilesOK'
    BY <1>2 DEF RInv, FilesOK, Nodes, Files
  <1>3. CASE IoInit \/ IdtInit \/ Tick \/ MemoryInit \/ MapPage \/ HeapInit
    <2>1. UNCHANGED <<archive, fs_root, header, ran, shifted, stack>> /\ status = "ok"
      BY <1>3 DEF IoInit, IdtInit, Tick, MemoryInit, MapPage, HeapInit, inputs, files, images
    <2>2. phase' = "load_ustar" => phase = "load_ustar"
      BY <1>3 DEF IoInit, IdtInit, Tick, MemoryInit, MapPage, HeapInit
    <2> QED
      BY <1>1, <1>2, <2>1, <2>2 DEF RInv
  <1>4. CASE CheckModules
    <2>1. UNCHANGED <<archive, fs_root, ran, shifted, stack, status>> /\ header' = 0
      BY <1>4 DEF CheckModules, inputs, images
    <2>2. FilesOK'
      BY <2>1 DEF RInv, FilesOK, Nodes, Files
    <2> QED
      BY <1>1, <2>1, <2>2 DEF RInv
  <1>5. CASE LoadHeader
    <2>1. UNCHANGED <<archive, ran, shifted, stack, status>> /\ phase = "load_ustar"
      BY <1>5 DEF LoadHeader, inputs, images
    <2>2. PICK k \in 1 .. Len(archive) :
            /\ fs_root' = Append(fs_root, [name |-> archive[k].name, size |-> archive[k].size,
                                           data |-> header + BLOCK, file |-> k])
            /\ header' = header + BLOCK + round_size(archive[k].size)
      BY <1>5 DEF LoadHeader
    <2>3. header \in Int /\ archive \in Archives /\ k \in Files
      <3>1. header \in Int /\ archive \in Archives
        BY <2>1 DEF RInv, FilesOK
      <3> QED
        BY <3>1, ArchiveAssumption DEF Files
    <2>4. archive[k].size \in Nat
      BY <2>3, ArchiveAssumption DEF Files
    <2>5. header' \in Int
      <3>1. round_size(archive[k].size) \in Int
        <4> DEFINE size == archive[k].size
        <4>1. size \in Nat /\ size % BLOCK \in Int /\ (size + BLOCK) % BLOCK \in Int
          BY <2>4, Sizes
        <4> HIDE DEF size
        <4>2. round_size(size) \in Int
          BY <4>1, Sizes DEF round_size
        <4> QED
          BY <4>2 DEF size
      <3> QED
        BY <2>2, <2>3, <3>1, Sizes
    <2>6. fs_root' \in Seq(Nodes)
      <3> DEFINE node == [name |-> archive[k].name, size |-> archive[k].size,
                          data |-> header + BLOCK, file |-> k]
      <3>1. header + BLOCK \in Int
        BY <2>3, Sizes
      <3>2. node \in Nodes
        BY <2>3, <3>1 DEF Nodes
      <3>3. fs_root' = Append(fs_root, node) /\ fs_root \in Seq(Nodes)
        BY <2>2 DEF RInv, FilesOK
      <3> HIDE DEF node
      <3> QED
        BY <3>2, <3>3, AppendProperties
    <2>7. FilesOK'
      BY <2>1, <2>3, <2>5, <2>6 DEF FilesOK, Nodes, Files
    <2> QED
      BY <1>1, <2>1, <2>7 DEF RInv
  <1>6. CASE LoadEnd \/ NextModule
    <2>1. /\ UNCHANGED <<archive, fs_root, header, ran, shifted, stack>> /\ status = "ok"
          /\ phase' # "load_ustar"
      BY <1>6 DEF LoadEnd, NextModule, inputs, files, images
    <2> QED
      BY <1>1, <1>2, <2>1 DEF RInv
  <1>7. CASE RunShell
    <2>1. UNCHANGED <<archive, fs_root, header>> /\ status = "ok" /\ phase' # "load_ustar"
      BY <1>7 DEF RunShell, inputs, files
    <2>2. FilesOK'
      BY <1>2, <2>1
    <2> DEFINE node == tar_find_file(SHELL)
    <2>3. CASE node = NULL
      <3>1. UNCHANGED <<ran, shifted, stack>>
        BY <1>7, <2>3 DEF RunShell, images
      <3> QED
        BY <1>1, <2>1, <2>2, <3>1 DEF RInv
    <2>4. CASE node # NULL
      <3>1. elf_load(fs_root[node].file)
        BY <1>7, <2>4 DEF RunShell
      <3>2. fs_root[node].file \in Files
        BY <2>4, FoundIsNode, NodesFile DEF RInv
      <3> QED
        BY <2>1, <2>2, <3>1, <3>2, CallKeeps DEF RInv
    <2> QED
      BY <2>3, <2>4
  <1>8. CASE Exec
    <2>1. UNCHANGED <<archive, fs_root, header>> /\ status = "ok" /\ phase' # "load_ustar"
      BY <1>8 DEF Exec, inputs, files
    <2>2. FilesOK'
      BY <1>2, <2>1
    <2>3. PICK n \in DOMAIN fs_root : elf_load(fs_root[n].file)
      BY <1>8 DEF Exec
    <2>4. fs_root[n].file \in Files
      BY NodesFile DEF RInv
    <2> QED
      BY <2>1, <2>2, <2>3, <2>4, CallKeeps DEF RInv
  <1>9. CASE Return
    <2>1. UNCHANGED <<archive, fs_root, header, ran, shifted, status>> /\ phase' # "load_ustar"
      BY <1>9 DEF Return, inputs, files
    <2>2. stack \in Seq(Files) /\ stack # <<>> /\ stack' = SubSeq(stack, 1, Len(stack) - 1)
      BY <1>9 DEF Return, RInv, Shape
    <2>3. /\ stack' \in Seq(Files) /\ DOMAIN stack' = 1 .. Len(stack) - 1
          /\ \A i \in 1 .. Len(stack) - 1 : stack'[i] = stack[i]
      BY <2>2
    <2>4. Running'
      BY <2>1, <2>2, <2>3 DEF RInv, Running
    <2>5. Shape' /\ Marks'
      BY <2>1, <2>3 DEF RInv, Shape, Marks, Shifted, Fresh, Files, Words
    <2> QED
      BY <1>2, <2>1, <2>4, <2>5 DEF RInv
  <1>10. CASE UNCHANGED vars
    <2>1. UNCHANGED <<archive, fs_root, header, ran, shifted, stack, status, phase>>
      BY <1>10 DEF vars, inputs, files, images
    <2> QED
      BY <1>1, <1>2, <2>1 DEF RInv
  <1> QED
    BY <1>3, <1>4, <1>5, <1>6, <1>7, <1>8, <1>9, <1>10 DEF Next

\* elf_load relocates the table of a program once, for any archive and however
\* deep programs run each other.
THEOREM ProgramsRelocatedOnce == Spec => []RelocatedOnce
  BY RInvInit, RInvStep, RInvOnce, PTL DEF Spec
-----------------------------------------------------------------------------
(* The files.  load_ustar adds rounded sizes, tar counts blocks: the walk  *)
(* is on the next header after each node.  HeaderAt is recursive; that     *)
(* there is such a function is proved by looking at the shortest archive   *)
(* that would have none.                                                   *)

\* Division with a remainder has one answer.
LEMMA Quotient ==
    ASSUME NEW n \in Nat \ {0}, NEW q \in Int, NEW r \in 0 .. n - 1
    PROVE  (n * q + r) \div n = q /\ (n * q + r) % n = r
  <1> DEFINE a == n * q + r
             p == a \div n
  <1>1. a \in Int /\ n * q \in Int
    OBVIOUS
  <1>2. p \in Int /\ a = n * p + (a % n) /\ a % n \in 0 .. n - 1
    BY <1>1
  <1>3. a = n * q + r
    OBVIOUS
  <1> HIDE DEF a, p
  <1>4. n * (p - q) = r - (a % n)
    BY <1>1, <1>2, <1>3
  <1>5. p - q < 1
    BY <1>2, <1>4
  <1>6. p - q > -1
    BY <1>2, <1>4
  <1>7. p = q
    BY <1>2, <1>5, <1>6
  <1> QED
    BY <1>2, <1>3, <1>7 DEF a, p

\* round_size rounds to whole blocks.
LEMMA RoundedIsBlocks ==
    ASSUME NEW size \in Nat
    PROVE  /\ Blocks(size) \in Nat
           /\ BLOCK + round_size(size) = BLOCK * (1 + Blocks(size))
  <1> DEFINE q == size \div BLOCK
             r == size % BLOCK
  <1>1. BLOCK \in Nat \ {0} /\ BLOCK - 1 \in 0 .. BLOCK - 1
    BY Sizes
  <1>2. q \in Nat /\ r \in 0 .. BLOCK - 1 /\ size = BLOCK * q + r
    BY <1>1
  <1>3. r = size % BLOCK
    OBVIOUS
  <1> HIDE DEF q, r
  <1>4. CASE r = 0
    <2>1. size + BLOCK - 1 = BLOCK * q + (BLOCK - 1)
      BY <1>1, <1>2, <1>4
    <2>2. Blocks(size) = q
      BY <1>1, <1>2, <2>1, Quotient DEF Blocks
    <2>3. round_size(size) = size
      BY <1>3, <1>4 DEF round_size
    <2>4. BLOCK * q \in Int /\ BLOCK * q + r = BLOCK * q
      BY <1>1, <1>2, <1>4
    <2> QED
      BY <1>1, <1>2, <2>2, <2>3, <2>4
  <1>5. CASE r # 0
    <2>1. /\ size + BLOCK - 1 = BLOCK * (q + 1) + (r - 1) /\ r - 1 \in 0 .. BLOCK - 1
          /\ size + BLOCK = BLOCK * (q + 1) + r /\ q + 1 \in Int
      BY <1>1, <1>2, <1>5
    <2>2. Blocks(size) = q + 1
      BY <1>1, <2>1, Quotient DEF Blocks
    <2>3. (size + BLOCK) % BLOCK = r
      BY <1>1, <1>2, <2>1, Quotient
    <2>4. round_size(size) = BLOCK * (q + 1)
      BY <1>1, <1>2, <1>3, <1>5, <2>1, <2>3 DEF round_size
    <2> QED
      BY <1>1, <1>2, <2>2, <2>4
  <1> QED
    BY <1>4, <1>5

\* The words from the k-th header to the next one, and a function that adds
\* them up for the first n files.
Stride(k)     == BLOCK * (1 + Blocks(archive[k].size))
AddsUp(at, n) == at = [k \in 1 .. n + 1 |-> IF k = 1 THEN 0 ELSE at[k - 1] + Stride(k - 1)]

\* The shortest archive for which there is no such function would have one: that of
\* all its files but the last, and one more.
LEMMA SumExists ==
    ASSUME NEW n \in Nat
    PROVE  \E at : AddsUp(at, n)
  <1> DEFINE T == {m \in Nat : ~ \E at : AddsUp(at, m)}
  <1> SUFFICES ASSUME T # {} PROVE FALSE
    OBVIOUS
  <1>1. PICK x \in T : \A y \in T : x <= y
    BY Least
  <1>2. x # 0
    <2>1. AddsUp([k \in 1 .. 1 |-> 0], 0)
      BY DEF AddsUp
    <2> QED
      BY <1>1, <2>1
  <1>3. x - 1 \in Nat /\ x - 1 \notin T
    BY <1>1, <1>2
  <1>4. PICK g : AddsUp(g, x - 1)
    BY <1>3
  <1> DEFINE at == [k \in 1 .. x + 1 |-> IF k = x + 1 THEN g[x] + Stride(x) ELSE g[k]]
  <1>5. /\ DOMAIN g = 1 .. x /\ g[1] = 0
        /\ \A k \in 1 .. x : k # 1 => g[k] = g[k - 1] + Stride(k - 1)
    <2>1. g = [k \in 1 .. x |-> IF k = 1 THEN 0 ELSE g[k - 1] + Stride(k - 1)]
      BY <1>1, <1>4 DEF AddsUp
    <2> QED
      BY <1>1, <1>2, <2>1
  <1>6. ASSUME NEW k \in 1 .. x + 1
        PROVE  at[k] = IF k = 1 THEN 0 ELSE at[k - 1] + Stride(k - 1)
    <2>1. CASE k = 1
      BY <1>1, <1>2, <1>5, <2>1
    <2>2. CASE k # 1 /\ k # x + 1
      BY <1>1, <1>5, <2>2
    <2>3. CASE k = x + 1
      BY <1>1, <1>2, <2>3
    <2> QED
      BY <2>1, <2>2, <2>3
  <1>7. AddsUp(at, x)
    BY <1>6 DEF AddsUp
  <1> QED
    BY <1>1, <1>7

\* The recursive definition defines such a function.
LEMMA HeadersAddUp ==
    ASSUME Len(archive) \in Nat
    PROVE  AddsUp(HeaderAt, Len(archive))
  <1>1. HeaderAt = CHOOSE at : AddsUp(at, Len(archive))
    BY DEF HeaderAt, AddsUp, Stride
  <1> QED
    BY <1>1, SumExists
\* Where a header is, counted from the one before.
LEMMA HeaderIs ==
    ASSUME FilesOK
    PROVE  /\ Len(archive) \in Nat /\ Files = 1 .. Len(archive)
           /\ DOMAIN HeaderAt = 1 .. Len(archive) + 1 /\ HeaderAt[1] = 0
           /\ \A k \in Files : /\ Stride(k) \in Nat /\ Stride(k) > 0
                               /\ HeaderAt[k + 1] = HeaderAt[k] + Stride(k)
                               /\ Stride(k) = BLOCK + round_size(archive[k].size)
  <1>1. Len(archive) \in Nat /\ Files = 1 .. Len(archive)
    BY ArchiveAssumption DEF FilesOK, Files
  <1>2. PICK n : n = Len(archive)
    OBVIOUS
  <1>3. PICK at : at = HeaderAt
    OBVIOUS
  <1>4. at = [k \in 1 .. n + 1 |-> IF k = 1 THEN 0 ELSE at[k - 1] + Stride(k - 1)]
    BY <1>1, <1>2, <1>3, HeadersAddUp DEF AddsUp
  <1>5. DOMAIN at = 1 .. n + 1 /\ at[1] = 0
    BY <1>1, <1>2, <1>4
  <1>6. ASSUME NEW k \in Files
        PROVE  /\ Stride(k) \in Nat /\ Stride(k) > 0
               /\ at[k + 1] = at[k] + Stride(k)
               /\ Stride(k) = BLOCK + round_size(archive[k].size)
    <2>1. archive[k].size \in Nat
      BY <1>6, ArchiveAssumption DEF FilesOK, Files
    <2>2. PICK b : b = Blocks(archive[k].size)
      OBVIOUS
    <2>3. b \in Nat /\ BLOCK + round_size(archive[k].size) = BLOCK * (1 + b)
      BY <2>1, <2>2, RoundedIsBlocks
    <2>4. BLOCK * (1 + b) \in Nat /\ BLOCK * (1 + b) > 0
      BY <2>3, Sizes
    <2>5. Stride(k) = BLOCK * (1 + b)
      BY <2>2 DEF Stride
    <2>6. k + 1 \in 1 .. n + 1 /\ k + 1 # 1 /\ (k + 1) - 1 = k
      BY <1>1, <1>2
    <2>7. at[k + 1] = at[k] + Stride(k)
      BY <1>4, <2>6
    <2> QED
      BY <2>3, <2>4, <2>5, <2>7
  <1> QED
    BY <1>1, <1>2, <1>3, <1>5, <1>6

\* Headers are where there is memory, and each one lies behind those before.
LEMMA HeadersAscend ==
    ASSUME FilesOK
    PROVE  /\ \A k \in 1 .. Len(archive) + 1 : HeaderAt[k] \in Nat
           /\ \A k, l \in 1 .. Len(archive) + 1 : k < l => HeaderAt[k] < HeaderAt[l]
  <1>1. PICK n : n = Len(archive)
    OBVIOUS
  <1>2. /\ n \in Nat /\ HeaderAt[1] = 0
        /\ \A k \in 1 .. n : /\ Stride(k) \in Nat /\ Stride(k) > 0
                             /\ HeaderAt[k + 1] = HeaderAt[k] + Stride(k)
    BY <1>1, HeaderIs
  <1>3. \A k \in 1 .. n + 1 : HeaderAt[k] \in Nat
    <2> DEFINE T == {k \in 1 .. n + 1 : HeaderAt[k] \notin Nat}
    <2> SUFFICES ASSUME T # {} PROVE FALSE
      OBVIOUS
    <2>1. T \in SUBSET Nat
      BY <1>2
    <2>2. PICK x \in T : \A y \in T : x <= y
      BY <2>1, Least
    <2>3. x # 1 /\ x - 1 \in 1 .. n /\ x - 1 \notin T
      BY <1>2, <2>2
    <2>4. HeaderAt[(x - 1) + 1] = HeaderAt[x - 1] + Stride(x - 1) /\ Stride(x - 1) \in Nat
      BY <1>2, <2>3
    <2>5. HeaderAt[x - 1] \in Nat /\ (x - 1) + 1 = x
      BY <1>2, <2>2, <2>3
    <2> QED
      BY <2>2, <2>4, <2>5
  <1>4. ASSUME NEW k \in 1 .. n + 1, NEW l \in 1 .. n + 1, k < l
        PROVE  HeaderAt[k] < HeaderAt[l]
    <2> DEFINE T == {j \in 1 .. n + 1 : k < j /\ ~(HeaderAt[k] < HeaderAt[j])}
    <2> SUFFICES ASSUME T # {} PROVE FALSE
      BY <1>4
    <2>1. T \in SUBSET Nat
      BY <1>2
    <2>2. PICK x \in T : \A y \in T : x <= y
      BY <2>1, Least
    <2>3. x - 1 \in 1 .. n /\ x - 1 \notin T /\ (x - 1) + 1 = x
      BY <1>2, <1>4, <2>2
    <2>4. /\ HeaderAt[x] = HeaderAt[x - 1] + Stride(x - 1)
          /\ Stride(x - 1) \in Nat /\ Stride(x - 1) > 0
      BY <1>2, <2>3
    <2>5. HeaderAt[x - 1] \in Nat /\ HeaderAt[k] \in Nat /\ HeaderAt[x] \in Nat
      BY <1>2, <1>3, <1>4, <2>2, <2>3
    <2>6. k = x - 1 \/ HeaderAt[k] < HeaderAt[x - 1]
      BY <1>2, <1>4, <2>2, <2>3
    <2> QED
      BY <2>2, <2>4, <2>5, <2>6
  <1> QED
    BY <1>1, <1>3, <1>4

\* The nodes are the files of the archive so far, in its order.
NodesRight == /\ Len(fs_root) <= Len(archive)
              /\ \A i \in 1 .. Len(fs_root) : /\ fs_root[i].name = archive[i].name
                                              /\ fs_root[i].size = archive[i].size
                                              /\ fs_root[i].data = HeaderAt[i] + BLOCK

HasRamdisk == mods # <<>> /\ mods[1].name = RAMDISK
Behind     == {"next_module", "run_shell", "running"}
OnHeader   == /\ phase \notin {"load_ustar"} \union Behind => fs_root = <<>>
              /\ phase = "load_ustar" => header = HeaderAt[Len(fs_root) + 1] /\ NodesRight
              /\ phase \in Behind /\ HasRamdisk => NodesRight /\ Len(fs_root) = Len(archive)

FInv == RInv /\ OnHeader

\* No node at first.
LEMMA FInvInit == Init => FInv
  BY RInvInit DEF FInv, OnHeader, Init, Behind

\* What is found is the first node of the name.
LEMMA FoundIsFirst ==
    ASSUME FilesOK, NEW i \in DOMAIN fs_root,
           \A j \in 1 .. i - 1 : fs_root[j].name # fs_root[i].name
    PROVE  tar_find_file(fs_root[i].name) = i
  <1> DEFINE found == {k \in DOMAIN fs_root : fs_root[k].name = fs_root[i].name}
  <1>1. tar_find_file(fs_root[i].name) = IF found = {} THEN NULL
                                         ELSE CHOOSE k \in found : \A l \in found : k <= l
    BY DEF tar_find_file
  <1>2. i \in found /\ found \in SUBSET Nat
    BY DEF FilesOK
  <1>3. \A k \in found : i <= k
    <2> SUFFICES ASSUME NEW k \in found, k < i PROVE FALSE
      BY <1>2
    <2>1. k \in 1 .. i - 1
      BY <1>2 DEF FilesOK
    <2> QED
      BY <2>1
  <1> HIDE DEF found
  <1>4. \A k \in found : (\A l \in found : k <= l) => k = i
    BY <1>2, <1>3
  <1>5. (CHOOSE k \in found : \A l \in found : k <= l) = i
    BY <1>2, <1>3, <1>4
  <1> QED
    BY <1>1, <1>2, <1>5

\* With every node right, the first one of a name is the first file of the name.
LEMMA FInvFinds == FInv => FilesFound
  <1> SUFFICES ASSUME FInv PROVE FilesFound
    OBVIOUS
  <1>1. FilesOK /\ OnHeader
    BY DEF FInv, RInv
  <1>2. Len(fs_root) \in Nat /\ DOMAIN fs_root = 1 .. Len(fs_root)
    BY <1>1 DEF FilesOK
  <1>3. phase = "load_ustar" => \E k \in DOMAIN HeaderAt : header = HeaderAt[k]
    <2> SUFFICES ASSUME phase = "load_ustar" PROVE Len(fs_root) + 1 \in DOMAIN HeaderAt
      BY <1>1 DEF OnHeader
    <2>1. NodesRight
      BY <1>1 DEF OnHeader
    <2> QED
      BY <1>1, <1>2, <2>1, HeaderIs DEF NodesRight
  <1>4. ASSUME Loaded, NEW k \in Files, \A l \in 1 .. k - 1 : archive[l].name # archive[k].name
        PROVE  LET n == tar_find_file(archive[k].name)
               IN  n # NULL /\ fs_root[n].data = HeaderAt[k] + BLOCK
                            /\ fs_root[n].size = archive[k].size
    <2>1. NodesRight /\ Len(fs_root) = Len(archive)
      BY <1>1, <1>4 DEF Loaded, OnHeader, HasRamdisk, Behind
    <2>2. k \in 1 .. Len(archive) /\ Len(archive) \in Nat
      BY <1>1, HeaderIs
    <2>3. k \in DOMAIN fs_root /\ fs_root[k].name = archive[k].name
      BY <1>2, <2>1, <2>2 DEF NodesRight
    <2>4. \A j \in 1 .. k - 1 : fs_root[j].name = archive[j].name
      BY <2>1, <2>2 DEF NodesRight
    <2>5. tar_find_file(archive[k].name) = k
      BY <1>1, <1>4, <2>3, <2>4, FoundIsFirst
    <2>6. k # NULL
      BY <2>2, NullAssumption
    <2> QED
      BY <2>1, <2>2, <2>5, <2>6 DEF NodesRight
  <1> QED
    BY <1>3, <1>4 DEF FilesFound

\* load_ustar is on the header of the file it adds: no two headers are in one place.
LEMMA FInvStep == FInv /\ [Next]_vars => FInv'
  <1> SUFFICES ASSUME FInv, [Next]_vars PROVE OnHeader'
    BY RInvStep DEF FInv
  <1>1. FilesOK /\ OnHeader /\ RInv
    BY DEF FInv, RInv
  <1> USE DEF Goto
  <1>2. ASSUME UNCHANGED <<archive, mods, phase, header, fs_root>> PROVE OnHeader'
    BY <1>1, <1>2 DEF OnHeader, NodesRight, HeaderAt, HasRamdisk
  <1>3. ASSUME UNCHANGED <<archive, mods, header, fs_root>>,
               phase \notin {"load_ustar"} \union Behind,
               phase' \notin {"load_ustar"} \union Behind
        PROVE  OnHeader'
    BY <1>1, <1>3 DEF OnHeader
  <1>4. ASSUME UNCHANGED <<archive, mods, header, fs_root>>, phase \in Behind, phase' \in Behind
        PROVE  OnHeader'
    BY <1>1, <1>4 DEF OnHeader, NodesRight, HeaderAt, HasRamdisk, Behind
  <1>5. CASE IoInit \/ IdtInit \/ MemoryInit \/ HeapInit
    BY <1>3, <1>5 DEF IoInit, IdtInit, MemoryInit, HeapInit, inputs, files, Behind
  <1>6. CASE Tick \/ MapPage
    BY <1>2, <1>6 DEF Tick, MapPage, inputs, files
  <1>7. CASE CheckModules
    <2>1. fs_root = <<>> /\ UNCHANGED <<archive, mods, fs_root>> /\ header' = 0
      BY <1>1, <1>7 DEF CheckModules, inputs, OnHeader, Behind
    <2>2. phase' = "load_ustar" \/ (phase' = "next_module" /\ ~HasRamdisk)
      BY <1>7 DEF CheckModules, HasRamdisk
    <2>3. Len(fs_root') = 0
      BY <2>1
    <2>4. HeaderAt' = HeaderAt
      BY <2>1 DEF HeaderAt
    <2>5. HeaderAt[1] = 0 /\ Len(archive) \in Nat
      BY <1>1, HeaderIs
    <2> QED
      BY <2>1, <2>2, <2>3, <2>4, <2>5 DEF OnHeader, NodesRight, HasRamdisk, Behind
  <1>8. CASE LoadHeader
    <2>1. PICK k \in 1 .. Len(archive) :
            /\ header = HeaderAt[k]
            /\ fs_root' = Append(fs_root, [name |-> archive[k].name, size |-> archive[k].size,
                                           data |-> header + BLOCK, file |-> k])
            /\ header' = header + BLOCK + round_size(archive[k].size)
      BY <1>8 DEF LoadHeader
    <2>2. UNCHANGED <<archive, mods>> /\ phase = "load_ustar" /\ phase' = "load_ustar"
      BY <1>8 DEF LoadHeader, inputs
    <2>3. PICK n : n = Len(fs_root)
      OBVIOUS
    <2>4. n \in Nat /\ fs_root \in Seq(Nodes) /\ header = HeaderAt[n + 1] /\ NodesRight
      BY <1>1, <2>2, <2>3 DEF FilesOK, OnHeader
    <2>5. k = n + 1
      <3>1. n + 1 \in 1 .. Len(archive) + 1 /\ k \in 1 .. Len(archive) + 1 /\ Len(archive) \in Nat
        BY <1>1, <2>3, <2>4, HeaderIs DEF NodesRight
      <3>2. ~(k < n + 1) /\ ~(n + 1 < k)
        <4>1. \A i, j \in 1 .. Len(archive) + 1 : i < j => HeaderAt[i] < HeaderAt[j]
          BY <1>1, HeadersAscend
        <4>2. HeaderAt[k] \in Nat /\ HeaderAt[n + 1] = HeaderAt[k]
          BY <1>1, <2>1, <2>4, <3>1, HeadersAscend
        <4> QED
          BY <3>1, <4>1, <4>2
      <3> QED
        BY <2>4, <3>1, <3>2
    <2> DEFINE node == [name |-> archive[k].name, size |-> archive[k].size,
                        data |-> header + BLOCK, file |-> k]
    <2>6. /\ Len(fs_root') = n + 1 /\ fs_root'[n + 1] = node
          /\ \A i \in 1 .. n : fs_root'[i] = fs_root[i]
      BY <2>1, <2>3, <2>4, AppendProperties
    <2>7. HeaderAt' = HeaderAt
      BY <2>2 DEF HeaderAt
    <2>8. NodesRight'
      <3>1. Len(fs_root') <= Len(archive')
        BY <1>1, <2>2, <2>5, <2>6, HeaderIs
      <3>2. ASSUME NEW i \in 1 .. n + 1
            PROVE  /\ fs_root'[i].name = archive[i].name /\ fs_root'[i].size = archive[i].size
                   /\ fs_root'[i].data = HeaderAt[i] + BLOCK
        <4>1. CASE i = n + 1
          BY <2>1, <2>5, <2>6, <4>1
        <4>2. CASE i # n + 1
          BY <2>3, <2>4, <2>6, <4>2 DEF NodesRight
        <4> QED
          BY <4>1, <4>2
      <3> QED
        BY <2>2, <2>6, <2>7, <3>1, <3>2 DEF NodesRight
    <2>9. header' = HeaderAt'[Len(fs_root') + 1]
      <3>1. /\ HeaderAt[k + 1] = HeaderAt[k] + Stride(k) /\ HeaderAt[k] \in Nat
            /\ Stride(k) = BLOCK + round_size(archive[k].size) /\ Stride(k) \in Nat
        BY <1>1, HeaderIs, HeadersAscend
      <3>2. BLOCK \in Int /\ round_size(archive[k].size) \in Int
        <4>1. archive[k].size \in Nat
          BY <1>1, ArchiveAssumption DEF FilesOK
        <4>2. archive[k].size % BLOCK \in Int /\ (archive[k].size + BLOCK) % BLOCK \in Int
          BY <4>1, Sizes
        <4> QED
          BY <4>1, <4>2, Sizes DEF round_size
      <3> QED
        BY <2>1, <2>5, <2>6, <2>7, <3>1, <3>2
    <2> QED
      BY <2>2, <2>8, <2>9 DEF OnHeader, Behind
  <1>9. CASE LoadEnd
    <2>1. /\ UNCHANGED <<archive, mods, fs_root>> /\ phase = "load_ustar" /\ phase' = "next_module"
          /\ header = HeaderAt[Len(archive) + 1]
      BY <1>9 DEF LoadEnd, inputs, files
    <2>2. header = HeaderAt[Len(fs_root) + 1] /\ NodesRight
      BY <1>1, <2>1 DEF OnHeader
    <2>3. Len(fs_root) \in Nat /\ Len(archive) \in Nat /\ Len(fs_root) <= Len(archive)
      BY <1>1, <2>2, HeaderIs DEF FilesOK, NodesRight
    <2>4. ~(Len(fs_root) + 1 < Len(archive) + 1)
      <3>1. PICK i, l : i = Len(fs_root) + 1 /\ l = Len(archive) + 1
        OBVIOUS
      <3>2. i \in 1 .. l /\ l \in 1 .. l
        BY <2>3, <3>1
      <3>3. HeaderAt[l] \in Nat /\ (i < l => HeaderAt[i] < HeaderAt[l])
        BY <1>1, <3>1, <3>2, HeadersAscend
      <3>4. HeaderAt[i] = HeaderAt[l]
        BY <2>1, <2>2, <3>1, Zenon
      <3> QED
        BY <3>1, <3>2, <3>3, <3>4
    <2>5. Len(fs_root) = Len(archive)
      BY <2>3, <2>4
    <2> QED
      BY <2>1, <2>2, <2>5 DEF OnHeader, NodesRight, HeaderAt, Behind
  <1>10. CASE NextModule \/ RunShell \/ Exec \/ Return
    BY <1>4, <1>10 DEF NextModule, RunShell, Exec, Return, inputs, files, Behind
  <1>11. CASE UNCHANGED vars
    BY <1>2, <1>11 DEF vars, inputs, files
  <1> QED
    BY <1>5, <1>6, <1>7, <1>8, <1>9, <1>10, <1>11 DEF Next

\* load_ustar's walk is on a header until it ends, and every file that is the
\* first of its name is found, with its own data and size.
THEOREM FilesAreFound == Spec => []FilesFound
  BY FInvInit, FInvStep, FInvFinds, PTL DEF Spec
=============================================================================
