--------------------------- MODULE Shell_proofs ---------------------------
(***************************************************************************)
(* Proofs about the parts of the lisp shell that keep state: the symbol    *)
(* table (ScopeTable), for every set of names, every hash and all bounds,  *)
(* the nodes and their collector (Nodes), for any nodes that point at each *)
(* other in any way without a cycle, and the line editor of the prompt     *)
(* (LineEditor), for every alphabet, buffer, word and parser.              *)
(***************************************************************************)
EXTENDS ScopeTable, Nodes, LineEditor, TLAPS, WellFoundedInduction, SequenceTheorems,
        FiniteSetTheorems

-----------------------------------------------------------------------------
(* Searching a chain. *)

\* A set of naturals has a least element.
LEMMA Least ==
    ASSUME NEW T \in SUBSET Nat, T # {}
    PROVE  \E m \in T : \A k \in T : m <= k
  <1> DEFINE R == {ss \in Nat \X Nat : ss[1] < ss[2]}
  <1>1. IsWellFoundedOn(R, Nat)
    BY NatLessThanWellFounded DEF OpToRel
  <1>2. ASSUME NEW k \in Nat, NEW j \in Nat, k < j PROVE <<k, j>> \in R
    BY <1>2
  <1> HIDE DEF R
  <1>3. PICK m \in T : \A k \in T : <<k, m>> \notin R
    BY <1>1, WFMin
  <1>4. ASSUME NEW k \in T PROVE m <= k
    <2>1. ~(k < m)
      BY <1>2, <1>3
    <2> QED
      BY <2>1
  <1> QED
    BY <1>4

\* Min of the community modules is the least element.
LEMMA MinIsLeast ==
    ASSUME NEW T \in SUBSET Nat, T # {}
    PROVE  Min(T) \in T /\ \A k \in T : Min(T) <= k
  BY Least DEF Min

Match(entry, name, level) == entry.name = name /\ entry.level = level

\* Position finds the first entry of the name and the level.
LEMMA PositionFirst ==
    ASSUME NEW chain \in Seq(Entry), NEW name, NEW level, NEW p,
           p = Position(chain, name, level)
    PROVE  \/ p = 0 /\ \A i \in 1 .. Len(chain) : ~Match(chain[i], name, level)
           \/ /\ p \in 1 .. Len(chain) /\ Match(chain[p], name, level)
              /\ \A i \in 1 .. Len(chain) : i < p => ~Match(chain[i], name, level)
  <1> DEFINE I == {i \in 1 .. Len(chain) : Match(chain[i], name, level)}
  <1>1. Position(chain, name, level) = IF I # {} THEN Min(I) ELSE 0
    BY DEF Position, SelectInSeq, Match
  <1>2. I \in SUBSET Nat
    OBVIOUS
  <1>3. CASE I = {}
    BY <1>1, <1>3
  <1>4. CASE I # {}
    <2>1. Min(I) \in I /\ \A k \in I : Min(I) <= k
      BY <1>2, <1>4, MinIsLeast
    <2>2. p \in I /\ \A k \in I : p <= k
      BY <1>1, <1>4, <2>1
    <2>3. p \in 1 .. Len(chain) /\ Match(chain[p], name, level)
      BY <2>2
    <2>4. ASSUME NEW i \in 1 .. Len(chain), i < p PROVE ~Match(chain[i], name, level)
      BY <2>2, <2>3, <2>4, LenProperties
    <2> QED
      BY <2>3, <2>4
  <1> QED
    BY <1>3, <1>4

\* scope_recursively_delete cuts a chain in front of the first entry below the
\* level: d entries go.
LEMMA RemainingIsSuffix ==
    ASSUME NEW chain \in Seq(Entry), NEW level \in Nat
    PROVE  \E d \in 0 .. Len(chain) :
             /\ Remaining(chain, level) \in Seq(Entry)
             /\ Len(Remaining(chain, level)) = Len(chain) - d
             /\ \A i \in 1 .. Len(chain) - d : Remaining(chain, level)[i] = chain[i + d]
             /\ \A i \in 1 .. d : ~(chain[i].level < level)
             /\ d < Len(chain) => chain[d + 1].level < level
  <1> DEFINE I == {i \in 1 .. Len(chain) : chain[i].level < level}
             first == IF I # {} THEN Min(I) ELSE 0
  <1>1. Remaining(chain, level) =
            IF first = 0 THEN <<>> ELSE SubSeq(chain, first, Len(chain))
    BY DEF Remaining, SelectInSeq
  <1>2. I \in SUBSET Nat /\ Len(chain) \in Nat
    BY LenProperties
  <1>3. CASE I = {}
    <2>1. Remaining(chain, level) = <<>>
      BY <1>1, <1>3
    <2>2. \A i \in 1 .. Len(chain) : ~(chain[i].level < level)
      BY <1>3
    <2>3. Remaining(chain, level) \in Seq(Entry) /\ Len(Remaining(chain, level)) = 0
      BY <2>1, EmptySeq
    <2>4. PICK d : d = Len(chain) /\ d \in 0 .. Len(chain) /\ Len(chain) - d = 0
      BY <1>2
    <2>5. ~(d < Len(chain)) /\ 1 .. Len(chain) - d = {}
      BY <1>2, <2>4
    <2> QED
      BY <2>2, <2>3, <2>4, <2>5
  <1>4. CASE I # {}
    <2>1. first \in I /\ \A k \in I : first <= k
      BY <1>2, <1>4, MinIsLeast
    <2> HIDE DEF first
    <2>2. first \in 1 .. Len(chain) /\ chain[first].level < level
      BY <2>1
    <2>3. \A i \in 1 .. first - 1 : ~(chain[i].level < level)
      BY <1>2, <2>1, <2>2
    <2>4. Remaining(chain, level) = SubSeq(chain, first, Len(chain))
      BY <1>1, <2>2
    <2>5. \A i \in first .. Len(chain) : chain[i] \in Entry
      BY <1>2, <2>2, ElementOfSeq
    <2>6. /\ SubSeq(chain, first, Len(chain)) \in Seq(Entry)
          /\ Len(SubSeq(chain, first, Len(chain))) = Len(chain) - first + 1
          /\ \A i \in 1 .. Len(chain) - first + 1 :
                 SubSeq(chain, first, Len(chain))[i] = chain[first + i - 1]
      BY <1>2, <2>2, <2>5, SubSeqProperties
    <2>7. first - 1 \in 0 .. Len(chain)
      BY <1>2, <2>2
    <2> WITNESS first - 1 \in 0 .. Len(chain)
    <2>8. \A i \in 1 .. Len(chain) - (first - 1) : first + i - 1 = i + (first - 1)
      BY <1>2, <2>2
    <2> QED
      BY <1>2, <2>2, <2>3, <2>4, <2>6, <2>8
  <1> QED
    BY <1>3, <1>4


\* An element of a chain.
LEMMA EntryAt ==
    ASSUME NEW chain \in Seq(Entry)
    PROVE  /\ Len(chain) \in Nat /\ DOMAIN chain = 1 .. Len(chain)
           /\ \A i \in DOMAIN chain :
                  i \in Nat /\ chain[i] \in Entry /\ chain[i].level \in Nat
  <1>1. Len(chain) \in Nat /\ DOMAIN chain = 1 .. Len(chain)
    BY LenProperties
  <1>2. ASSUME NEW i \in DOMAIN chain
        PROVE  i \in Nat /\ chain[i] \in Entry /\ chain[i].level \in Nat
    <2>1. i \in 1 .. Len(chain)
      BY <1>1
    <2>2. chain[i] \in Entry
      BY <2>1, ElementOfSeq
    <2>3. chain[i].level \in 0 .. MaxLevel
      BY <2>2 DEF Entry
    <2> QED
      BY <1>1, <2>1, <2>2, <2>3
  <1> QED
    BY <1>1, <1>2

\* What is left of a sorted chain is sorted and below the level.
LEMMA RemainingSorted ==
    ASSUME NEW chain \in Seq(Entry), NEW level \in Nat, Sorted(chain)
    PROVE  /\ Remaining(chain, level) \in Seq(Entry)
           /\ Sorted(Remaining(chain, level))
           /\ UpTo(Remaining(chain, level), level - 1)
  <1>1. PICK d \in 0 .. Len(chain) :
             /\ Remaining(chain, level) \in Seq(Entry)
             /\ Len(Remaining(chain, level)) = Len(chain) - d
             /\ \A i \in 1 .. Len(chain) - d : Remaining(chain, level)[i] = chain[i + d]
             /\ d < Len(chain) => chain[d + 1].level < level
    BY RemainingIsSuffix
  <1> DEFINE rest == Remaining(chain, level)
  <1> HIDE DEF rest
  <1>2. rest \in Seq(Entry) /\ Len(rest) = Len(chain) - d
    BY <1>1 DEF rest
  <1>3. Len(chain) \in Nat /\ DOMAIN chain = 1 .. Len(chain) /\ d \in Nat
    BY EntryAt
  <1>4. DOMAIN rest = 1 .. Len(chain) - d
    BY <1>2, LenProperties
  <1>5. ASSUME NEW i \in DOMAIN rest
        PROVE  i + d \in DOMAIN chain /\ rest[i] = chain[i + d] /\ i \in Nat /\ 0 < i
    <2>1. i \in 1 .. Len(chain) - d
      BY <1>4
    <2>2. rest[i] = chain[i + d]
      BY <1>1, <2>1 DEF rest
    <2> QED
      BY <1>3, <2>1, <2>2
  <1>6. ASSUME NEW i \in DOMAIN rest, NEW j \in DOMAIN rest, i < j
        PROVE  rest[i].level >= rest[j].level
    <2>1. /\ i + d \in DOMAIN chain /\ j + d \in DOMAIN chain /\ i + d < j + d
          /\ rest[i] = chain[i + d] /\ rest[j] = chain[j + d]
      BY <1>3, <1>5, <1>6
    <2> QED
      BY <2>1 DEF Sorted
  <1>7. ASSUME NEW i \in DOMAIN rest PROVE rest[i].level <= level - 1
    <2>1. i + d \in DOMAIN chain /\ rest[i] = chain[i + d] /\ i \in Nat /\ 0 < i
      BY <1>5
    <2>2. d + 1 \in DOMAIN chain /\ d < Len(chain) /\ d + 1 <= i + d
      BY <1>3, <2>1
    <2>3. chain[d + 1].level < level
      BY <1>1, <2>2
    <2>4. chain[d + 1].level \in Nat /\ chain[i + d].level \in Nat
      BY <2>1, <2>2, EntryAt
    <2>5. chain[i + d].level <= chain[d + 1].level
      <3>1. CASE i = 1
        BY <1>3, <2>4, <3>1
      <3>2. CASE i # 1
        <4>1. d + 1 < i + d
          BY <1>3, <2>1, <3>2
        <4> QED
          BY <2>1, <2>2, <4>1 DEF Sorted
      <3> QED
        BY <3>1, <3>2
    <2> QED
      BY <2>1, <2>3, <2>4, <2>5
  <1> QED
    BY <1>2, <1>6, <1>7 DEF rest, Sorted, UpTo

\* new is old with one entry in front.
Pushed(old, entry, new) ==
    /\ Len(new) = Len(old) + 1
    /\ new[1] = entry
    /\ \A i \in 1 .. Len(old) : new[i + 1] = old[i]

\* An entry of the top level in front keeps a chain sorted.
LEMMA PushedSorted ==
    ASSUME NEW old \in Seq(Entry), NEW new \in Seq(Entry), NEW entry \in Entry,
           Pushed(old, entry, new), Sorted(old), UpTo(old, entry.level)
    PROVE  Sorted(new) /\ UpTo(new, entry.level)
  <1>1. /\ Len(old) \in Nat /\ DOMAIN old = 1 .. Len(old) /\ DOMAIN new = 1 .. Len(old) + 1
    BY EntryAt, LenProperties DEF Pushed
  <1>2. entry.level \in Nat
    BY DEF Entry
  <1>3. ASSUME NEW i \in DOMAIN new, i # 1
        PROVE  i - 1 \in DOMAIN old /\ new[i] = old[i - 1] /\ i \in Nat
    <2>1. i \in 1 .. Len(old) + 1
      BY <1>1
    <2>2. i - 1 \in 1 .. Len(old) /\ (i - 1) + 1 = i
      BY <1>1, <1>3, <2>1
    <2>3. new[(i - 1) + 1] = old[i - 1]
      BY <2>2 DEF Pushed
    <2> QED
      BY <1>1, <2>1, <2>2, <2>3
  <1>4. ASSUME NEW i \in DOMAIN new PROVE new[i].level <= entry.level
    <2>1. CASE i = 1
      BY <1>2, <2>1 DEF Pushed
    <2>2. CASE i # 1
      BY <1>3, <2>2 DEF UpTo
    <2> QED
      BY <2>1, <2>2
  <1>5. ASSUME NEW i \in DOMAIN new, NEW j \in DOMAIN new, i < j
        PROVE  new[i].level >= new[j].level
    <2>1. i \in Nat /\ j \in Nat /\ 1 <= i
      BY <1>1
    <2>2. CASE i = 1
      <3>1. new[i].level = entry.level /\ new[j].level <= entry.level
        BY <1>4, <2>2 DEF Pushed
      <3>2. new[j].level \in Nat
        BY EntryAt
      <3> QED
        BY <1>2, <3>1, <3>2
    <2>3. CASE i # 1
      <3>1. /\ i - 1 \in DOMAIN old /\ new[i] = old[i - 1]
            /\ j - 1 \in DOMAIN old /\ new[j] = old[j - 1] /\ i - 1 < j - 1
        BY <1>3, <1>5, <2>1, <2>3
      <3> QED
        BY <3>1 DEF Sorted
    <2> QED
      BY <2>2, <2>3
  <1> QED
    BY <1>4, <1>5 DEF Sorted, UpTo

-----------------------------------------------------------------------------
(* What the operations do to one chain. *)

Newest(name, node) == [name |-> name, node |-> node, level |-> scope.level]

\* scope_add pushes one entry on one bucket.
LEMMA AddChain ==
    ASSUME TypeOK, NEW name \in Name, NEW node \in Value, Add(name, node)
    PROVE  /\ BucketOf[name] \in Bucket
           /\ Newest(name, node) \in Entry
           /\ scope'.level = scope.level
           /\ scope'.data \in [Bucket -> Seq(Entry)]
           /\ scope' = [data |-> scope'.data, level |-> scope'.level]
           /\ \A b \in Bucket : b # BucketOf[name] => scope'.data[b] = scope.data[b]
           /\ Pushed(scope.data[BucketOf[name]], Newest(name, node),
                     scope'.data[BucketOf[name]])
  <1> DEFINE bucket == BucketOf[name]
             old    == scope.data[bucket]
             new    == <<Newest(name, node)>> \o old
  <1>1. bucket \in Bucket
    BY ScopeAssumption, ScopeTableAssumption
  <1>2. scope.data \in [Bucket -> Seq(Entry)] /\ scope.level \in 0 .. MaxLevel
    BY DEF TypeOK, Table
  <1>3. Newest(name, node) \in Entry
    BY <1>2 DEF Newest, Entry
  <1>4. old \in Seq(Entry) /\ <<Newest(name, node)>> \in Seq(Entry)
    BY <1>1, <1>2, <1>3
  <1>5. /\ new \in Seq(Entry)
        /\ Len(new) = 1 + Len(old)
        /\ \A i \in 1 .. 1 + Len(old) :
               new[i] = IF i <= 1 THEN <<Newest(name, node)>>[i] ELSE old[i - 1]
    BY <1>4, ConcatProperties
  <1>6. Len(old) \in Nat
    BY <1>4, LenProperties
  <1>7. Pushed(old, Newest(name, node), new)
    BY <1>5, <1>6 DEF Pushed
  <1>8. scope' = [scope EXCEPT !.data[bucket] = new]
    BY DEF Add, ScopeAdd, Newest
  <1> HIDE DEF new
  <1>9. /\ scope'.level = scope.level
        /\ scope'.data = [scope.data EXCEPT ![bucket] = new]
        /\ scope' = [data |-> scope'.data, level |-> scope'.level]
    BY <1>8 DEF TypeOK, Table
  <1>10. scope'.data[bucket] = new /\ scope'.data \in [Bucket -> Seq(Entry)]
    BY <1>1, <1>2, <1>5, <1>9
  <1>11. \A b \in Bucket : b # bucket => scope'.data[b] = scope.data[b]
    BY <1>2, <1>9
  <1> QED
    BY <1>1, <1>3, <1>5, <1>6, <1>7, <1>9, <1>10, <1>11

\* scope_out cuts every bucket.
LEMMA OutChain ==
    ASSUME TypeOK, Out
    PROVE  /\ scope.level \in 1 .. MaxLevel
           /\ scope'.level = scope.level - 1
           /\ scope'.data = [b \in Bucket |-> Remaining(scope.data[b], scope.level)]
           /\ scope' = [data |-> scope'.data, level |-> scope'.level]
  <1>1. scope' = [scope EXCEPT
                    !.data = [b \in Bucket |-> Remaining(scope.data[b], scope.level)],
                    !.level = scope.level - 1]
    BY DEF Out, ScopeOut
  <1>2. scope.level \in 1 .. MaxLevel
    BY DEF TypeOK, Table, Out
  <1> QED
    BY <1>1, <1>2 DEF TypeOK, Table

\* scope_in leaves the buckets alone.
LEMMA InChain ==
    ASSUME TypeOK, In
    PROVE  /\ scope.level \in 0 .. MaxLevel - 1
           /\ scope'.level = scope.level + 1
           /\ scope'.data = scope.data
           /\ scope' = [data |-> scope'.data, level |-> scope'.level]
  BY ScopeTableAssumption DEF TypeOK, Table, In, ScopeIn

-----------------------------------------------------------------------------
(* The invariant: types, buckets sorted by level, nothing above the level.   *)

IInv == TypeOK /\ BucketsSorted /\ NothingAbove

\* An empty table is sorted, and nothing is above level 0.
LEMMA InitInv == Init => IInv
  <1> SUFFICES ASSUME Init PROVE IInv
    OBVIOUS
  <1>1. scope = [data |-> [b \in Bucket |-> <<>>], level |-> 0]
    BY DEF Init
  <1>2. <<>> \in Seq(Entry) /\ Len(<<>>) = 0
    BY EmptySeq
  <1>3. TypeOK
    BY <1>1, <1>2, ScopeTableAssumption DEF TypeOK, Table
  <1>4. \A b \in Bucket : scope.data[b] = <<>> /\ DOMAIN scope.data[b] = {}
    BY <1>1
  <1> QED
    BY <1>3, <1>4 DEF IInv, BucketsSorted, NothingAbove, Sorted, UpTo

\* One bucket gets an entry of the current level, the others stay.
LEMMA AddInv ==
    ASSUME IInv, NEW name \in Name, NEW node \in Value, Add(name, node)
    PROVE  IInv'
  <1>1. TypeOK /\ BucketsSorted /\ NothingAbove
    BY DEF IInv
  <1>2. /\ BucketOf[name] \in Bucket
        /\ Newest(name, node) \in Entry
        /\ scope'.level = scope.level
        /\ scope'.data \in [Bucket -> Seq(Entry)]
        /\ scope' = [data |-> scope'.data, level |-> scope'.level]
        /\ \A b \in Bucket : b # BucketOf[name] => scope'.data[b] = scope.data[b]
        /\ Pushed(scope.data[BucketOf[name]], Newest(name, node),
                  scope'.data[BucketOf[name]])
    BY <1>1, AddChain
  <1>3. TypeOK'
    BY <1>1, <1>2 DEF TypeOK, Table
  <1>4. ASSUME NEW b \in Bucket
        PROVE  Sorted(scope'.data[b]) /\ UpTo(scope'.data[b], scope'.level)
    <2>1. Sorted(scope.data[b]) /\ UpTo(scope.data[b], scope.level)
      BY <1>1 DEF BucketsSorted, NothingAbove
    <2>2. CASE b # BucketOf[name]
      BY <1>2, <2>1, <2>2
    <2>3. CASE b = BucketOf[name]
      <3>1. scope.data[b] \in Seq(Entry) /\ scope'.data[b] \in Seq(Entry)
        BY <1>1, <1>2 DEF TypeOK, Table
      <3>2. Newest(name, node).level = scope.level
        BY DEF Newest
      <3>3. Pushed(scope.data[b], Newest(name, node), scope'.data[b])
        BY <1>2, <2>3
      <3> QED
        BY <1>2, <2>1, <3>1, <3>2, <3>3, PushedSorted
    <2> QED
      BY <2>2, <2>3
  <1> QED
    BY <1>3, <1>4 DEF IInv, BucketsSorted, NothingAbove

\* scope_out keeps the invariant: what it cuts off is what is above the new level.
LEMMA OutInv ==
    ASSUME IInv, Out
    PROVE  IInv'
  <1>1. TypeOK /\ BucketsSorted
    BY DEF IInv
  <1>2. /\ scope.level \in 1 .. MaxLevel
        /\ scope'.level = scope.level - 1
        /\ scope'.data = [b \in Bucket |-> Remaining(scope.data[b], scope.level)]
        /\ scope' = [data |-> scope'.data, level |-> scope'.level]
    BY <1>1, OutChain
  <1>3. ASSUME NEW b \in Bucket
        PROVE  /\ scope'.data[b] \in Seq(Entry)
               /\ Sorted(scope'.data[b]) /\ UpTo(scope'.data[b], scope'.level)
    <2>1. scope.data[b] \in Seq(Entry) /\ Sorted(scope.data[b]) /\ scope.level \in Nat
      BY <1>1, <1>2 DEF TypeOK, Table, BucketsSorted
    <2>2. scope'.data[b] = Remaining(scope.data[b], scope.level)
      BY <1>2
    <2> QED
      BY <1>2, <2>1, <2>2, RemainingSorted
  <1>4. scope'.data \in [Bucket -> Seq(Entry)]
    BY <1>2, <1>3
  <1>5. scope'.level \in 0 .. MaxLevel
    BY <1>2, ScopeTableAssumption
  <1>6. TypeOK'
    BY <1>2, <1>4, <1>5 DEF TypeOK, Table
  <1> QED
    BY <1>3, <1>6 DEF IInv, BucketsSorted, NothingAbove

\* scope_in keeps it: it changes the level only.
LEMMA InInv ==
    ASSUME IInv, In
    PROVE  IInv'
  <1>1. TypeOK /\ BucketsSorted /\ NothingAbove
    BY DEF IInv
  <1>2. /\ scope.level \in 0 .. MaxLevel - 1
        /\ scope'.level = scope.level + 1
        /\ scope'.data = scope.data
        /\ scope' = [data |-> scope'.data, level |-> scope'.level]
    BY <1>1, InChain
  <1>3. TypeOK'
    BY <1>1, <1>2, ScopeTableAssumption DEF TypeOK, Table
  <1>4. ASSUME NEW b \in Bucket PROVE UpTo(scope'.data[b], scope'.level)
    <2>1. scope.data[b] \in Seq(Entry) /\ UpTo(scope.data[b], scope.level)
      BY <1>1 DEF TypeOK, Table, NothingAbove
    <2>2. ASSUME NEW i \in DOMAIN scope.data[b]
          PROVE  scope.data[b][i].level <= scope.level + 1
      <3>1. scope.data[b][i].level <= scope.level
        BY <2>1 DEF UpTo
      <3>2. scope.data[b][i].level \in Nat
        BY <2>1, EntryAt
      <3> QED
        BY <1>2, <3>1, <3>2
    <2> QED
      BY <1>2, <2>2 DEF UpTo
  <1>5. BucketsSorted'
    BY <1>1, <1>2 DEF BucketsSorted
  <1> QED
    BY <1>3, <1>4, <1>5 DEF IInv, NothingAbove

\* Every operation keeps the invariant.
LEMMA NextInv == IInv /\ [Next]_scope => IInv'
  <1> SUFFICES ASSUME IInv, [Next]_scope PROVE IInv'
    OBVIOUS
  <1>1. CASE In
    BY <1>1, InInv
  <1>2. CASE Out
    BY <1>2, OutInv
  <1>3. CASE \E name \in Name, node \in Value : Add(name, node)
    BY <1>3, AddInv
  <1>4. CASE UNCHANGED scope
    BY <1>4 DEF IInv, TypeOK, BucketsSorted, NothingAbove
  <1> QED
    BY <1>1, <1>2, <1>3, <1>4 DEF Next

\* Spec => []IInv, the types included.
LEMMA Invariant == Spec => []IInv
  BY InitInv, NextInv, PTL DEF Spec

\* The type invariant of the table.
THEOREM TypeCorrect == Spec => []TypeOK
  BY Invariant, PTL DEF IInv

\* The chains are sorted by level, which scope_recursively_delete relies on
\* when it stops at the first entry below the level, and no entry outlives its
\* level: scope_out deletes all it has to.
THEOREM LevelsSorted == Spec => []BucketsSorted
  BY Invariant, PTL DEF IInv

\* After scope_out no entry of the level it left is in any bucket.
THEOREM NothingOutlives == Spec => []NothingAbove
  BY Invariant, PTL DEF IInv

-----------------------------------------------------------------------------
(* What a chain says of a name in a level. *)

\* An entry in front decides about its name and its level and nothing else.
LEMMA BoundPushed ==
    ASSUME NEW old \in Seq(Entry), NEW new \in Seq(Entry), NEW entry \in Entry,
           Pushed(old, entry, new), NEW name, NEW level
    PROVE  Bound(new, name, level) =
               IF Match(entry, name, level) THEN entry.node ELSE Bound(old, name, level)
  <1> DEFINE p == Position(old, name, level)
             q == Position(new, name, level)
  <1> HIDE DEF p, q
  <1>1. \/ p = 0 /\ \A i \in 1 .. Len(old) : ~Match(old[i], name, level)
        \/ /\ p \in 1 .. Len(old) /\ Match(old[p], name, level)
           /\ \A i \in 1 .. Len(old) : i < p => ~Match(old[i], name, level)
    BY PositionFirst DEF p
  <1>2. \/ q = 0 /\ \A i \in 1 .. Len(new) : ~Match(new[i], name, level)
        \/ /\ q \in 1 .. Len(new) /\ Match(new[q], name, level)
           /\ \A i \in 1 .. Len(new) : i < q => ~Match(new[i], name, level)
    BY PositionFirst DEF q
  <1>3. /\ Len(old) \in Nat /\ Len(new) = Len(old) + 1 /\ new[1] = entry
        /\ \A i \in 1 .. Len(old) : new[i + 1] = old[i]
    BY EntryAt DEF Pushed
  <1>4. CASE Match(entry, name, level)
    <2>1. q = 1
      BY <1>2, <1>3, <1>4
    <2> QED
      BY <1>3, <1>4, <2>1 DEF Bound, q
  <1>5. CASE ~Match(entry, name, level)
    <2>1. ASSUME NEW i \in 1 .. Len(new), i # 1
          PROVE  i - 1 \in 1 .. Len(old) /\ new[i] = old[i - 1]
      <3>1. i - 1 \in 1 .. Len(old) /\ (i - 1) + 1 = i
        BY <1>3, <2>1
      <3> QED
        BY <1>3, <3>1
    <2>2. CASE p = 0
      <3>1. \A i \in 1 .. Len(old) : ~Match(old[i], name, level)
        BY <1>1, <2>2
      <3>2. q = 0
        BY <1>2, <1>3, <1>5, <2>1, <3>1
      <3> QED
        BY <1>5, <2>2, <3>2 DEF Bound, p, q
    <2>3. CASE p # 0
      <3>1. /\ p \in 1 .. Len(old) /\ Match(old[p], name, level)
            /\ \A i \in 1 .. Len(old) : i < p => ~Match(old[i], name, level)
        BY <1>1, <2>3
      <3>2. p + 1 \in 1 .. Len(new) /\ new[p + 1] = old[p]
        BY <1>3, <3>1
      <3>3. q # 0
        BY <1>2, <3>1, <3>2
      <3>4. /\ q \in 1 .. Len(new) /\ Match(new[q], name, level)
            /\ \A i \in 1 .. Len(new) : i < q => ~Match(new[i], name, level)
        BY <1>2, <3>3
      <3>5. ~(p + 1 < q)
        BY <3>1, <3>2, <3>4
      <3>6. q # 1
        BY <1>3, <1>5, <3>4
      <3>7. q - 1 \in 1 .. Len(old) /\ new[q] = old[q - 1]
        BY <2>1, <3>4, <3>6
      <3>8. ~(q - 1 < p)
        BY <3>1, <3>4, <3>7
      <3>9. q = p + 1
        BY <1>3, <3>1, <3>4, <3>5, <3>8
      <3> QED
        BY <1>5, <2>3, <3>2, <3>3, <3>9 DEF Bound, p, q
    <2> QED
      BY <2>2, <2>3
  <1> QED
    BY <1>4, <1>5

\* Cutting a chain leaves what it says of the levels below.
LEMMA BoundRemaining ==
    ASSUME NEW chain \in Seq(Entry), NEW top \in Nat,
           NEW name, NEW level \in Nat, level < top
    PROVE  Bound(Remaining(chain, top), name, level) = Bound(chain, name, level)
  <1> DEFINE rest == Remaining(chain, top)
             p    == Position(chain, name, level)
             q    == Position(rest, name, level)
  <1>1. PICK d \in 0 .. Len(chain) :
             /\ rest \in Seq(Entry)
             /\ Len(rest) = Len(chain) - d
             /\ \A i \in 1 .. Len(chain) - d : rest[i] = chain[i + d]
             /\ \A i \in 1 .. d : ~(chain[i].level < top)
    BY RemainingIsSuffix
  <1> HIDE DEF p, q, rest
  <1>2. \/ p = 0 /\ \A i \in 1 .. Len(chain) : ~Match(chain[i], name, level)
        \/ /\ p \in 1 .. Len(chain) /\ Match(chain[p], name, level)
           /\ \A i \in 1 .. Len(chain) : i < p => ~Match(chain[i], name, level)
    BY PositionFirst DEF p
  <1>3. \/ q = 0 /\ \A i \in 1 .. Len(rest) : ~Match(rest[i], name, level)
        \/ /\ q \in 1 .. Len(rest) /\ Match(rest[q], name, level)
           /\ \A i \in 1 .. Len(rest) : i < q => ~Match(rest[i], name, level)
    BY <1>1, PositionFirst DEF q
  <1>4. Len(chain) \in Nat /\ d \in Nat
    BY EntryAt
  <1>5. \A i \in 1 .. d : ~Match(chain[i], name, level)
    BY <1>1 DEF Match
  <1>6. CASE p = 0
    <2>1. \A i \in 1 .. Len(chain) : ~Match(chain[i], name, level)
      BY <1>2, <1>6
    <2>2. \A i \in 1 .. Len(rest) : i + d \in 1 .. Len(chain) /\ rest[i] = chain[i + d]
      BY <1>1, <1>4
    <2>3. q = 0
      BY <1>3, <2>1, <2>2
    <2> QED
      BY <1>6, <2>3 DEF Bound, p, q, rest
  <1>7. CASE p # 0
    <2>1. /\ p \in 1 .. Len(chain) /\ Match(chain[p], name, level)
          /\ \A i \in 1 .. Len(chain) : i < p => ~Match(chain[i], name, level)
      BY <1>2, <1>7
    <2>2. d < p
      BY <1>4, <1>5, <2>1
    <2>3. p - d \in 1 .. Len(rest) /\ (p - d) + d = p
      BY <1>1, <1>4, <2>1, <2>2
    <2>4. rest[p - d] = chain[p]
      BY <1>1, <2>3
    <2>5. /\ q \in 1 .. Len(rest) /\ Match(rest[q], name, level)
          /\ \A i \in 1 .. Len(rest) : i < q => ~Match(rest[i], name, level)
      BY <1>3, <2>1, <2>3, <2>4
    <2>6. ~(p - d < q)
      BY <2>1, <2>3, <2>4, <2>5
    <2>7. q + d \in 1 .. Len(chain) /\ rest[q] = chain[q + d]
      BY <1>1, <1>4, <2>5
    <2>8. ~(q + d < p)
      BY <2>1, <2>5, <2>7
    <2>9. q = p - d
      BY <1>1, <1>4, <2>1, <2>3, <2>5, <2>6, <2>8
    <2>10. q # 0
      BY <2>5
    <2> QED
      BY <1>7, <2>4, <2>9, <2>10 DEF Bound, p, q, rest
  <1> QED
    BY <1>6, <1>7

\* A chain says nothing of a level above its entries.
LEMMA BoundAbove ==
    ASSUME NEW chain \in Seq(Entry), NEW top \in Nat, UpTo(chain, top),
           NEW name, NEW level \in Nat, top < level
    PROVE  Bound(chain, name, level) = Unbound
  <1> DEFINE p == Position(chain, name, level)
  <1> HIDE DEF p
  <1>1. \/ p = 0
        \/ p \in 1 .. Len(chain) /\ Match(chain[p], name, level)
    BY PositionFirst DEF p
  <1>2. ASSUME p \in 1 .. Len(chain), Match(chain[p], name, level) PROVE FALSE
    <2>1. chain[p].level = level /\ chain[p].level <= top
      BY <1>2, EntryAt DEF Match, UpTo
    <2> QED
      BY <2>1
  <1>3. p = 0
    BY <1>1, <1>2
  <1> QED
    BY <1>3 DEF Bound, p

-----------------------------------------------------------------------------
(* The table implements the stack of frames. *)

Frame == [Name -> Value \union {Unbound}]

Chain(table, name) == table.data[BucketOf[name]]

\* The chain of a name is a sequence of entries.
LEMMA ChainType ==
    ASSUME NEW table \in Table, NEW name \in Name
    PROVE  BucketOf[name] \in Bucket /\ Chain(table, name) \in Seq(Entry)
  <1>1. BucketOf[name] \in Bucket
    BY ScopeAssumption, ScopeTableAssumption
  <1> QED
    BY <1>1 DEF Table, Chain

\* What a chain says of a name in a level is a value or nothing.
LEMMA BoundType ==
    ASSUME NEW chain \in Seq(Entry), NEW name, NEW level
    PROVE  Bound(chain, name, level) \in Value \union {Unbound}
  <1> DEFINE p == Position(chain, name, level)
  <1> HIDE DEF p
  <1>1. p = 0 \/ p \in DOMAIN chain
    BY PositionFirst, EntryAt DEF p
  <1>2. p \in DOMAIN chain => chain[p].node \in Value
    BY EntryAt DEF Entry
  <1> QED
    BY <1>1, <1>2 DEF Bound, p

\* The frames are a sequence, one frame for each level.
LEMMA FramesType ==
    ASSUME NEW table \in Table
    PROVE  /\ table.level \in Nat
           /\ FramesOf(table) \in Seq(Frame) /\ Len(FramesOf(table)) = table.level + 1
           /\ \A i \in 1 .. table.level + 1 : FramesOf(table)[i] \in Frame
           /\ \A i \in 1 .. table.level + 1, name \in Name :
                  FramesOf(table)[i][name] = Bound(Chain(table, name), name, i - 1)
  <1>1. table.level \in Nat
    BY DEF Table
  <1>2. ASSUME NEW i \in 1 .. table.level + 1
        PROVE  /\ FramesOf(table)[i] \in Frame
               /\ \A name \in Name :
                      FramesOf(table)[i][name] = Bound(Chain(table, name), name, i - 1)
    <2>1. FramesOf(table)[i] = [name \in Name |-> Bound(Chain(table, name), name, i - 1)]
      BY DEF FramesOf, Chain
    <2>2. \A name \in Name : Bound(Chain(table, name), name, i - 1) \in Value \union {Unbound}
      BY ChainType, BoundType
    <2> QED
      BY <2>1, <2>2 DEF Frame
  <1>3. FramesOf(table) \in [1 .. table.level + 1 -> Frame]
    BY <1>2 DEF FramesOf
  <1>4. FramesOf(table) \in Seq(Frame) /\ Len(FramesOf(table)) = table.level + 1
    BY <1>1, <1>3
  <1> QED
    BY <1>1, <1>2, <1>4

\* A frame is known by what it says of every name.
LEMMA FrameEqual ==
    ASSUME NEW f \in Frame, NEW g \in Frame, \A name \in Name : f[name] = g[name]
    PROVE  f = g
  BY DEF Frame

\* The frame without names is a frame.
LEMMA NoNamesFrame == Stack!NoNames \in Frame
  BY DEF Stack!NoNames, Frame

\* The empty table is the stack of one empty frame.
LEMMA InitFrames == Init => Stack!Init
  <1> SUFFICES ASSUME Init PROVE Stack!Init
    OBVIOUS
  <1>1. scope \in Table
    BY InitInv DEF IInv, TypeOK
  <1>2. scope.level = 0 /\ \A b \in Bucket : scope.data[b] = <<>>
    BY DEF Init
  <1>0. /\ FramesOf(scope) \in Seq(Frame)
        /\ Len(FramesOf(scope)) = scope.level + 1
        /\ \A i \in 1 .. scope.level + 1 : FramesOf(scope)[i] \in Frame
    BY <1>1, FramesType
  <1>3. FramesOf(scope) \in Seq(Frame) /\ Len(FramesOf(scope)) = 1 /\ FramesOf(scope)[1] \in Frame
    <2>1. scope.level + 1 = 1 /\ 1 \in 1 .. 1
      BY <1>2
    <2> QED
      BY <1>0, <2>1
  <1>4. ASSUME NEW name \in Name PROVE FramesOf(scope)[1][name] = Unbound
    <2>1. Chain(scope, name) = <<>> /\ <<>> \in Seq(Entry) /\ Len(<<>>) = 0
      BY <1>1, <1>2, ChainType, EmptySeq DEF Chain
    <2>2. Position(Chain(scope, name), name, 0) = 0
      <3> DEFINE p == Position(<<>>, name, 0)
      <3>1. \/ p = 0
            \/ p \in 1 .. Len(<<>>)
        BY <2>1, PositionFirst
      <3> HIDE DEF p
      <3>2. p = 0
        BY <2>1, <3>1
      <3> QED
        BY <2>1, <3>2 DEF p
    <2>3. FramesOf(scope)[1][name] = Bound(Chain(scope, name), name, 0)
      BY <1>1, <1>2, FramesType
    <2> QED
      BY <2>2, <2>3 DEF Bound
  <1>5. FramesOf(scope)[1] = Stack!NoNames
    BY <1>3, <1>4, NoNamesFrame, FrameEqual DEF Stack!NoNames
  <1>6. <<Stack!NoNames>> \in Seq(Frame) /\ Len(<<Stack!NoNames>>) = 1
    BY NoNamesFrame
  <1>7. FramesOf(scope) = <<Stack!NoNames>>
    BY <1>3, <1>5, <1>6, SeqEqual
  <1> QED
    BY <1>7 DEF Stack!Init

\* scope_in enters a frame: nothing in the table is of the new level yet.
LEMMA InFrames ==
    ASSUME IInv, In
    PROVE  Stack!Enter
  <1> DEFINE now  == FramesOf(scope)
             next == FramesOf(scope')
             want == Append(now, Stack!NoNames)
  <1>1. scope \in Table /\ NothingAbove /\ scope' \in Table
    BY InInv DEF IInv, TypeOK
  <1>2. scope'.level = scope.level + 1 /\ scope'.data = scope.data
    BY <1>1, InChain DEF TypeOK
  <1>3. /\ scope.level \in Nat
        /\ now \in Seq(Frame) /\ Len(now) = scope.level + 1
        /\ \A i \in 1 .. scope.level + 1 : now[i] \in Frame
        /\ \A i \in 1 .. scope.level + 1, name \in Name :
               now[i][name] = Bound(Chain(scope, name), name, i - 1)
    BY <1>1, FramesType
  <1>4. /\ next \in Seq(Frame) /\ Len(next) = scope'.level + 1
        /\ \A i \in 1 .. scope'.level + 1 : next[i] \in Frame
        /\ \A i \in 1 .. scope'.level + 1, name \in Name :
               next[i][name] = Bound(Chain(scope', name), name, i - 1)
    BY <1>1, FramesType
  <1>5. /\ want \in Seq(Frame) /\ Len(want) = scope.level + 2
        /\ \A i \in 1 .. scope.level + 1 : want[i] = now[i]
        /\ want[scope.level + 2] = Stack!NoNames
    BY <1>3, NoNamesFrame, AppendProperties
  <1>6. \A name \in Name : Chain(scope', name) = Chain(scope, name)
    BY <1>2 DEF Chain
  <1> HIDE DEF now, next, want
  <1>7. ASSUME NEW i \in 1 .. scope.level + 2 PROVE next[i] = want[i]
    <2>1. next[i] \in Frame
      BY <1>2, <1>3, <1>4
    <2>2. CASE i = scope.level + 2
      <3>1. ASSUME NEW name \in Name PROVE next[i][name] = Unbound
        <4>1. Chain(scope, name) \in Seq(Entry) /\ UpTo(Chain(scope, name), scope.level)
          BY <1>1, ChainType DEF NothingAbove, Chain
        <4>2. i - 1 \in Nat /\ scope.level < i - 1 /\ i \in 1 .. scope'.level + 1
          BY <1>2, <1>3, <2>2
        <4>3. next[i][name] = Bound(Chain(scope, name), name, i - 1)
          BY <1>4, <1>6, <4>2
        <4> QED
          BY <1>3, <4>1, <4>2, <4>3, BoundAbove
      <3> QED
        BY <1>5, <2>1, <2>2, <3>1, NoNamesFrame, FrameEqual DEF Stack!NoNames
    <2>3. CASE i # scope.level + 2
      <3>1. i \in 1 .. scope.level + 1 /\ i \in 1 .. scope'.level + 1
        BY <1>2, <1>3, <2>3
      <3>2. \A name \in Name : next[i][name] = now[i][name]
        BY <1>3, <1>4, <1>6, <3>1
      <3> QED
        BY <1>3, <1>5, <2>1, <3>1, <3>2, FrameEqual
    <2> QED
      BY <2>2, <2>3
  <1>8. Len(next) = Len(want) /\ Len(next) = scope.level + 2
    BY <1>2, <1>3, <1>4, <1>5
  <1>9. next = want
    BY <1>4, <1>5, <1>7, <1>8, SeqEqual
  <1> QED
    BY <1>9 DEF Stack!Enter, now, next, want

\* scope_out leaves the innermost frame and brings back the others.
LEMMA OutFrames ==
    ASSUME IInv, Out
    PROVE  Stack!Leave
  <1> DEFINE now  == FramesOf(scope)
             next == FramesOf(scope')
             want == SubSeq(now, 1, Len(now) - 1)
  <1>1. scope \in Table /\ scope' \in Table
    BY OutInv DEF IInv, TypeOK
  <1>2. /\ scope.level \in 1 .. MaxLevel
        /\ scope'.level = scope.level - 1
        /\ scope'.data = [b \in Bucket |-> Remaining(scope.data[b], scope.level)]
    BY <1>1, OutChain DEF TypeOK
  <1>3. /\ scope.level \in Nat
        /\ now \in Seq(Frame) /\ Len(now) = scope.level + 1
        /\ \A i \in 1 .. scope.level + 1 : now[i] \in Frame
        /\ \A i \in 1 .. scope.level + 1, name \in Name :
               now[i][name] = Bound(Chain(scope, name), name, i - 1)
    BY <1>1, FramesType
  <1>4. /\ next \in Seq(Frame) /\ Len(next) = scope'.level + 1
        /\ \A i \in 1 .. scope'.level + 1 : next[i] \in Frame
        /\ \A i \in 1 .. scope'.level + 1, name \in Name :
               next[i][name] = Bound(Chain(scope', name), name, i - 1)
    BY <1>1, FramesType
  <1>5. /\ want \in Seq(Frame) /\ Len(want) = scope.level
        /\ \A i \in 1 .. scope.level : want[i] = now[i]
    <2>1. 1 \in Int /\ Len(now) - 1 \in Int /\ \A i \in 1 .. Len(now) - 1 : now[i] \in Frame
      BY <1>3
    <2>2. /\ want \in Seq(Frame)
          /\ Len(want) = IF 1 <= Len(now) - 1 THEN Len(now) - 1 - 1 + 1 ELSE 0
          /\ \A i \in 1 .. Len(now) - 1 - 1 + 1 : want[i] = now[1 + i - 1]
      BY <2>1, SubSeqProperties
    <2> HIDE DEF want, now
    <2>3. \A i \in 1 .. scope.level : want[i] = now[i]
      BY <1>3, <2>2
    <2> QED
      BY <1>2, <1>3, <2>2, <2>3
  <1>6. \A name \in Name : Chain(scope', name) = Remaining(Chain(scope, name), scope.level)
    BY <1>1, <1>2, ChainType DEF Chain
  <1> HIDE DEF now, next, want
  <1>7. ASSUME NEW i \in 1 .. scope.level PROVE next[i] = want[i]
    <2>1. /\ i \in 1 .. scope.level + 1 /\ i \in 1 .. scope'.level + 1
          /\ i - 1 \in Nat /\ i - 1 < scope.level
      BY <1>2, <1>3
    <2>2. ASSUME NEW name \in Name PROVE next[i][name] = now[i][name]
      <3>1. Chain(scope, name) \in Seq(Entry)
        BY <1>1, ChainType
      <3>2. Bound(Chain(scope', name), name, i - 1) = Bound(Chain(scope, name), name, i - 1)
        BY <1>3, <1>6, <2>1, <3>1, BoundRemaining
      <3> QED
        BY <1>3, <1>4, <2>1, <3>2
    <2>3. next[i] \in Frame /\ now[i] \in Frame /\ want[i] = now[i]
      BY <1>3, <1>4, <1>5, <2>1
    <2> QED
      BY <2>2, <2>3, FrameEqual
  <1>8. Len(next) = Len(want) /\ Len(next) = scope.level /\ Len(now) > 1
    BY <1>2, <1>3, <1>4, <1>5
  <1>9. next = want
    BY <1>4, <1>5, <1>7, <1>8, SeqEqual
  <1> QED
    BY <1>8, <1>9 DEF Stack!Leave, now, next, want

\* scope_add binds in the innermost frame.
LEMMA AddFrames ==
    ASSUME IInv, NEW name \in Name, NEW node \in Value, Add(name, node)
    PROVE  Stack!Bind(name, node)
  <1> DEFINE now  == FramesOf(scope)
             next == FramesOf(scope')
             want == [now EXCEPT ![Len(now)][name] = node]
             top  == [now[Len(now)] EXCEPT ![name] = node]
  <1>1. scope \in Table /\ scope' \in Table
    BY AddInv DEF IInv, TypeOK
  <1>2. /\ Newest(name, node) \in Entry
        /\ scope'.level = scope.level
        /\ \A b \in Bucket : b # BucketOf[name] => scope'.data[b] = scope.data[b]
        /\ Pushed(scope.data[BucketOf[name]], Newest(name, node),
                  scope'.data[BucketOf[name]])
    BY <1>1, AddChain DEF TypeOK
  <1>3. /\ scope.level \in Nat
        /\ now \in Seq(Frame) /\ Len(now) = scope.level + 1
        /\ \A i \in 1 .. scope.level + 1 : now[i] \in Frame
        /\ \A i \in 1 .. scope.level + 1, n \in Name :
               now[i][n] = Bound(Chain(scope, n), n, i - 1)
    BY <1>1, FramesType
  <1>4. /\ next \in Seq(Frame) /\ Len(next) = scope.level + 1
        /\ \A i \in 1 .. scope.level + 1 : next[i] \in Frame
        /\ \A i \in 1 .. scope.level + 1, n \in Name :
               next[i][n] = Bound(Chain(scope', n), n, i - 1)
    BY <1>1, <1>2, FramesType
  <1>5. scope.level + 1 \in 1 .. Len(now) /\ now[Len(now)] \in Frame
    BY <1>3
  <1>6. top \in Frame /\ \A n \in Name : top[n] = IF n = name THEN node ELSE now[Len(now)][n]
    BY <1>5 DEF Frame
  <1>7. want = [now EXCEPT ![Len(now)] = top]
    OBVIOUS
  <1> HIDE DEF top, want
  <1>8. /\ want \in Seq(Frame) /\ Len(want) = scope.level + 1
        /\ \A i \in 1 .. scope.level + 1 : want[i] = IF i = Len(now) THEN top ELSE now[i]
    BY <1>3, <1>5, <1>6, <1>7, ExceptSeq
  <1> HIDE DEF now, next
  <1>9. ASSUME NEW n \in Name, NEW level \in Nat
        PROVE  Bound(Chain(scope', n), n, level) =
                   IF n = name /\ level = scope.level THEN node
                   ELSE Bound(Chain(scope, n), n, level)
    <2>1. /\ Chain(scope, n) \in Seq(Entry) /\ Chain(scope', n) \in Seq(Entry)
          /\ BucketOf[n] \in Bucket
      BY <1>1, ChainType
    <2>2. Match(Newest(name, node), n, level) <=> n = name /\ level = scope.level
      BY DEF Match, Newest
    <2>3. CASE BucketOf[n] = BucketOf[name]
      <3>1. Pushed(Chain(scope, n), Newest(name, node), Chain(scope', n))
        BY <1>2, <2>3 DEF Chain
      <3>2. Bound(Chain(scope', n), n, level) =
                IF Match(Newest(name, node), n, level) THEN Newest(name, node).node
                ELSE Bound(Chain(scope, n), n, level)
        BY <1>2, <2>1, <3>1, BoundPushed
      <3>3. Newest(name, node).node = node
        BY DEF Newest
      <3> QED
        BY <2>2, <3>2, <3>3
    <2>4. CASE BucketOf[n] # BucketOf[name]
      BY <1>2, <2>1, <2>4 DEF Chain
    <2> QED
      BY <2>3, <2>4
  <1>10. ASSUME NEW i \in 1 .. scope.level + 1 PROVE next[i] = want[i]
    <2>1. i - 1 \in Nat /\ (i - 1 = scope.level <=> i = Len(now))
      BY <1>3
    <2>2. \A n \in Name : next[i][n] = IF n = name /\ i = Len(now) THEN node ELSE now[i][n]
      BY <1>3, <1>4, <1>9, <2>1
    <2>3. CASE i = Len(now)
      <3>1. \A n \in Name : next[i][n] = top[n]
        BY <1>6, <2>2, <2>3 DEF now
      <3> QED
        BY <1>4, <1>6, <1>8, <2>3, <3>1, FrameEqual
    <2>4. CASE i # Len(now)
      BY <1>3, <1>4, <1>8, <2>2, <2>4, FrameEqual
    <2> QED
      BY <2>3, <2>4
  <1>11. next = want
    BY <1>4, <1>8, <1>10, SeqEqual
  <1> QED
    BY <1>11 DEF Stack!Bind, now, next, want

\* Initial states are initial and every step is a step of the stack: the table
\* is a stack of frames, for all names, however they meet in the buckets.
THEOREM TableIsStack == Spec => ImplementsFrames
  <1>1. ASSUME IInv, [Next]_scope PROVE [Stack!Next]_(FramesOf(scope))
    <2>1. CASE In
      BY <1>1, <2>1, InFrames DEF Stack!Next
    <2>2. CASE Out
      BY <1>1, <2>2, OutFrames DEF Stack!Next
    <2>3. CASE \E name \in Name, node \in Value : Add(name, node)
      BY <1>1, <2>3, AddFrames DEF Stack!Next
    <2>4. CASE UNCHANGED scope
      BY <2>4
    <2> QED
      BY <1>1, <2>1, <2>2, <2>3, <2>4 DEF Next
  <1> QED
    BY <1>1, InitFrames, Invariant, PTL DEF Spec, Stack!Spec, ImplementsFrames
-----------------------------------------------------------------------------
(* Looking a name up. *)

FirstOf(chain, name) == SelectInSeq(chain, LAMBDA e : e.name = name)

\* The first entry of a name, whatever its level.
LEMMA NameFirst ==
    ASSUME NEW chain \in Seq(Entry), NEW name, NEW p, p = FirstOf(chain, name)
    PROVE  \/ p = 0 /\ \A i \in 1 .. Len(chain) : chain[i].name # name
           \/ /\ p \in 1 .. Len(chain) /\ chain[p].name = name
              /\ \A i \in 1 .. Len(chain) : i < p => chain[i].name # name
  <1> DEFINE I == {i \in 1 .. Len(chain) : chain[i].name = name}
  <1>1. p = IF I # {} THEN Min(I) ELSE 0
    BY DEF FirstOf, SelectInSeq
  <1>2. I \in SUBSET Nat
    OBVIOUS
  <1>3. CASE I = {}
    BY <1>1, <1>3
  <1>4. CASE I # {}
    <2>1. p \in I /\ \A k \in I : p <= k
      BY <1>1, <1>2, <1>4, MinIsLeast
    <2>2. p \in 1 .. Len(chain) /\ chain[p].name = name
      BY <2>1
    <2>3. ASSUME NEW i \in 1 .. Len(chain), i < p PROVE chain[i].name # name
      <3>1. i \in Nat /\ p \in Nat /\ ~(p <= i)
        BY <2>2, <2>3, LenProperties
      <3>2. i \notin I
        BY <2>1, <3>1
      <3> QED
        BY <3>2
    <2> QED
      BY <2>2, <2>3
  <1> QED
    BY <1>3, <1>4

\* In a sorted chain the first entry of a name is of the innermost level that
\* binds it, and the first of that level.
LEMMA FirstIsInnermost ==
    ASSUME NEW chain \in Seq(Entry), Sorted(chain), NEW name,
           NEW p \in 1 .. Len(chain), chain[p].name = name,
           \A i \in 1 .. Len(chain) : i < p => chain[i].name # name
    PROVE  /\ Bound(chain, name, chain[p].level) = chain[p].node
           /\ \A level \in Nat : chain[p].level < level => Bound(chain, name, level) = Unbound
  <1>1. Len(chain) \in Nat /\ \A i \in 1 .. Len(chain) : chain[i].level \in Nat
    BY EntryAt
  <1>2. \A i \in 1 .. Len(chain) : p < i => chain[p].level >= chain[i].level
    BY EntryAt DEF Sorted
  <1>3. Bound(chain, name, chain[p].level) = chain[p].node
    <2> DEFINE q == Position(chain, name, chain[p].level)
    <2> HIDE DEF q
    <2>1. \/ q = 0 /\ \A i \in 1 .. Len(chain) : ~Match(chain[i], name, chain[p].level)
          \/ /\ q \in 1 .. Len(chain) /\ Match(chain[q], name, chain[p].level)
             /\ \A i \in 1 .. Len(chain) : i < q => ~Match(chain[i], name, chain[p].level)
      BY PositionFirst DEF q
    <2>2. Match(chain[p], name, chain[p].level)
      BY DEF Match
    <2>3. /\ q \in 1 .. Len(chain) /\ chain[q].name = name
          /\ ~(p < q)
      BY <2>1, <2>2 DEF Match
    <2>4. ~(q < p)
      BY <2>3
    <2>5. q = p
      BY <1>1, <2>3, <2>4
    <2> QED
      BY <1>1, <2>5 DEF Bound, q
  <1>4. ASSUME NEW level \in Nat, chain[p].level < level
        PROVE  Bound(chain, name, level) = Unbound
    <2> DEFINE q == Position(chain, name, level)
    <2> HIDE DEF q
    <2>1. \/ q = 0 /\ \A i \in 1 .. Len(chain) : ~Match(chain[i], name, level)
          \/ /\ q \in 1 .. Len(chain) /\ Match(chain[q], name, level)
             /\ \A i \in 1 .. Len(chain) : i < q => ~Match(chain[i], name, level)
      BY PositionFirst DEF q
    <2>2. ASSUME NEW i \in 1 .. Len(chain), chain[i].name = name PROVE chain[i].level # level
      <3>1. i = p \/ p < i
        BY <1>1, <2>2
      <3> QED
        BY <1>1, <1>2, <1>4, <3>1
    <2>3. q = 0
      BY <2>1, <2>2 DEF Match
    <2> QED
      BY <2>3 DEF Bound, q
  <1> QED
    BY <1>3, <1>4

\* A chain without the name binds it in no level.
LEMMA NameAbsent ==
    ASSUME NEW chain \in Seq(Entry), NEW name, NEW level,
           \A i \in 1 .. Len(chain) : chain[i].name # name
    PROVE  Bound(chain, name, level) = Unbound
  <1> DEFINE q == Position(chain, name, level)
  <1> HIDE DEF q
  <1>1. \/ q = 0 /\ \A i \in 1 .. Len(chain) : ~Match(chain[i], name, level)
        \/ q \in 1 .. Len(chain) /\ Match(chain[q], name, level)
    BY PositionFirst DEF q
  <1>2. q = 0
    BY <1>1 DEF Match
  <1> QED
    BY <1>2 DEF Bound, q

\* The frame a name is looked up in, when it is known.
LEMMA FrameFound ==
    ASSUME NEW name, NEW top \in Nat, Len(FramesOf(scope)) = top,
           NEW i \in 1 .. top, FramesOf(scope)[i][name] # Unbound,
           \A j \in 1 .. top : i < j => FramesOf(scope)[j][name] = Unbound
    PROVE  Stack!Meaning(name) = FramesOf(scope)[i][name]
  <1> DEFINE binding == {j \in 1 .. top : FramesOf(scope)[j][name] # Unbound}
             k == CHOOSE m \in binding : \A j \in binding : j <= m
  <1>1. i \in binding /\ \A j \in binding : j <= i
    OBVIOUS
  <1>2. k \in binding /\ \A j \in binding : j <= k
    BY <1>1
  <1>3. \A j \in binding : j \in Nat /\ j # 0
    OBVIOUS
  <1>4. Stack!FrameOf(name) = k
    BY <1>1 DEF Stack!FrameOf
  <1> HIDE DEF binding, k
  <1>5. k = i
    BY <1>1, <1>2, <1>3
  <1> QED
    BY <1>4, <1>5 DEF Stack!Meaning

\* scope_lookup, which takes the first entry of the name in its bucket, finds
\* the innermost binding, with other names of any level in between.
LEMMA LookupStep == IInv => LookupRight
  <1> SUFFICES ASSUME IInv, NEW name \in Name
               PROVE  Stack!Meaning(name) =
                          IF ScopeLookup(scope, name) = NoEntry THEN Unbound
                          ELSE ScopeLookup(scope, name).node
    BY DEF LookupRight
  <1> DEFINE chain == Chain(scope, name)
             found == FirstOf(chain, name)
             top   == scope.level + 1
             now   == FramesOf(scope)
  <1>1. scope \in Table /\ BucketsSorted /\ NothingAbove
    BY DEF IInv, TypeOK
  <1>2. chain \in Seq(Entry)
    BY <1>1, ChainType
  <1>3. BucketOf[name] \in Bucket
    BY ScopeAssumption, ScopeTableAssumption
  <1>4. Sorted(chain) /\ UpTo(chain, scope.level)
    BY <1>1, <1>3 DEF BucketsSorted, NothingAbove, Chain
  <1>5. scope.level \in Nat /\ Len(now) = top
        /\ \A i \in 1 .. top : now[i][name] = Bound(chain, name, i - 1)
    BY <1>1, FramesType
  <1>6. ScopeLookup(scope, name) = IF found = 0 THEN NoEntry ELSE chain[found]
    BY DEF ScopeLookup, FirstOf, Chain
  <1>7. \/ found = 0 /\ \A i \in 1 .. Len(chain) : chain[i].name # name
        \/ /\ found \in 1 .. Len(chain) /\ chain[found].name = name
           /\ \A i \in 1 .. Len(chain) : i < found => chain[i].name # name
    BY <1>2, NameFirst
  <1> HIDE DEF chain, found, now
  <1>8. CASE found = 0
    <2>1. \A i \in 1 .. Len(chain) : chain[i].name # name
      BY <1>7, <1>8
    <2>2. \A i \in 1 .. top : now[i][name] = Unbound
      BY <1>2, <1>5, <2>1, NameAbsent
    <2>3. {i \in 1 .. Len(now) : now[i][name] # Unbound} = {}
      BY <1>5, <2>2
    <2>4. Stack!FrameOf(name) = 0
      BY <2>3 DEF Stack!FrameOf, now
    <2>5. Stack!Meaning(name) = Unbound
      BY <2>4 DEF Stack!Meaning
    <2> QED
      BY <1>6, <1>8, <2>5
  <1>9. CASE found # 0
    <2>1. /\ found \in 1 .. Len(chain) /\ chain[found].name = name
          /\ \A i \in 1 .. Len(chain) : i < found => chain[i].name # name
      BY <1>7, <1>9
    <2> DEFINE i == chain[found].level + 1
    <2>2. chain[found] \in Entry /\ chain[found].level \in Nat /\ chain[found].node \in Value
      BY <1>2, <2>1, EntryAt, ElementOfSeq DEF Entry
    <2>3. chain[found].level <= scope.level
      BY <1>2, <1>4, <2>1, EntryAt DEF UpTo
    <2>4. i \in 1 .. top /\ i - 1 = chain[found].level
      BY <1>5, <2>2, <2>3
    <2>5. /\ Bound(chain, name, chain[found].level) = chain[found].node
          /\ \A level \in Nat : chain[found].level < level => Bound(chain, name, level) = Unbound
      BY <1>2, <1>4, <2>1, FirstIsInnermost
    <2>6. now[i][name] = chain[found].node
      BY <1>5, <2>4, <2>5
    <2>7. \A j \in 1 .. top : i < j => now[j][name] = Unbound
      <3>1. ASSUME NEW j \in 1 .. top, i < j PROVE now[j][name] = Unbound
        <4>1. j - 1 \in Nat /\ chain[found].level < j - 1
          BY <1>5, <2>2, <3>1
        <4> QED
          BY <1>5, <2>5, <3>1, <4>1
      <3> QED
        BY <3>1
    <2>8. chain[found].node # Unbound
      BY <2>2, ScopeTableAssumption
    <2> HIDE DEF i
    <2>9. Stack!Meaning(name) = chain[found].node
      <3>1. top \in Nat /\ Len(now) = top
        BY <1>5
      <3>2. now[i][name] # Unbound
        BY <2>6, <2>8
      <3>3. Stack!Meaning(name) = now[i][name]
        BY <2>4, <2>7, <3>1, <3>2, FrameFound DEF now
      <3> QED
        BY <2>6, <3>3
    <2>10. chain[found] # NoEntry
      BY <2>1, ScopeTableAssumption DEF NoEntry
    <2> QED
      BY <1>6, <1>9, <2>9, <2>10
  <1> QED
    BY <1>8, <1>9

\* What scope_out and scope_lookup rely on, in one theorem.
THEOREM ChainsAreSound == Spec => []ChainsSound
  BY LevelsSorted, NothingOutlives, PTL DEF ChainsSound

\* scope_lookup finds what the innermost frame says, for every hash.
THEOREM Lookup == Spec => []LookupRight
  BY LookupStep, Invariant, PTL
-----------------------------------------------------------------------------
(* The collector. *)

\* The types of a scope's store.
Store(sc) == /\ {"nodes", "marked", "data"} \subseteq DOMAIN sc /\ sc.marked = {}
             /\ DOMAIN sc.nodes \subseteq Nat \ {NULL} /\ IsFiniteSet(DOMAIN sc.nodes)

Sound(sc) == Store(sc) /\ NoDangling(sc)

\* A set no pointer leaves; the least one around a set; no node without end.
Keeps(sc, T)   == \A n \in T : n \in DOMAIN sc.nodes => Successors(sc, n) \subseteq T
LeadsTo(sc, S) == {k \in Nat : \A T \in SUBSET Nat : S \subseteq T /\ Keeps(sc, T) => k \in T}
Grounded(sc)   == \A S \in SUBSET DOMAIN sc.nodes :
                      S # {} => \E n \in S : Successors(sc, n) \intersect S = {}

\* What a set leads to is the least set around it that no pointer leaves.
LEMMA LeadsIsLeast ==
    ASSUME NEW sc, Sound(sc), NEW S \in SUBSET Nat
    PROVE  /\ LeadsTo(sc, S) \in SUBSET Nat /\ S \subseteq LeadsTo(sc, S)
           /\ Keeps(sc, LeadsTo(sc, S))
           /\ \A T \in SUBSET Nat : S \subseteq T /\ Keeps(sc, T) => LeadsTo(sc, S) \subseteq T
  <1>1. ASSUME NEW n \in LeadsTo(sc, S), n \in DOMAIN sc.nodes, NEW k \in Successors(sc, n)
        PROVE  k \in LeadsTo(sc, S)
    <2>1. k \in Nat
      BY <1>1 DEF Sound, Store, NoDangling
    <2>2. ASSUME NEW T \in SUBSET Nat, S \subseteq T, Keeps(sc, T) PROVE k \in T
      <3>1. n \in T
        BY <2>2 DEF LeadsTo
      <3> QED
        BY <1>1, <2>2, <3>1 DEF Keeps
    <2> QED
      BY <2>1, <2>2 DEF LeadsTo
  <1>2. Keeps(sc, LeadsTo(sc, S))
    BY <1>1 DEF Keeps
  <1> QED
    BY <1>2 DEF LeadsTo

\* What allocated nodes lead to is allocated.
LEMMA LeadsInside ==
    ASSUME NEW sc, Sound(sc), NEW S \in SUBSET DOMAIN sc.nodes
    PROVE  /\ S \in SUBSET Nat /\ LeadsTo(sc, S) \in SUBSET DOMAIN sc.nodes
           /\ IsFiniteSet(LeadsTo(sc, S)) /\ Cardinality(LeadsTo(sc, S)) \in Nat
  <1>1. DOMAIN sc.nodes \in SUBSET Nat /\ Keeps(sc, DOMAIN sc.nodes)
    BY DEF Sound, Store, NoDangling, Keeps
  <1>2. LeadsTo(sc, S) \in SUBSET DOMAIN sc.nodes
    BY <1>1, LeadsIsLeast
  <1> QED
    BY <1>1, <1>2, FS_Subset, FS_CardinalityType DEF Sound, Store

\* A proper part has fewer members.
LEMMA PartIsSmaller ==
    ASSUME NEW S, IsFiniteSet(S), NEW T \in SUBSET S, NEW x \in S, x \notin T
    PROVE  Cardinality(T) \in Nat /\ Cardinality(S) \in Nat /\ Cardinality(T) < Cardinality(S)
  <1>1. IsFiniteSet(T) /\ Cardinality(T) <= Cardinality(S) /\ Cardinality(T) # Cardinality(S)
    BY FS_Subset
  <1>2. Cardinality(T) \in Nat /\ Cardinality(S) \in Nat
    BY <1>1, FS_CardinalityType
  <1> QED
    BY <1>1, <1>2

\* One step further, and the step after which nothing is new.
More(sc, S) == S \union UNION {Successors(sc, n) : n \in S \intersect DOMAIN sc.nodes}
Closing(sc, f) == [S \in SUBSET Nat |-> IF More(sc, S) = S THEN S ELSE f[More(sc, S)]]

\* Closure with its recursive function spelled out.
LEMMA ClosureOf ==
    ASSUME NEW sc, NEW S
    PROVE  Closure(sc, S) = (CHOOSE f : f = Closing(sc, f))[S]
  BY DEF Closure, Closing, More

\* One step further leads to the same.
LEMMA MoreLeads ==
    ASSUME NEW sc, Sound(sc), NEW S \in SUBSET Nat
    PROVE  /\ More(sc, S) \in SUBSET Nat /\ S \subseteq More(sc, S)
           /\ LeadsTo(sc, More(sc, S)) = LeadsTo(sc, S)
           /\ More(sc, S) = S => LeadsTo(sc, S) = S
           /\ More(sc, S) \ S \subseteq DOMAIN sc.nodes
  <1>1. \A n \in DOMAIN sc.nodes : Successors(sc, n) \subseteq DOMAIN sc.nodes
    BY DEF Sound, NoDangling
  <1>2. DOMAIN sc.nodes \subseteq Nat
    BY DEF Sound, Store
  <1>3. More(sc, S) \in SUBSET Nat /\ S \subseteq More(sc, S) /\ More(sc, S) \ S \subseteq DOMAIN sc.nodes
    BY <1>1, <1>2 DEF More
  <1>4. More(sc, S) \subseteq LeadsTo(sc, S)
    <2>1. S \subseteq LeadsTo(sc, S) /\ Keeps(sc, LeadsTo(sc, S))
      BY LeadsIsLeast
    <2> QED
      BY <2>1 DEF More, Keeps
  <1>5. LeadsTo(sc, More(sc, S)) \subseteq LeadsTo(sc, S)
    BY <1>3, <1>4, LeadsIsLeast
  <1>6. LeadsTo(sc, S) \subseteq LeadsTo(sc, More(sc, S))
    <2>1. /\ LeadsTo(sc, More(sc, S)) \in SUBSET Nat /\ S \subseteq LeadsTo(sc, More(sc, S))
          /\ Keeps(sc, LeadsTo(sc, More(sc, S)))
      BY <1>3, LeadsIsLeast
    <2> QED
      BY <2>1, LeadsIsLeast
  <1>7. ASSUME More(sc, S) = S PROVE LeadsTo(sc, S) = S
    <2>1. Keeps(sc, S)
      BY <1>7 DEF More, Keeps
    <2> QED
      BY <2>1, LeadsIsLeast
  <1> QED
    BY <1>3, <1>5, <1>6, <1>7

\* Closure finds what a set leads to: so does LeadsTo, which satisfies its recursion, and
\* each step leaves fewer nodes to be found.
LEMMA ClosureIs ==
    ASSUME NEW sc, Sound(sc), NEW S \in SUBSET Nat
    PROVE  Closure(sc, S) = LeadsTo(sc, S)
  <1>1. PICK g : g = [T \in SUBSET Nat |-> LeadsTo(sc, T)]
    OBVIOUS
  <1>2. g = Closing(sc, g)
    <2>1. \A T \in SUBSET Nat : g[T] = IF More(sc, T) = T THEN T ELSE g[More(sc, T)]
      BY <1>1, MoreLeads
    <2> QED
      BY <1>1, <2>1 DEF Closing
  <1>3. PICK f : f = (CHOOSE h : h = Closing(sc, h))
    OBVIOUS
  <1>4. f = Closing(sc, f)
    BY <1>2, <1>3
  <1>5. \A T \in SUBSET Nat : f[T] = IF More(sc, T) = T THEN T ELSE f[More(sc, T)]
    BY <1>4 DEF Closing
  <1> DEFINE all == DOMAIN sc.nodes
             wrong == {T \in SUBSET Nat : f[T] # LeadsTo(sc, T)}
             sizes == {Cardinality(all \ T) : T \in wrong}
  <1>6. \A T : /\ all \ T \in SUBSET all /\ IsFiniteSet(all \ T)
               /\ Cardinality(all \ T) \in Nat
    BY FS_Subset, FS_CardinalityType DEF Sound, Store
  <1>7. wrong = {}
    <2> SUFFICES ASSUME wrong # {} PROVE FALSE
      OBVIOUS
    <2>1. sizes \in SUBSET Nat /\ sizes # {}
      BY <1>6
    <2>2. PICK k \in sizes : \A l \in sizes : k <= l
      BY <2>1, Least
    <2>3. PICK T \in wrong : k = Cardinality(all \ T)
      BY <2>2
    <2>4. T \in SUBSET Nat /\ f[T] # LeadsTo(sc, T)
      BY <2>3
    <2>5. More(sc, T) # T /\ f[T] = f[More(sc, T)]
      BY <1>5, <2>4, MoreLeads
    <2>6. More(sc, T) \in wrong
      BY <2>4, <2>5, MoreLeads
    <2>7. PICK x : x \in More(sc, T) /\ x \notin T /\ x \in all
      BY <2>4, <2>5, MoreLeads
    <2>8. all \ More(sc, T) \in SUBSET (all \ T) /\ x \in all \ T /\ x \notin all \ More(sc, T)
      BY <2>4, <2>7, MoreLeads
    <2>9. PICK l : l = Cardinality(all \ More(sc, T)) /\ l \in sizes
      BY <2>6
    <2>10. k \in Nat /\ l \in Nat /\ l < k
      BY <1>6, <2>3, <2>8, <2>9, PartIsSmaller
    <2> HIDE DEF sizes
    <2> QED
      BY <2>2, <2>9, <2>10
  <1> QED
    BY <1>3, <1>7, ClosureOf

\* Without cycles every set of nodes has one that leads to none of them: the one that
\* leads to fewest nodes.
LEMMA NoCycleGrounded ==
    ASSUME NEW sc, Sound(sc), NoCycle(sc)
    PROVE  Grounded(sc)
  <1> SUFFICES ASSUME NEW S \in SUBSET DOMAIN sc.nodes, S # {}
               PROVE  \E n \in S : Successors(sc, n) \intersect S = {}
    BY DEF Grounded
  <1> DEFINE After(n) == LeadsTo(sc, Successors(sc, n))
             sizes    == {Cardinality(After(n)) : n \in S}
  <1>1. \A n \in S : Successors(sc, n) \in SUBSET DOMAIN sc.nodes
    BY DEF Sound, NoDangling
  <1>2. \A n \in S : IsFiniteSet(After(n)) /\ Cardinality(After(n)) \in Nat
    BY <1>1, LeadsInside
  <1>3. sizes \in SUBSET Nat /\ sizes # {}
    BY <1>2
  <1>4. PICK k \in sizes : \A l \in sizes : k <= l
    BY <1>3, Least
  <1>5. PICK n \in S : k = Cardinality(After(n))
    BY <1>4
  <1>6. ASSUME NEW m \in S, m \in Successors(sc, n) PROVE FALSE
    <2>1. /\ m \in After(n) /\ Keeps(sc, After(n)) /\ After(n) \in SUBSET Nat
      BY <1>1, <1>6, LeadsInside, LeadsIsLeast
    <2>2. Successors(sc, m) \subseteq After(n)
      BY <2>1 DEF Keeps
    <2>3. After(m) \in SUBSET After(n)
      BY <1>1, <2>1, <2>2, LeadsInside, LeadsIsLeast
    <2>4. m \notin After(m)
      BY <1>1, LeadsInside, ClosureIs DEF NoCycle
    <2>5. PICK l : l = Cardinality(After(m)) /\ l \in sizes
      OBVIOUS
    <2>6. k \in Nat /\ l \in Nat /\ l < k
      BY <1>2, <1>5, <2>1, <2>3, <2>4, <2>5, PartIsSmaller
    <2> HIDE DEF sizes
    <2> QED
      BY <1>4, <2>5, <2>6
  <1> QED
    BY <1>6

\* A node leads to itself and to what its pointers lead to.
Below(sc, n)   == IF n = NULL THEN {} ELSE LeadsTo(sc, {n})
Marking(sc, f) == [n \in DOMAIN sc.nodes \union {NULL} |->
                      IF n = NULL THEN {}
                      ELSE {n} \union (IF sc.nodes[n].type \in Linked
                                       THEN f[sc.nodes[n].p1] \union f[sc.nodes[n].p2] ELSE {})]

\* The recursive function of MarkNode spelled out.
LEMMA MarkNodeOf ==
    ASSUME NEW sc, NEW n
    PROVE  MarkNode(sc.nodes, n) = (CHOOSE f : f = Marking(sc, f))[n]
  BY DEF MarkNode, Marking

\* The pointers of a node, where it has them.
LEMMA PointersOf ==
    ASSUME NEW sc, Sound(sc), NEW n \in DOMAIN sc.nodes
    PROVE  /\ n # NULL /\ n \in Nat
           /\ sc.nodes[n].type \in Linked
                => /\ sc.nodes[n].p1 \in DOMAIN sc.nodes \union {NULL}
                   /\ sc.nodes[n].p2 \in DOMAIN sc.nodes \union {NULL}
                   /\ Successors(sc, n) = {sc.nodes[n].p1, sc.nodes[n].p2} \ {NULL}
           /\ sc.nodes[n].type \notin Linked => Successors(sc, n) = {}
  <1>1. n # NULL /\ n \in Nat /\ Successors(sc, n) \subseteq DOMAIN sc.nodes
    BY DEF Sound, Store, NoDangling
  <1>2. Successors(sc, n) = IF sc.nodes[n].type \in Linked
                            THEN {sc.nodes[n].p1, sc.nodes[n].p2} \ {NULL} ELSE {}
    BY <1>1 DEF Successors, HasLinks
  <1> QED
    BY <1>1, <1>2

\* So Below satisfies the recursion of scope_gc_mark_node.
LEMMA BelowUnfolds ==
    ASSUME NEW sc, Sound(sc), NEW n \in DOMAIN sc.nodes
    PROVE  Below(sc, n) = {n} \union (IF sc.nodes[n].type \in Linked
                                      THEN Below(sc, sc.nodes[n].p1) \union Below(sc, sc.nodes[n].p2)
                                      ELSE {})
  <1> DEFINE S == UNION {LeadsTo(sc, {k}) : k \in Successors(sc, n)}
  <1>1. n # NULL /\ n \in Nat /\ Successors(sc, n) \subseteq Nat
    BY PointersOf DEF Sound, Store, NoDangling
  <1>2. \A k \in Nat : LeadsTo(sc, {k}) \in SUBSET Nat /\ k \in LeadsTo(sc, {k}) /\ Keeps(sc, LeadsTo(sc, {k}))
    BY LeadsIsLeast
  <1>3. Keeps(sc, {n} \union S) /\ {n} \union S \in SUBSET Nat
    <2>1. \A k \in S : k \in DOMAIN sc.nodes => Successors(sc, k) \subseteq S
      BY <1>1, <1>2 DEF Keeps
    <2>2. Successors(sc, n) \subseteq S
      BY <1>1, <1>2
    <2> QED
      BY <1>1, <1>2, <2>1, <2>2 DEF Keeps
  <1>4. LeadsTo(sc, {n}) \subseteq {n} \union S
    <2>1. PICK T : T = {n} \union S
      OBVIOUS
    <2>2. T \in SUBSET Nat /\ {n} \subseteq T /\ Keeps(sc, T) /\ {n} \in SUBSET Nat
      BY <1>1, <1>3, <2>1
    <2> HIDE DEF S
    <2>3. LeadsTo(sc, {n}) \subseteq T
      BY <2>2, LeadsIsLeast
    <2> QED
      BY <2>1, <2>3
  <1>5. ASSUME NEW k \in Successors(sc, n) PROVE LeadsTo(sc, {k}) \subseteq LeadsTo(sc, {n})
    <2>1. k \in LeadsTo(sc, {n})
      BY <1>1, <1>2, <1>5 DEF Keeps
    <2> QED
      BY <1>1, <1>2, <1>5, <2>1, LeadsIsLeast
  <1>6. LeadsTo(sc, {n}) = {n} \union S
    BY <1>1, <1>2, <1>4, <1>5
  <1>7. CASE sc.nodes[n].type \in Linked
    <2>1. PICK p, q : p = sc.nodes[n].p1 /\ q = sc.nodes[n].p2 /\ Successors(sc, n) = {p, q} \ {NULL}
      BY <1>7, PointersOf
    <2>2. S = Below(sc, p) \union Below(sc, q)
      BY <2>1 DEF Below
    <2> QED
      BY <1>1, <1>6, <1>7, <2>1, <2>2 DEF Below
  <1>8. CASE sc.nodes[n].type \notin Linked
    <2>1. S = {}
      BY <1>8, PointersOf
    <2> QED
      BY <1>1, <1>6, <1>8, <2>1 DEF Below
  <1> QED
    BY <1>7, <1>8

\* scope_gc_mark_node marks what the node leads to.  What it does on a cycle the recursion
\* does not say; without cycles it says one thing only.
LEMMA MarkNodeIs ==
    ASSUME NEW sc, Sound(sc), Grounded(sc), NEW node \in DOMAIN sc.nodes \union {NULL}
    PROVE  MarkNode(sc.nodes, node) = Below(sc, node)
  <1> DEFINE all == DOMAIN sc.nodes \union {NULL}
  <1>1. PICK g : g = [n \in all |-> Below(sc, n)]
    OBVIOUS
  <1>2. \A n \in DOMAIN sc.nodes : n # NULL /\
            (sc.nodes[n].type \in Linked => sc.nodes[n].p1 \in all /\ sc.nodes[n].p2 \in all)
    BY PointersOf
  <1>3. g = Marking(sc, g)
    <2>1. g[NULL] = {}
      BY <1>1 DEF Below
    <2>2. \A n \in DOMAIN sc.nodes :
              g[n] = {n} \union (IF sc.nodes[n].type \in Linked
                                 THEN g[sc.nodes[n].p1] \union g[sc.nodes[n].p2] ELSE {})
      BY <1>1, <1>2, BelowUnfolds
    <2> QED
      BY <1>1, <1>2, <2>1, <2>2 DEF Marking
  <1>4. PICK f : f = (CHOOSE h : h = Marking(sc, h))
    OBVIOUS
  <1>5. f = Marking(sc, f)
    BY <1>3, <1>4
  <1>6. \A n \in all : f[n] = IF n = NULL THEN {}
                              ELSE {n} \union (IF sc.nodes[n].type \in Linked
                                               THEN f[sc.nodes[n].p1] \union f[sc.nodes[n].p2] ELSE {})
    BY <1>5 DEF Marking
  <1> DEFINE wrong == {n \in DOMAIN sc.nodes : f[n] # Below(sc, n)}
  <1>7. f[NULL] = Below(sc, NULL)
    BY <1>6 DEF Below
  <1>8. wrong = {}
    <2> SUFFICES ASSUME wrong # {} PROVE FALSE
      OBVIOUS
    <2>1. PICK n \in wrong : Successors(sc, n) \intersect wrong = {}
      BY DEF Grounded
    <2>2. n \in DOMAIN sc.nodes /\ f[n] # Below(sc, n) /\ n # NULL
      BY <1>2, <2>1
    <2>3. ASSUME sc.nodes[n].type \in Linked
          PROVE  /\ f[sc.nodes[n].p1] = Below(sc, sc.nodes[n].p1)
                 /\ f[sc.nodes[n].p2] = Below(sc, sc.nodes[n].p2)
      <3>1. /\ Successors(sc, n) = {sc.nodes[n].p1, sc.nodes[n].p2} \ {NULL}
            /\ sc.nodes[n].p1 \in all /\ sc.nodes[n].p2 \in all
        BY <2>2, <2>3, PointersOf
      <3> QED
        BY <1>7, <2>1, <3>1
    <2>4. f[n] = Below(sc, n)
      BY <1>6, <2>2, <2>3, BelowUnfolds
    <2> QED
      BY <2>2, <2>4
  <1> QED
    BY <1>4, <1>7, <1>8, MarkNodeOf

\* What the roots lead to is what the nodes of the entries lead to, one by one.
LEMMA RootsBelow ==
    ASSUME NEW sc, Sound(sc)
    PROVE  /\ Roots(sc) \in SUBSET DOMAIN sc.nodes /\ Roots(sc) \in SUBSET Nat
           /\ LeadsTo(sc, Roots(sc)) = UNION {Below(sc, e.node) : e \in Entries(sc)}
  <1> DEFINE S == UNION {Below(sc, e.node) : e \in Entries(sc)}
  <1>1. Roots(sc) \in SUBSET DOMAIN sc.nodes /\ Roots(sc) \in SUBSET Nat
    BY DEF Sound, Store, NoDangling
  <1>2. S = UNION {LeadsTo(sc, {k}) : k \in Roots(sc)}
    BY DEF Roots, Below
  <1>3. \A k \in Roots(sc) :
            LeadsTo(sc, {k}) \in SUBSET Nat /\ k \in LeadsTo(sc, {k}) /\ Keeps(sc, LeadsTo(sc, {k}))
    BY <1>1, LeadsIsLeast
  <1>4. S \in SUBSET Nat /\ Roots(sc) \subseteq S /\ Keeps(sc, S)
    BY <1>2, <1>3 DEF Keeps
  <1>5. LeadsTo(sc, Roots(sc)) \subseteq S
    BY <1>1, <1>4, LeadsIsLeast
  <1>6. ASSUME NEW k \in Roots(sc) PROVE LeadsTo(sc, {k}) \subseteq LeadsTo(sc, Roots(sc))
    <2>1. k \in LeadsTo(sc, Roots(sc)) /\ k \in Nat
      BY <1>1, <1>6, LeadsIsLeast
    <2> QED
      BY <1>1, <2>1, LeadsIsLeast
  <1> QED
    BY <1>1, <1>2, <1>5, <1>6

\* scope_gc keeps what the roots lead to, as it was.
LEMMA ScopeGcIs ==
    ASSUME NEW sc, Sound(sc), NoCycle(sc)
    PROVE  /\ DOMAIN ScopeGc(sc).nodes = LeadsTo(sc, Roots(sc))
           /\ DOMAIN ScopeGc(sc).nodes \subseteq DOMAIN sc.nodes
           /\ \A n \in DOMAIN ScopeGc(sc).nodes : ScopeGc(sc).nodes[n] = sc.nodes[n]
           /\ ScopeGc(sc).marked = {} /\ ScopeGc(sc).data = sc.data
           /\ DOMAIN ScopeGc(sc) = DOMAIN sc
  <1>1. PICK M : M = Marked(sc)
    OBVIOUS
  <1>2. M = LeadsTo(sc, Roots(sc))
    <2>1. \A e \in Entries(sc) : e.node \in DOMAIN sc.nodes \union {NULL}
      BY DEF Sound, NoDangling, Roots
    <2>2. \A e \in Entries(sc) : MarkNode(sc.nodes, e.node) = Below(sc, e.node)
      BY <2>1, NoCycleGrounded, MarkNodeIs
    <2>3. M = UNION {Below(sc, e.node) : e \in Entries(sc)}
      BY <1>1, <2>2 DEF Marked, Sound, Store
    <2> QED
      BY <2>3, RootsBelow
  <1>3. M \subseteq DOMAIN sc.nodes
    BY <1>2, RootsBelow, LeadsInside
  <1>4. ScopeGc(sc) = [sc EXCEPT !.nodes = [n \in DOMAIN sc.nodes \intersect M |-> sc.nodes[n]],
                                 !.marked = {}]
    BY <1>1 DEF ScopeGc
  <1>5. {"nodes", "marked", "data"} \subseteq DOMAIN sc
    BY DEF Sound, Store
  <1>6. ScopeGc(sc).nodes = [n \in DOMAIN sc.nodes \intersect M |-> sc.nodes[n]]
    BY <1>4, <1>5
  <1>7. ScopeGc(sc).marked = {} /\ ScopeGc(sc).data = sc.data /\ DOMAIN ScopeGc(sc) = DOMAIN sc
    BY <1>4, <1>5
  <1> QED
    BY <1>2, <1>3, <1>6, <1>7

\* Where two stores agree on a set that no pointer leaves, they lead to the same.
LEMMA SamePointers ==
    ASSUME NEW sc, NEW after, NULL \notin DOMAIN sc.nodes, NULL \notin DOMAIN after.nodes,
           NEW n \in DOMAIN sc.nodes, n \in DOMAIN after.nodes, after.nodes[n] = sc.nodes[n]
    PROVE  Successors(after, n) = Successors(sc, n)
  BY DEF Successors, HasLinks

\* scope_gc, with a mark phase that looks at no mark and so follows shared nodes
\* again and again, leaves exactly the nodes the entries lead to (what CollectorExact
\* says of the shell's scope), all of them as they were; what it leaves has neither
\* wild pointers nor cycles if what it was given had none.
THEOREM CollectorCorrect ==
    ASSUME NEW sc, Store(sc), StoreSound(sc),
           NEW after, after = ScopeGc(sc)
    PROVE  /\ DOMAIN after.nodes = Reachable(after) /\ DOMAIN after.nodes = Reachable(sc)
           /\ \A n \in DOMAIN after.nodes : after.nodes[n] = sc.nodes[n]
           /\ Entries(after) = Entries(sc)
           /\ Store(after) /\ StoreSound(after)
  <1>1. Sound(sc) /\ NoCycle(sc)
    BY DEF Sound, StoreSound
  <1>2. PICK left : left = DOMAIN after.nodes
    OBVIOUS
  <1>3. /\ left = LeadsTo(sc, Roots(sc)) /\ left \subseteq DOMAIN sc.nodes
        /\ \A n \in left : after.nodes[n] = sc.nodes[n]
        /\ after.marked = {} /\ after.data = sc.data /\ DOMAIN after = DOMAIN sc
    BY <1>1, <1>2, ScopeGcIs
  <1>4. Entries(after) = Entries(sc) /\ Roots(after) = Roots(sc)
    BY <1>3 DEF Entries, Roots
  <1>5. Roots(sc) \in SUBSET Nat
    BY <1>1, RootsBelow
  <1>6. left \in SUBSET Nat /\ Roots(sc) \subseteq left /\ Keeps(sc, left)
    BY <1>1, <1>3, <1>5, LeadsIsLeast
  <1>7. \A n \in left : Successors(after, n) = Successors(sc, n) /\ Successors(sc, n) \subseteq left
    <2>1. NULL \notin DOMAIN sc.nodes
      BY DEF Store
    <2> QED
      BY <1>2, <1>3, <1>6, <2>1, SamePointers DEF Keeps
  <1>8. Store(after) /\ NoDangling(after)
    <2>1. IsFiniteSet(left)
      BY <1>3, FS_Subset DEF Store
    <2>2. Store(after)
      BY <1>2, <1>3, <2>1 DEF Store
    <2>3. NoDangling(after)
      BY <1>2, <1>4, <1>6, <1>7 DEF NoDangling
    <2> QED
      BY <2>2, <2>3
  <1>9. Sound(after)
    BY <1>8 DEF Sound
  <1>10. NoCycle(after)
    <2> SUFFICES ASSUME NEW n \in left PROVE n \notin Closure(after, Successors(after, n))
      BY <1>2 DEF NoCycle
    <2>1. PICK S : S = Successors(sc, n) /\ S \in SUBSET Nat /\ S = Successors(after, n)
      BY <1>6, <1>7
    <2>2. LeadsTo(sc, S) \in SUBSET Nat /\ S \subseteq LeadsTo(sc, S) /\ Keeps(sc, LeadsTo(sc, S))
      BY <1>1, <2>1, LeadsIsLeast
    <2>3. Keeps(after, LeadsTo(sc, S))
      BY <1>2, <1>3, <1>7, <2>2 DEF Keeps
    <2>4. LeadsTo(after, S) \subseteq LeadsTo(sc, S)
      BY <1>9, <2>1, <2>2, <2>3, LeadsIsLeast
    <2>5. n \notin LeadsTo(sc, S)
      BY <1>1, <1>3, <2>1, ClosureIs DEF NoCycle
    <2> QED
      BY <1>9, <2>1, <2>4, <2>5, ClosureIs
  <1>11. left = Reachable(sc)
    BY <1>1, <1>3, <1>5, ClosureIs DEF Reachable
  <1>12. left = Reachable(after)
    <2>1. LeadsTo(after, Roots(sc)) \subseteq left
      <3>1. Keeps(after, left)
        BY <1>7 DEF Keeps
      <3> QED
        BY <1>5, <1>6, <1>9, <3>1, LeadsIsLeast
    <2>2. PICK T : T = LeadsTo(after, Roots(sc))
      OBVIOUS
    <2>3. T \in SUBSET Nat /\ Roots(sc) \subseteq T /\ Keeps(after, T) /\ T \subseteq left
      BY <1>5, <1>9, <2>1, <2>2, LeadsIsLeast
    <2>4. Keeps(sc, T)
      BY <1>2, <1>7, <2>3 DEF Keeps
    <2>5. left \subseteq T
      BY <1>1, <1>3, <1>5, <2>3, <2>4, LeadsIsLeast
    <2> QED
      BY <1>4, <1>5, <1>9, <2>2, <2>3, <2>5, ClosureIs DEF Reachable
  <1> QED
    BY <1>2, <1>3, <1>4, <1>8, <1>10, <1>11, <1>12 DEF StoreSound

\* scope_kmalloc gives a node nobody has and changes no other; a node whose pointers
\* are to nodes that exist closes no cycle.
THEOREM AllocCorrect ==
    ASSUME NEW sc, Store(sc), StoreSound(sc),
           NEW node, {node.p1, node.p2} \subseteq DOMAIN sc.nodes \union {NULL},
           NEW after, after = Alloc(sc, node).sc, NEW v, v = Alloc(sc, node).v
    PROVE  /\ v \notin DOMAIN sc.nodes /\ v # NULL
           /\ DOMAIN after.nodes = DOMAIN sc.nodes \union {v} /\ after.nodes[v] = node
           /\ \A n \in DOMAIN sc.nodes : after.nodes[n] = sc.nodes[n]
           /\ Entries(after) = Entries(sc)
           /\ Store(after) /\ StoreSound(after)
  <1> DEFINE used == DOMAIN sc.nodes
  <1>1. Sound(sc) /\ NoCycle(sc)
    BY DEF Sound, StoreSound
  <1>2. IsFiniteSet(used) /\ Cardinality(used) \in Nat /\ used \subseteq Nat \ {NULL}
    BY FS_CardinalityType DEF Store
  <1>3. \E n \in 1 .. Cardinality(used) + 1 : n \notin used
    <2> SUFFICES ASSUME 1 .. Cardinality(used) + 1 \in SUBSET used PROVE FALSE
      OBVIOUS
    <2>1. PICK c : c = Cardinality(used) /\ c \in Nat
      BY <1>2
    <2>2. Cardinality(1 .. c + 1) = c + 1
      BY <2>1, FS_Interval
    <2>3. Cardinality(1 .. c + 1) <= c
      BY <1>2, <2>1, FS_Subset
    <2> QED
      BY <2>1, <2>2, <2>3
  <1>4. v = CHOOSE n \in 1 .. Cardinality(used) + 1 : n \notin used
    BY DEF Alloc, Result
  <1>5. v \in Nat \ {NULL} /\ v \notin used
    <2>1. v \in 1 .. Cardinality(used) + 1 /\ v \notin used
      BY <1>3, <1>4
    <2> QED
      BY <1>2, <2>1 DEF NULL
  <1>6. after = [sc EXCEPT !.nodes = [n \in used \union {v} |->
                                              IF n \in used THEN sc.nodes[n] ELSE node]]
    BY DEF Alloc, Result
  <1>7. {"nodes", "marked", "data"} \subseteq DOMAIN sc
    BY DEF Store
  <1>8. after.nodes = [n \in used \union {v} |-> IF n \in used THEN sc.nodes[n] ELSE node]
    BY <1>6, <1>7
  <1>9. after.marked = sc.marked /\ after.data = sc.data /\ DOMAIN after = DOMAIN sc
    BY <1>6, <1>7
  <1>10. /\ DOMAIN after.nodes = used \union {v} /\ after.nodes[v] = node
         /\ \A n \in used : after.nodes[n] = sc.nodes[n]
    BY <1>5, <1>8
  <1>11. Entries(after) = Entries(sc) /\ Roots(after) = Roots(sc)
    BY <1>9 DEF Entries, Roots
  <1>12. /\ Successors(after, v) \subseteq used
         /\ \A n \in used : Successors(after, n) = Successors(sc, n) /\ Successors(sc, n) \subseteq used
    <2>1. NULL \notin used /\ NULL \notin DOMAIN after.nodes
      BY <1>2, <1>5, <1>10
    <2>2. Successors(after, v) \subseteq used
      BY <1>10 DEF Successors, HasLinks
    <2>3. \A n \in used : Successors(after, n) = Successors(sc, n)
      BY <1>10, <2>1, SamePointers
    <2> QED
      BY <1>1, <2>2, <2>3 DEF Sound, NoDangling
  <1>13. Store(after) /\ NoDangling(after)
    <2>1. IsFiniteSet(used \union {v})
      BY <1>2, FS_AddElement
    <2>2. Store(after)
      BY <1>2, <1>5, <1>9, <1>10, <2>1 DEF Store
    <2>3. Roots(after) \subseteq used
      BY <1>1, <1>11 DEF Sound, NoDangling
    <2>4. NoDangling(after)
      BY <1>10, <1>12, <2>3 DEF NoDangling
    <2> QED
      BY <2>2, <2>4
  <1>14. Sound(after)
    BY <1>13 DEF Sound
  <1>15. ASSUME NEW S \in SUBSET used
         PROVE  S \in SUBSET Nat /\ LeadsTo(after, S) \subseteq LeadsTo(sc, S) /\ LeadsTo(sc, S) \subseteq used
    <2>1. S \in SUBSET Nat /\ LeadsTo(sc, S) \in SUBSET used
      BY <1>1, LeadsInside
    <2>2. S \subseteq LeadsTo(sc, S) /\ Keeps(sc, LeadsTo(sc, S)) /\ LeadsTo(sc, S) \in SUBSET Nat
      BY <1>1, <2>1, LeadsIsLeast
    <2>3. Keeps(after, LeadsTo(sc, S))
      BY <1>12, <2>1, <2>2 DEF Keeps
    <2> QED
      BY <1>14, <2>1, <2>2, <2>3, LeadsIsLeast
  <1>16. NoCycle(after)
    <2>1. ASSUME NEW n \in used PROVE n \notin Closure(after, Successors(after, n))
      <3>1. n \notin LeadsTo(sc, Successors(sc, n))
        BY <1>1, <1>12, <1>15, ClosureIs DEF NoCycle
      <3> QED
        BY <1>12, <1>14, <1>15, <3>1, ClosureIs
    <2>2. v \notin Closure(after, Successors(after, v))
      BY <1>5, <1>12, <1>14, <1>15, ClosureIs
    <2> QED
      BY <1>10, <2>1, <2>2 DEF NoCycle
  <1> QED
    BY <1>5, <1>10, <1>11, <1>13, <1>16 DEF StoreSound

\* A node that is filled in later, as method_list, map, quote and range do with a list
\* they are building, makes no cycle if what it is filled with does not lead to it.
THEOREM PutCorrect ==
    ASSUME NEW sc, Store(sc), StoreSound(sc), NEW v \in DOMAIN sc.nodes,
           NEW node, {node.p1, node.p2} \subseteq DOMAIN sc.nodes \union {NULL},
           v \notin Closure(sc, {node.p1, node.p2} \ {NULL}),
           NEW after, after = Put(Result(sc, v), node).sc
    PROVE  /\ DOMAIN after.nodes = DOMAIN sc.nodes /\ after.nodes[v] = node
           /\ \A n \in DOMAIN sc.nodes : n # v => after.nodes[n] = sc.nodes[n]
           /\ Entries(after) = Entries(sc)
           /\ Store(after) /\ StoreSound(after)
  <1> DEFINE used == DOMAIN sc.nodes
  <1>1. Sound(sc) /\ NoCycle(sc)
    BY DEF Sound, StoreSound
  <1>2. PICK P : P = {node.p1, node.p2} \ {NULL} /\ P \in SUBSET used
    OBVIOUS
  <1>3. used \subseteq Nat \ {NULL} /\ {"nodes", "marked", "data"} \subseteq DOMAIN sc
    BY DEF Store
  <1>4. after = [sc EXCEPT !.nodes = [sc.nodes EXCEPT ![v] = node]]
    BY DEF Put, Result
  <1>5. /\ after.nodes = [sc.nodes EXCEPT ![v] = node]
        /\ after.marked = sc.marked /\ after.data = sc.data /\ DOMAIN after = DOMAIN sc
    BY <1>3, <1>4
  <1>6. /\ DOMAIN after.nodes = used /\ after.nodes[v] = node
        /\ \A n \in used : n # v => after.nodes[n] = sc.nodes[n]
    BY <1>5
  <1>7. Entries(after) = Entries(sc) /\ Roots(after) = Roots(sc)
    BY <1>5 DEF Entries, Roots
  <1>8. /\ Successors(after, v) \subseteq P
        /\ \A n \in used : Successors(sc, n) \subseteq used
        /\ \A n \in used : n # v => Successors(after, n) = Successors(sc, n)
    <2>1. NULL \notin used /\ NULL \notin DOMAIN after.nodes
      BY <1>3, <1>6
    <2>2. Successors(after, v) \subseteq P
      BY <1>2, <1>6 DEF Successors, HasLinks
    <2>3. \A n \in used : n # v => Successors(after, n) = Successors(sc, n)
      BY <1>6, <2>1, SamePointers
    <2> QED
      BY <1>1, <2>2, <2>3 DEF Sound, NoDangling
  <1>9. Store(after) /\ NoDangling(after)
    <2>1. Store(after)
      BY <1>5, <1>6 DEF Store
    <2>2. NoDangling(after)
      BY <1>1, <1>2, <1>6, <1>7, <1>8 DEF Sound, NoDangling
    <2> QED
      BY <2>1, <2>2
  <1>10. Sound(after)
    BY <1>9 DEF Sound
  <1>11. PICK L : L = LeadsTo(sc, P) /\ L \in SUBSET used /\ P \subseteq L /\ Keeps(sc, L)
    BY <1>1, <1>2, LeadsInside, LeadsIsLeast
  <1>12. v \notin L
    BY <1>1, <1>2, <1>11, LeadsInside, ClosureIs
  <1>13. Successors(after, v) \subseteq L
    BY <1>8, <1>11
  <1>14. L \in SUBSET Nat
    BY <1>3, <1>11
  <1>15. NoCycle(after)
    <2> SUFFICES ASSUME NEW n \in used, n \in Closure(after, Successors(after, n)) PROVE FALSE
      BY <1>6 DEF NoCycle
    <2>1. PICK S : S = Successors(after, n) /\ S \in SUBSET used /\ S \in SUBSET Nat
      BY <1>2, <1>3, <1>8
    <2>2. n \in LeadsTo(after, S)
      BY <1>10, <2>1, ClosureIs
    <2>3. CASE n = v
      <3>1. Keeps(after, L)
        BY <1>6, <1>8, <1>11, <1>12 DEF Keeps
      <3>2. LeadsTo(after, S) \subseteq L
        BY <1>10, <1>13, <1>14, <2>1, <2>3, <3>1, LeadsIsLeast
      <3> QED
        BY <1>12, <2>2, <2>3, <3>2
    <2>4. CASE n # v
      <3>1. S = Successors(sc, n)
        BY <1>8, <2>1, <2>4
      <3>2. PICK D : /\ D = LeadsTo(sc, S) /\ D \in SUBSET used /\ D \in SUBSET Nat
                     /\ S \subseteq D /\ Keeps(sc, D)
        BY <1>1, <2>1, LeadsInside, LeadsIsLeast
      <3>3. n \notin D
        BY <1>1, <2>1, <3>1, <3>2, ClosureIs DEF NoCycle
      <3>4. CASE v \in D
        <4>1. Keeps(after, D \union L) /\ D \union L \in SUBSET Nat
          BY <1>6, <1>8, <1>11, <1>13, <1>14, <3>2 DEF Keeps
        <4>2. LeadsTo(after, S) \subseteq D \union L
          BY <1>10, <2>1, <3>2, <4>1, LeadsIsLeast
        <4>3. n \in L
          BY <2>2, <3>3, <4>2
        <4>4. S \subseteq L
          BY <1>11, <3>1, <4>3 DEF Keeps
        <4>5. D \subseteq L
          BY <1>1, <1>11, <1>14, <2>1, <3>2, <4>4, LeadsIsLeast
        <4> QED
          BY <1>12, <3>4, <4>5
      <3>5. CASE v \notin D
        <4>1. Keeps(after, D)
          BY <1>6, <1>8, <3>2, <3>5 DEF Keeps
        <4>2. LeadsTo(after, S) \subseteq D
          BY <1>10, <2>1, <3>2, <4>1, LeadsIsLeast
        <4> QED
          BY <2>2, <3>3, <4>2
      <3> QED
        BY <3>4, <3>5
    <2> QED
      BY <2>3, <2>4
  <1> QED
    BY <1>6, <1>7, <1>9, <1>15 DEF StoreSound

-----------------------------------------------------------------------------
(* The line editor. *)

Bytes == Printing \union {Zero}

\* The type invariant of the line editor; buf_i may be outside the buffer.
EditorTypes == /\ buf \in [0 .. SIZE - 1 -> Bytes] /\ buf_i \in Int
               /\ balance \in 0 .. WORD - 1
               /\ kept \in Seq(Printing) /\ longest \in Nat
               /\ under \in BOOLEAN

\* The buffer holds the line, behind it what was taken back, and then zeros.
Held == /\ buf_i = Len(kept) /\ buf_i <= longest /\ longest <= SIZE
        /\ \A k \in 1 .. Len(kept) : kept[k] = buf[k - 1]
        /\ \A n \in 0 .. longest - 1 : buf[n] # Zero
        /\ \A n \in longest .. SIZE - 1 : buf[n] = Zero

\* The balance is that of the line, counted in a word.
Balanced  == balance = (Count(kept, "(") - Count(kept, ")")) % WORD
\* What is said of a line holds until buf_i has left the buffer.
EditorInv == EditorTypes /\ (status = "ok" /\ ~under => Held /\ Balanced)

\* The assumptions, apart.
LEMMA EditorSizes == /\ SIZE \in Nat /\ SIZE > 0 /\ WORD \in Nat /\ WORD > 1
                     /\ Zero \notin Printing /\ Zero # "(" /\ Zero # ")"
  BY EditorAssumption

\* Division with a remainder has one answer.
LEMMA Remainder ==
    ASSUME NEW q \in Int, NEW r \in 0 .. WORD - 1
    PROVE  (WORD * q + r) % WORD = r
  <1> DEFINE a == WORD * q + r
             p == a \div WORD
  <1>1. a \in Int /\ WORD * q \in Int
    BY EditorSizes
  <1>2. p \in Int /\ a = WORD * p + (a % WORD) /\ a % WORD \in 0 .. WORD - 1
    BY <1>1, EditorSizes
  <1>3. a = WORD * q + r
    OBVIOUS
  <1> HIDE DEF a, p
  <1>4. WORD * (p - q) = r - (a % WORD)
    BY <1>1, <1>2, <1>3, EditorSizes
  <1>5. p - q < 1
    BY <1>2, <1>4, EditorSizes
  <1>6. p - q > -1
    BY <1>2, <1>4, EditorSizes
  <1>7. p = q
    BY <1>2, <1>5, <1>6
  <1> QED
    BY <1>2, <1>3, <1>7, EditorSizes DEF a, p

\* A word counts on from where it has wrapped.
LEMMA WrapsOn ==
    ASSUME NEW x \in Int, NEW w \in {-1, 0, 1}
    PROVE  /\ ((x % WORD) + w) % WORD = (x + w) % WORD
           /\ (x + w) % WORD \in 0 .. WORD - 1
  <1> DEFINE q == x \div WORD
             r == x % WORD
  <1>1. q \in Int /\ r \in 0 .. WORD - 1 /\ x = WORD * q + r
    BY EditorSizes
  <1> HIDE DEF q, r
  <1>2. (r + w) % WORD = (x + w) % WORD
    <2>1. CASE r + w \in 0 .. WORD - 1
      <3>1. PICK s : s = r + w
        OBVIOUS
      <3>2. s \in 0 .. WORD - 1 /\ x + w = WORD * q + s
        BY <1>1, <2>1, <3>1, EditorSizes
      <3>3. (WORD * q + s) % WORD = s /\ (WORD * 0 + s) % WORD = s
        BY <1>1, <3>2, Remainder
      <3>4. WORD * 0 + s = s
        BY <3>2, EditorSizes
      <3> QED
        BY <3>1, <3>2, <3>3, <3>4
    <2>2. CASE r + w = WORD
      <3>1. x + w = WORD * (q + 1) + 0 /\ WORD = WORD * 1 + 0 /\ q + 1 \in Int
            /\ 0 \in 0 .. WORD - 1
        BY <1>1, <2>2, EditorSizes
      <3>2. (WORD * (q + 1) + 0) % WORD = 0 /\ (WORD * 1 + 0) % WORD = 0
        BY <3>1, Remainder
      <3> QED
        BY <2>2, <3>1, <3>2
    <2>3. CASE r + w = -1
      <3>1. x + w = WORD * (q - 1) + (WORD - 1) /\ -1 = WORD * (-1) + (WORD - 1)
            /\ q - 1 \in Int /\ WORD - 1 \in 0 .. WORD - 1
        BY <1>1, <2>3, EditorSizes
      <3>2. (WORD * (q - 1) + (WORD - 1)) % WORD = WORD - 1
            /\ (WORD * (-1) + (WORD - 1)) % WORD = WORD - 1
        BY <3>1, Remainder
      <3> QED
        BY <2>3, <3>1, <3>2
    <2>4. r + w \in 0 .. WORD - 1 \/ r + w = WORD \/ r + w = -1
      BY <1>1, EditorSizes
    <2> QED
      BY <2>1, <2>2, <2>3, <2>4
  <1>3. (x + w) % WORD \in 0 .. WORD - 1
    BY EditorSizes
  <1> QED
    BY <1>2, <1>3 DEF r

\* A character more is counted once.
LEMMA CountAppend ==
    ASSUME NEW s \in Seq(Printing), NEW c \in Printing, NEW d
    PROVE  /\ Count(s, d) \in Nat
           /\ Count(Append(s, c), d) = Count(s, d) + (IF c = d THEN 1 ELSE 0)
  <1>0. PICK t : t = Append(s, c)
    OBVIOUS
  <1>1. PICK z : z = Len(s) /\ z \in Nat
    OBVIOUS
  <1>2. DOMAIN s = 1 .. z /\ DOMAIN t = 1 .. z + 1 /\ t[z + 1] = c
        /\ \A k \in 1 .. z : t[k] = s[k]
    BY <1>0, <1>1
  <1>3. PICK I, J : I = {k \in DOMAIN s : s[k] = d} /\ J = {k \in DOMAIN t : t[k] = d}
    OBVIOUS
  <1>4. IsFiniteSet(I) /\ Cardinality(I) \in Nat
    <2>1. IsFiniteSet(1 .. z)
      BY <1>1, FS_Interval
    <2>2. I \in SUBSET (1 .. z)
      BY <1>2, <1>3
    <2> QED
      BY <2>1, <2>2, FS_Subset, FS_CardinalityType
  <1>5. z + 1 \notin I
    BY <1>1, <1>2, <1>3
  <1>6. J = IF c = d THEN I \union {z + 1} ELSE I
    <2>1. 1 .. z + 1 = (1 .. z) \union {z + 1}
      BY <1>1
    <2> QED
      BY <1>2, <1>3, <2>1
  <1>7. Cardinality(J) = Cardinality(I) + (IF c = d THEN 1 ELSE 0)
    <2>1. Cardinality(I \union {z + 1}) = Cardinality(I) + 1
      BY <1>4, <1>5, FS_AddElement
    <2>2. CASE c = d
      BY <1>6, <2>1, <2>2
    <2>3. CASE c # d
      BY <1>4, <1>6, <2>3
    <2> QED
      BY <2>2, <2>3
  <1> QED
    BY <1>0, <1>3, <1>4, <1>7 DEF Count

\* Nothing is in an empty line.
LEMMA CountEmpty == ASSUME NEW d PROVE Count(<<>>, d) = 0
  <1>1. {k \in DOMAIN <<>> : <<>>[k] = d} = {}
    OBVIOUS
  <1> QED
    BY <1>1, FS_EmptySet DEF Count

\* The brackets of a line, its last character and the rest.
Brackets(s) == Count(s, "(") - Count(s, ")")
\* A character more adds its weight, which is what balance counts.
LEMMA BracketsAppend ==
    ASSUME NEW s \in Seq(Printing), NEW c \in Printing
    PROVE  /\ Brackets(s) \in Int /\ Weight(c) \in {-1, 0, 1}
           /\ Brackets(Append(s, c)) = Brackets(s) + Weight(c)
  <1>1. PICK a, b : a = Count(s, "(") /\ b = Count(s, ")") /\ a \in Nat /\ b \in Nat
    BY CountAppend
  <1>2. /\ Count(Append(s, c), "(") = a + (IF c = "(" THEN 1 ELSE 0)
        /\ Count(Append(s, c), ")") = b + (IF c = ")" THEN 1 ELSE 0)
    BY <1>1, CountAppend
  <1>3. Weight(c) = (IF c = "(" THEN 1 ELSE 0) - (IF c = ")" THEN 1 ELSE 0)
    BY DEF Weight
  <1> QED
    BY <1>1, <1>2, <1>3 DEF Brackets

\* A line is its last character behind the rest of it.
LEMMA FrontIs ==
    ASSUME NEW s \in Seq(Printing), s # <<>>
    PROVE  /\ Len(s) \in Nat \ {0} /\ s[Len(s)] \in Printing
           /\ Front(s) \in Seq(Printing) /\ Len(Front(s)) = Len(s) - 1
           /\ \A k \in 1 .. Len(s) - 1 : Front(s)[k] = s[k]
           /\ s = Append(Front(s), s[Len(s)])
  <1>1. Len(s) \in Nat /\ Len(s) # 0
    BY EmptySeq
  <1>2. PICK z : z = Len(s) /\ z \in Nat /\ z > 0
    BY <1>1
  <1>3. z \in DOMAIN s /\ s[z] \in Printing
    BY <1>2
  <1>4. /\ Front(s) \in Seq(Printing) /\ Len(Front(s)) = z - 1
        /\ \A k \in 1 .. z - 1 : Front(s)[k] = s[k]
    BY <1>2 DEF Front
  <1>5. PICK t : t = Append(Front(s), s[z])
    OBVIOUS
  <1>6. t \in Seq(Printing) /\ Len(t) = z /\ \A k \in 1 .. z : t[k] = s[k]
    BY <1>2, <1>3, <1>4, <1>5
  <1>7. t = s
    BY <1>2, <1>6, SeqEqual
  <1> QED
    BY <1>2, <1>3, <1>4, <1>5, <1>7

\* Typing keeps the line while the buffer has room.
LEMMA TypeStep ==
    ASSUME EditorInv, NEW c \in Printing, TypeKey(c)
    PROVE  EditorInv'
  <1>1. /\ status = "ok" /\ buf_i' = buf_i + 1 /\ kept' = Append(kept, c) /\ under' = under
        /\ balance' = (balance + Weight(c)) % WORD
        /\ longest' = IF Len(kept) < longest THEN longest ELSE Len(kept) + 1
    BY DEF TypeKey, NewKey
  <1>2. EditorTypes /\ Weight(c) \in {-1, 0, 1}
    BY DEF EditorInv, Weight
  <1>3. Len(kept) \in Nat /\ Len(kept') = Len(kept) + 1 /\ kept'[Len(kept) + 1] = c
        /\ \A k \in 1 .. Len(kept) : kept'[k] = kept[k]
    BY <1>1, <1>2 DEF EditorTypes
  <1>4. EditorTypes'
    <2>1. balance' \in 0 .. WORD - 1
      BY <1>1, <1>2, EditorSizes DEF EditorTypes
    <2>2. buf' \in [0 .. SIZE - 1 -> Bytes]
      BY <1>2 DEF TypeKey, EditorTypes, Bytes
    <2>3. buf_i' \in Int /\ longest' \in Nat /\ under' \in BOOLEAN /\ kept' \in Seq(Printing)
      BY <1>1, <1>2, <1>3 DEF EditorTypes
    <2> QED
      BY <2>1, <2>2, <2>3 DEF EditorTypes
  <1>5. ASSUME status' = "ok", ~under' PROVE Held' /\ Balanced'
    <2>1. Held /\ Balanced
      BY <1>1, <1>5 DEF EditorInv
    <2>2. buf_i \in DOMAIN buf /\ buf' = [buf EXCEPT ![buf_i] = c]
      BY <1>5 DEF TypeKey
    <2>3. PICK z : z = Len(kept) /\ z \in Nat /\ buf_i = z /\ z < SIZE
      <3>1. buf_i = Len(kept)
        BY <2>1 DEF Held
      <3>2. buf_i \in 0 .. SIZE - 1
        BY <1>2, <2>2 DEF EditorTypes
      <3> QED
        BY <3>1, <3>2, EditorSizes
    <2>4. buf'[z] = c /\ c # Zero /\ \A n \in 0 .. SIZE - 1 : n # z => buf'[n] = buf[n]
      BY <1>2, <2>2, <2>3, EditorSizes DEF EditorTypes
    <2>5. PICK m : m = longest /\ m \in Nat /\ z <= m /\ m <= SIZE
      BY <1>2, <2>1, <2>3 DEF Held, EditorTypes
    <2>6. /\ \A k \in 1 .. z : kept[k] = buf[k - 1]
          /\ \A n \in 0 .. m - 1 : buf[n] # Zero
          /\ \A n \in m .. SIZE - 1 : buf[n] = Zero
      BY <2>1, <2>3, <2>5 DEF Held
    <2>7. PICK l : l = longest' /\ l = (IF z < m THEN m ELSE z + 1)
      BY <1>1, <2>3, <2>5
    <2>8. \A k \in 1 .. z + 1 : kept'[k] = buf'[k - 1]
      <3>1. ASSUME NEW k \in 1 .. z PROVE kept'[k] = buf'[k - 1]
        <4>1. k - 1 \in 0 .. SIZE - 1 /\ k - 1 # z
          BY <2>3, EditorSizes
        <4> QED
          BY <1>3, <2>3, <2>4, <2>6, <4>1
      <3>2. kept'[z + 1] = buf'[(z + 1) - 1]
        BY <1>3, <2>3, <2>4
      <3> QED
        BY <2>3, <3>1, <3>2
    <2>9. /\ \A n \in 0 .. l - 1 : buf'[n] # Zero
          /\ \A n \in l .. SIZE - 1 : buf'[n] = Zero
      BY <2>3, <2>4, <2>5, <2>6, <2>7, EditorSizes
    <2>10. z + 1 <= l /\ l <= SIZE
      BY <2>3, <2>5, <2>7, EditorSizes
    <2>11. Held'
      BY <1>1, <1>3, <2>3, <2>7, <2>8, <2>9, <2>10 DEF Held
    <2>12. Balanced'
      <3>1. PICK x : x = Brackets(kept) /\ x \in Int
        BY <1>2, BracketsAppend DEF EditorTypes
      <3>2. Brackets(kept') = x + Weight(c)
        BY <1>1, <1>2, <3>1, BracketsAppend DEF EditorTypes
      <3>3. balance = x % WORD
        BY <2>1, <3>1 DEF Balanced, Brackets
      <3>4. balance' = (x + Weight(c)) % WORD
        BY <1>1, <1>2, <3>1, <3>3, WrapsOn
      <3> QED
        BY <3>2, <3>4 DEF Balanced, Brackets
    <2> QED
      BY <2>11, <2>12
  <1> QED
    BY <1>4, <1>5 DEF EditorInv

\* A backspace takes back the last character of the line, and its bracket.
LEMMA BackspaceStep ==
    ASSUME EditorInv, Backspace
    PROVE  EditorInv'
  <1>1. PICK c \in Before :
             /\ status = "ok" /\ balance' = (balance - Weight(c)) % WORD
             /\ buf_i' = buf_i - 1 /\ under' = (under \/ buf_i <= 0)
             /\ kept' = IF kept = <<>> THEN kept ELSE Front(kept)
             /\ UNCHANGED <<buf, longest, status>>
    BY DEF Backspace, NewKey
  <1>2. EditorTypes
    BY DEF EditorInv
  <1>3. PICK w : w = Weight(c) /\ w \in {-1, 0, 1}
    BY DEF Weight
  <1>4. EditorTypes'
    <2>1. balance' \in 0 .. WORD - 1
      BY <1>1, <1>2, <1>3, EditorSizes DEF EditorTypes
    <2>2. kept' \in Seq(Printing)
      BY <1>1, <1>2, FrontIs DEF EditorTypes
    <2>3. buf' \in [0 .. SIZE - 1 -> Bytes] /\ buf_i' \in Int /\ longest' \in Nat
          /\ under' \in BOOLEAN
      BY <1>1, <1>2 DEF EditorTypes
    <2> QED
      BY <2>1, <2>2, <2>3 DEF EditorTypes
  <1>5. ASSUME status' = "ok", ~under' PROVE Held' /\ Balanced'
    <2>1. Held /\ Balanced /\ buf_i > 0
      <3>1. status = "ok" /\ ~under /\ ~(buf_i <= 0)
        BY <1>1, <1>5
      <3>2. Held /\ Balanced /\ buf_i \in Int
        BY <1>2, <3>1 DEF EditorInv, EditorTypes
      <3> QED
        BY <3>1, <3>2
    <2>2. kept # <<>> /\ kept' = Front(kept)
      BY <1>1, <2>1 DEF Held
    <2>3. PICK z : z = Len(kept) /\ z \in Nat \ {0} /\ buf_i = z /\ kept[z] \in Printing
      BY <1>2, <2>1, <2>2, FrontIs DEF Held, EditorTypes
    <2>4. /\ Len(kept') = z - 1 /\ \A k \in 1 .. z - 1 : kept'[k] = kept[k]
          /\ kept = Append(kept', kept[z]) /\ kept' \in Seq(Printing)
      BY <1>2, <2>2, <2>3, FrontIs DEF EditorTypes
    <2>5. z <= longest /\ longest \in Nat /\ longest <= SIZE
          /\ \A k \in 1 .. z : kept[k] = buf[k - 1]
      BY <1>2, <2>1, <2>3 DEF Held, EditorTypes
    <2>6. c = kept[z]
      <3>1. z - 1 \in DOMAIN buf /\ buf[z - 1] = kept[z]
        BY <1>2, <2>3, <2>5, EditorSizes DEF EditorTypes
      <3> QED
        BY <1>1, <2>3, <3>1 DEF Before
    <2>7. Held'
      <3>1. \A k \in 1 .. z - 1 : kept'[k] = buf[k - 1]
        BY <2>3, <2>4, <2>5
      <3>2. z - 1 <= longest
        BY <2>3, <2>5
      <3> QED
        BY <1>1, <2>1, <2>3, <2>4, <3>1, <3>2 DEF Held
    <2>8. Balanced'
      <3>1. PICK x : x = Brackets(kept') /\ x \in Int
        BY <2>4, BracketsAppend, <2>3
      <3>2. Brackets(kept) = x + w
        BY <1>3, <2>3, <2>4, <2>6, <3>1, BracketsAppend
      <3>3. balance = (x + w) % WORD
        BY <2>1, <3>2 DEF Balanced, Brackets
      <3>4. balance' = (((x + w) % WORD) + (-w)) % WORD
        <4>1. (x + w) % WORD \in Int
          BY <1>3, <3>1, WrapsOn
        <4> QED
          BY <1>1, <1>3, <3>3, <4>1
      <3>5. x + w \in Int /\ -w \in {-1, 0, 1} /\ (x + w) + (-w) = x
        BY <1>3, <3>1
      <3>6. balance' = x % WORD
        BY <3>4, <3>5, WrapsOn
      <3> QED
        BY <3>1, <3>6 DEF Balanced, Brackets
    <2> QED
      BY <2>7, <2>8
  <1> QED
    BY <1>4, <1>5 DEF EditorInv

\* A line without characters has no brackets.
LEMMA EmptyIs ==
    /\ Empty \in [0 .. SIZE - 1 -> Bytes] /\ \A n \in 0 .. SIZE - 1 : Empty[n] = Zero
    /\ 0 = (Count(<<>>, "(") - Count(<<>>, ")")) % WORD /\ 0 \in 0 .. WORD - 1
  <1>1. Zero \in Bytes
    BY DEF Bytes
  <1>2. (0 - 0) % WORD = 0
    BY EditorSizes
  <1> QED
    BY <1>1, <1>2, CountEmpty, EditorSizes DEF Empty

\* The prompt begins with an empty line in an empty buffer.
LEMMA EditorStart == EditorInit => EditorInv
  <1> SUFFICES ASSUME EditorInit PROVE EditorTypes /\ Held /\ Balanced
    BY DEF EditorInv
  <1>1. /\ buf = Empty /\ buf_i = 0 /\ balance = 0 /\ kept = <<>> /\ longest = 0
        /\ under = FALSE
    BY DEF EditorInit
  <1>2. EditorTypes
    <2>1. kept \in Seq(Printing)
      BY <1>1, EmptySeq
    <2>2. buf_i \in Int /\ longest \in Nat
      BY <1>1
    <2>3. buf \in [0 .. SIZE - 1 -> Bytes] /\ balance \in 0 .. WORD - 1
      BY <1>1, EmptyIs
    <2>4. under \in BOOLEAN
      BY <1>1, Zenon
    <2> QED
      BY <2>1, <2>2, <2>3, <2>4 DEF EditorTypes
  <1>3. Held
    BY <1>1, EmptyIs, EditorSizes DEF Held
  <1> QED
    BY <1>1, <1>2, <1>3, EmptyIs DEF Balanced

\* Nothing is left of a line that has been parsed.
LEMMA EnterStep == ASSUME Enter PROVE EditorInv'
  <1>1. /\ buf' = Empty /\ buf_i' = 0 /\ balance' = 0 /\ kept' = <<>> /\ longest' = 0
        /\ under' = FALSE
    BY DEF Enter
  <1>2. EditorTypes'
    <2>1. kept' \in Seq(Printing)
      BY <1>1, EmptySeq
    <2>2. buf_i' \in Int /\ longest' \in Nat
      BY <1>1
    <2>3. buf' \in [0 .. SIZE - 1 -> Bytes] /\ balance' \in 0 .. WORD - 1
      BY <1>1, EmptyIs
    <2>4. under' \in BOOLEAN
      BY <1>1, Zenon
    <2> QED
      BY <2>1, <2>2, <2>3, <2>4 DEF EditorTypes
  <1>3. Held'
    BY <1>1, EmptyIs, EditorSizes DEF Held
  <1>4. Balanced'
    BY <1>1, EmptyIs DEF Balanced
  <1> QED
    BY <1>2, <1>3, <1>4 DEF EditorInv

\* Every key keeps the invariant.
LEMMA EditorStep == EditorInv /\ [EditorNext]_editorVars => EditorInv'
  <1> SUFFICES ASSUME EditorInv, [EditorNext]_editorVars PROVE EditorInv'
    OBVIOUS
  <1>1. ASSUME UNCHANGED <<buf, buf_i, balance, kept, longest, under, status>>
        PROVE  EditorInv'
    BY <1>1 DEF EditorInv, EditorTypes, Held, Balanced, Count
  <1> QED
    BY <1>1, TypeStep, BackspaceStep, EnterStep DEF EditorNext, GoOn, editorVars

\* The text is what is in front of the first zero.
LEMMA TextIs ==
    ASSUME EditorTypes, Held
    PROVE  Len(Text) = longest /\ IsPrefix(kept, Text)
  <1>1. PICK m : m = longest /\ m \in 0 .. SIZE
    BY DEF EditorTypes, Held
  <1> DEFINE Ends(n) == /\ n \in DOMAIN buf => buf[n] = Zero
                        /\ \A k \in 0 .. n - 1 : buf[k] # Zero
  <1>2. DOMAIN buf = 0 .. SIZE - 1 /\ SIZE \in Nat
    BY EditorSizes DEF EditorTypes
  <1>3. Ends(m)
    BY <1>1, <1>2 DEF Held
  <1>4. ASSUME NEW n \in 0 .. SIZE, Ends(n) PROVE n = m
    <2>1. ~(n < m)
      BY <1>1, <1>2, <1>3, <1>4
    <2>2. ~(m < n)
      BY <1>1, <1>2, <1>3, <1>4
    <2> QED
      BY <1>1, <2>1, <2>2
  <1>5. (CHOOSE n \in 0 .. SIZE : Ends(n)) = m
    BY <1>1, <1>3, <1>4
  <1>6. Text = [k \in 1 .. m |-> buf[k - 1]]
    BY <1>5 DEF Text
  <1>7. PICK t : t = Text
    OBVIOUS
  <1>8. t \in Seq(Bytes) /\ Len(t) = m /\ \A k \in 1 .. m : t[k] = buf[k - 1]
    <2>1. \A k \in 1 .. m : buf[k - 1] \in Bytes
      BY <1>1, <1>2 DEF EditorTypes
    <2> QED
      BY <1>1, <1>6, <1>7, <2>1
  <1>9. PICK z : z = Len(kept) /\ z \in Nat /\ z <= m /\ \A k \in 1 .. z : kept[k] = t[k]
    <2>1. /\ kept \in Seq(Printing) /\ Len(kept) = buf_i /\ buf_i <= m
          /\ \A k \in 1 .. Len(kept) : kept[k] = buf[k - 1]
      BY <1>1 DEF EditorTypes, Held
    <2>2. PICK z : z = Len(kept) /\ z \in Nat
      BY <2>1
    <2> QED
      BY <1>1, <1>8, <2>1, <2>2
  <1>10. SubSeq(kept, 1, z) = SubSeq(t, 1, z)
    BY <1>8, <1>9 DEF EditorTypes
  <1> QED
    BY <1>1, <1>7, <1>8, <1>9, <1>10 DEF IsPrefix

\* Whatever is typed and taken back at the prompt, the buffer up to buf_i is the
\* line, and balance is the balance of its brackets, wrapped or not: for any
\* buffer, word and alphabet, and whatever the parser answers.
THEOREM LineCorrect == EditorSpec => []LineIsKept
  <1>1. EditorInv => LineIsKept
    <2> SUFFICES ASSUME EditorInv, status = "ok", ~under
                 PROVE  /\ kept = [k \in 1 .. buf_i |-> buf[k - 1]]
                        /\ Balanced
      BY DEF LineIsKept, Balanced
    <2>1. Held /\ Balanced /\ EditorTypes
      BY DEF EditorInv
    <2>2. kept \in Seq(Printing) /\ Len(kept) \in Nat
      BY <2>1 DEF EditorTypes
    <2>3. DOMAIN kept = 1 .. buf_i /\ \A k \in 1 .. buf_i : kept[k] = buf[k - 1]
      BY <2>1, <2>2 DEF Held
    <2> QED
      BY <2>1, <2>2, <2>3
  <1> QED
    BY <1>1, EditorStart, EditorStep, PTL DEF EditorSpec

\* What the return key hands to parse begins with the line, and is as long as the
\* line has ever been: memset leaves nothing of the lines before it.
THEOREM LineExecuted == EditorSpec => ExecutedIsTyped
  <1>1. ASSUME EditorInv, Enter, ~under PROVE IsPrefix(kept, line') /\ Len(line') = longest
    <2>1. status = "ok" /\ line' = Text
      BY <1>1 DEF Enter
    <2>2. Len(Text) = longest /\ IsPrefix(kept, Text)
      BY <1>1, <2>1, TextIs DEF EditorInv
    <2> QED
      BY <2>1, <2>2
  <1>2. EditorInv /\ [EditorNext]_editorVars
          => [Enter /\ ~under => IsPrefix(kept, line') /\ Len(line') = longest]_editorVars
    BY <1>1
  <1> QED
    BY <1>2, EditorStart, EditorStep, PTL DEF EditorSpec, ExecutedIsTyped
=============================================================================
