-------------------------- MODULE Terminal_proofs --------------------------
(***************************************************************************)
(* The screen and the keyboard.                                            *)
(*                                                                         *)
(* The screen is a window on a sheet of paper, for a screen of any size:   *)
(* types and the cursor's row first, then what scrolling and writing a     *)
(* cell do to the sheet, then one lemma per case of monitor_write_char.    *)
(*                                                                         *)
(* A key is typed once, for any keys and any controller: what has been     *)
(* typed and not delivered is always what the driver will make of the      *)
(* bytes in the controller.  And the line of gets is what was delivered    *)
(* to it, for a buffer of any size.                                        *)
(***************************************************************************)
EXTENDS Monitor, Keyboard, SequenceTheorems, FiniteSetTheorems, TLAPS

Row     == [0 .. W - 1 -> Cells]
States  == [x : 0 .. BYTE - 1, y : 0 .. H, mem : [Memory -> Cells], above : Seq(Row)]
IInv    == TypeOK /\ RowOnScreen

-----------------------------------------------------------------------------
(* Where cells are. *)

LEMMA Sizes == /\ W \in Nat /\ W > 0 /\ H \in Nat /\ H > 1 /\ TAB \in Nat /\ TAB > 0
               /\ BYTE \in Nat /\ W + TAB <= BYTE /\ H * W \in Nat
  BY MonitorAssumption

\* A row begins where the one before it ends.
LEMMA NextRow == ASSUME NEW y \in Int PROVE (y + 1) * W = y * W + W /\ y * W \in Int
  BY Sizes

LEMMA RowsInOrder ==
    ASSUME NEW y \in Int, NEW z \in Int, y <= z
    PROVE  y * W <= z * W
  BY Sizes

LEMMA CellPlace ==
    ASSUME NEW y \in 0 .. H - 1, NEW x \in 0 .. W - 1
    PROVE  /\ y * W + x \in 0 .. H * W - 1
           /\ y * W + x \in Memory
           /\ y < H - 1 => y * W + x < (H - 1) * W
           /\ y = H - 1 => y * W + x >= (H - 1) * W
  <1>1. y * W + x \in Int /\ y * W >= 0
    BY Sizes
  <1>2. (y + 1) * W = y * W + W
    BY NextRow
  <1>3. (y + 1) * W <= H * W
    BY Sizes, RowsInOrder
  <1>4. y < H - 1 => (y + 1) * W <= (H - 1) * W
    BY Sizes, RowsInOrder
  <1>5. y = H - 1 => y * W = (H - 1) * W
    OBVIOUS
  <1>6. (H - 1) * W \in Int
    BY Sizes
  <1> HIDE DEF Memory
  <1>7. y * W + x \in 0 .. H * W - 1
    BY <1>1, <1>2, <1>3, Sizes
  <1>8. y * W + x \in Memory
    BY <1>7, Sizes DEF Memory
  <1> QED
    BY <1>1, <1>2, <1>4, <1>5, <1>6, <1>7, <1>8, Sizes

\* Different places are different cells.
LEMMA OneCell ==
    ASSUME NEW y \in 0 .. H - 1, NEW x \in 0 .. W - 1, NEW z \in 0 .. H - 1, NEW c \in 0 .. W - 1,
           y * W + x = z * W + c
    PROVE  y = z /\ x = c
  <1>1. y * W \in Int /\ z * W \in Int
    BY Sizes
  <1>2. (y + 1) * W = y * W + W /\ (z + 1) * W = z * W + W
    BY NextRow
  <1>3. y < z => (y + 1) * W <= z * W
    BY RowsInOrder
  <1>4. z < y => (z + 1) * W <= y * W
    BY RowsInOrder
  <1>5. ~(y < z) /\ ~(z < y)
    BY <1>1, <1>2, <1>3, <1>4, Sizes
  <1>6. y = z
    BY <1>5, Sizes
  <1> QED
    BY <1>1, <1>6, Sizes

-----------------------------------------------------------------------------
(* Types, and the row of the cursor. *)

LEMMA CellType == ASSUME IInv, NEW c \in Chars PROVE color_character(c) \in Cells
  BY DEF IInv, TypeOK, color_character, Cells

LEMMA RowType == ASSUME NEW mem \in [Memory -> Cells], NEW y \in 0 .. H - 1
                 PROVE  RowOf(mem, y) \in Row
  BY CellPlace DEF RowOf, Row

LEMMA HereType == IInv => Here \in States /\ Here.y < H
  BY Sizes DEF IInv, TypeOK, RowOnScreen, Here, Cursor, States, Row

LEMMA PutType ==
    ASSUME IInv, NEW s \in States, s.y < H, NEW c \in Chars
    PROVE  Put(s, c) \in States
  <1> DEFINE mem == [s.mem EXCEPT ![s.x + s.y * W] = color_character(c)]
             x   == (s.x + 1) % BYTE
  <1>1. mem \in [Memory -> Cells]
    BY CellType DEF States
  <1>2. x \in 0 .. BYTE - 1 /\ 0 \in 0 .. BYTE - 1
    BY Sizes DEF States
  <1>3. s.y + 1 \in 0 .. H /\ s.y \in 0 .. H /\ s.above \in Seq(Row)
    BY Sizes DEF States
  <1> HIDE DEF mem, x
  <1>4. Put(s, c) = IF x = W THEN Cursor(0, s.y + 1, mem, s.above)
                             ELSE Cursor(x, s.y, mem, s.above)
    BY DEF Put, mem, x
  <1> QED
    BY <1>1, <1>2, <1>3, <1>4 DEF Cursor, States

Scrolled(mem) == [j \in Memory |-> CASE j < (H - 1) * W -> mem[j + W]
                                     [] j \in (H - 1) * W .. H * W - 1 -> color_character(Blank)
                                     [] j >= H * W -> mem[j]]

LEMMA ScrolledCell ==
    ASSUME NEW mem, NEW j \in Memory
    PROVE  Scrolled(mem)[j] = IF j < (H - 1) * W THEN mem[j + W]
                              ELSE IF j < H * W THEN color_character(Blank) ELSE mem[j]
  <1>1. (H - 1) * W \in Int /\ H * W \in Int /\ j \in Int /\ (H - 1) * W + W = H * W
    BY Sizes, NextRow DEF Memory
  <1>2. Scrolled(mem)[j] = CASE j < (H - 1) * W -> mem[j + W]
                             [] j \in (H - 1) * W .. H * W - 1 -> color_character(Blank)
                             [] j >= H * W -> mem[j]
    BY DEF Scrolled
  <1>3. CASE j < (H - 1) * W
    BY <1>1, <1>2, <1>3, Sizes
  <1>4. CASE ~(j < (H - 1) * W) /\ j < H * W
    BY <1>1, <1>2, <1>4, Sizes
  <1>5. CASE ~(j < H * W)
    BY <1>1, <1>2, <1>5, Sizes
  <1> QED
    BY <1>1, <1>3, <1>4, <1>5

LEMMA ScrollIs ==
    ASSUME NEW s \in States
    PROVE  /\ s.y < H => scroll(s) = s
           /\ ~(s.y < H) => scroll(s) = Cursor(s.x, H - 1, Scrolled(s.mem),
                                               Append(s.above, RowOf(s.mem, 0)))
  BY DEF scroll, Scrolled

LEMMA ScrolledType ==
    ASSUME IInv, NEW mem \in [Memory -> Cells]
    PROVE  Scrolled(mem) \in [Memory -> Cells]
  <1>1. ASSUME NEW j \in Memory PROVE Scrolled(mem)[j] \in Cells
    <2>1. j < (H - 1) * W => j + W \in Memory
      <3>1. (H - 1) * W \in Int /\ H * W \in Int /\ j \in Int /\ (H - 1) * W + W = H * W
        BY Sizes, NextRow DEF Memory
      <3> QED
        BY <3>1, Sizes DEF Memory
    <2>2. color_character(Blank) \in Cells
      BY CellType, MonitorAssumption
    <2> QED
      BY <2>1, <2>2, ScrolledCell
  <1>2. Scrolled(mem) = [j \in Memory |-> Scrolled(mem)[j]]
    <2> DEFINE cell(j) == CASE j < (H - 1) * W -> mem[j + W]
                            [] j \in (H - 1) * W .. H * W - 1 -> color_character(Blank)
                            [] j >= H * W -> mem[j]
    <2>1. Scrolled(mem) = [j \in Memory |-> cell(j)]
      BY DEF Scrolled
    <2> HIDE DEF cell
    <2> QED
      BY <2>1
  <1> QED
    BY <1>1, <1>2

LEMMA ScrollType ==
    ASSUME IInv, NEW s \in States
    PROVE  scroll(s) \in States /\ scroll(s).y \in 0 .. H - 1
  <1>1. CASE s.y < H
    BY <1>1, ScrollIs, Sizes DEF States
  <1>2. CASE ~(s.y < H)
    <2>1. s.mem \in [Memory -> Cells] /\ s.above \in Seq(Row) /\ s.x \in 0 .. BYTE - 1
      BY DEF States
    <2>2. Scrolled(s.mem) \in [Memory -> Cells]
      BY <2>1, ScrolledType
    <2>3. RowOf(s.mem, 0) \in Row
      BY <2>1, RowType, Sizes
    <2>4. Append(s.above, RowOf(s.mem, 0)) \in Seq(Row)
      BY <2>1, <2>3
    <2>5. H - 1 \in 0 .. H - 1 /\ H - 1 \in 0 .. H
      BY Sizes
    <2>6. Cursor(s.x, H - 1, Scrolled(s.mem), Append(s.above, RowOf(s.mem, 0))) \in States
      BY <2>1, <2>2, <2>4, <2>5 DEF Cursor, States
    <2>7. Cursor(s.x, H - 1, Scrolled(s.mem), Append(s.above, RowOf(s.mem, 0))).y = H - 1
      BY DEF Cursor
    <2> QED
      BY <1>2, <2>5, <2>6, <2>7, ScrollIs
  <1> QED
    BY <1>1, <1>2

LEMMA ShowType == ASSUME IInv, NEW s \in States, Show(s) PROVE IInv'
  BY ScrollType DEF Show, IInv, TypeOK, RowOnScreen, States, Row

LEMMA SetPosType ==
    ASSUME IInv, NEW s \in States, s.y < H
    PROVE  set_pos(s, Blank) \in States
  <1>1. scroll(Put(s, Blank)) \in States
    BY PutType, ScrollType, MonitorAssumption
  <1> QED
    BY <1>1 DEF set_pos, Cursor, States

-----------------------------------------------------------------------------
(* The cursor's row. *)

LEMMA TypeInit == Init => IInv
  <1> SUFFICES ASSUME Init PROVE IInv
    OBVIOUS
  <1>1. [char |-> Blank, colour |-> White] \in Cells
    BY MonitorAssumption DEF Cells
  <1>2. video_memory \in [Memory -> Cells]
    BY <1>1 DEF Init
  <1>3. above \in Seq([0 .. W - 1 -> Cells])
    BY DEF Init
  <1>4. cursor_x \in 0 .. BYTE - 1 /\ cursor_y \in 0 .. H - 1 /\ colour \in Colours
    BY Sizes, MonitorAssumption DEF Init
  <1> QED
    BY <1>2, <1>3, <1>4 DEF IInv, TypeOK, RowOnScreen

LEMMA TypeStep == IInv /\ [Next]_vars => IInv'
  <1> SUFFICES ASSUME IInv, [Next]_vars PROVE IInv'
    OBVIOUS
  <1>1. Here \in States /\ Here.y < H
    BY HereType
  <1>2. /\ Here.x = cursor_x /\ Here.y = cursor_y /\ Here.mem = video_memory /\ Here.above = above
        /\ cursor_x \in 0 .. BYTE - 1 /\ cursor_y \in 0 .. H - 1
    BY DEF Here, Cursor, IInv, TypeOK, RowOnScreen
  <1>3. ASSUME NEW c \in Chars, Default(c) PROVE IInv'
    BY <1>1, <1>3, PutType, ShowType DEF Default
  <1>4. CASE Backspace
    <2>1. CASE cursor_x = 0
      BY <1>1, <1>4, <2>1, ShowType DEF Backspace
    <2>2. CASE cursor_x # 0
      <3>1. [Here EXCEPT !.x = cursor_x - 1] \in States /\ [Here EXCEPT !.x = cursor_x - 1].y < H
        <4>1. cursor_x - 1 \in 0 .. BYTE - 1
          BY <1>2, <2>2, Sizes
        <4> QED
          BY <1>1, <4>1 DEF States
      <3> QED
        BY <1>4, <2>2, <3>1, SetPosType, ShowType DEF Backspace
    <2> QED
      BY <2>1, <2>2
  <1>5. CASE Tab
    <2>1. (cursor_x + TAB - ((cursor_x + TAB) % TAB)) % BYTE \in 0 .. BYTE - 1
      BY <1>2, Sizes
    <2>2. [Here EXCEPT !.x = (cursor_x + TAB - ((cursor_x + TAB) % TAB)) % BYTE] \in States
      BY <1>1, <2>1 DEF States
    <2> QED
      BY <1>5, <2>2, ShowType DEF Tab
  <1>6. CASE CarriageReturn
    <2>1. [Here EXCEPT !.x = 0] \in States
      BY <1>1, Sizes DEF States
    <2> QED
      BY <1>6, <2>1, ShowType DEF CarriageReturn
  <1>7. CASE Newline
    <2>1. cursor_y + 1 \in 0 .. H /\ 0 \in 0 .. BYTE - 1
      BY <1>2, Sizes
    <2>2. [Here EXCEPT !.x = 0, !.y = cursor_y + 1] \in States
      BY <1>1, <2>1 DEF States
    <2> QED
      BY <1>7, <2>2, ShowType DEF Newline
  <1>8. CASE SetColour
    BY <1>8 DEF SetColour, IInv, TypeOK, RowOnScreen, Memory, Cells
  <1>9. CASE UNCHANGED vars
    BY <1>9 DEF vars, IInv, TypeOK, RowOnScreen, Memory, Cells
  <1> QED
    BY <1>3, <1>4, <1>5, <1>6, <1>7, <1>8, <1>9 DEF Next, monitor_write_char

LEMMA Inductive == Spec => []IInv
  BY TypeInit, TypeStep, PTL DEF Spec

\* The cursor never leaves the rows of the screen (monitor.c:58 is the only
\* test), for a screen of any size, tabs beyond the last column and blanks
\* that wrap and scroll inside a backspace included.
THEOREM RowAlwaysOnScreen == Spec => []RowOnScreen
  <1>1. IInv => RowOnScreen
    BY DEF IInv
  <1> QED
    BY <1>1, Inductive, PTL

-----------------------------------------------------------------------------
(* The sheet: what scrolling and writing a cell do to it. *)

SheetOf(mem, gone) == [j \in 1 .. Len(gone) + H |->
                          IF j <= Len(gone) THEN gone[j] ELSE RowOf(mem, j - Len(gone) - 1)]

LEMMA SheetHere == Sheet = SheetOf(video_memory, above)
  BY DEF Sheet, SheetOf

LEMMA SheetType ==
    ASSUME NEW mem \in [Memory -> Cells], NEW gone \in Seq(Row)
    PROVE  SheetOf(mem, gone) \in Seq(Row) /\ Len(SheetOf(mem, gone)) = Len(gone) + H
  <1>1. Len(gone) + H \in Nat
    BY Sizes
  <1>2. ASSUME NEW j \in 1 .. Len(gone) + H
        PROVE  (IF j <= Len(gone) THEN gone[j] ELSE RowOf(mem, j - Len(gone) - 1)) \in Row
    <2>1. CASE j <= Len(gone)
      BY <2>1
    <2>2. CASE ~(j <= Len(gone))
      <3>1. j - Len(gone) - 1 \in 0 .. H - 1
        BY <2>2, Sizes
      <3> QED
        BY <2>2, <3>1, RowType
    <2> QED
      BY <2>1, <2>2
  <1> QED
    BY <1>1, <1>2 DEF SheetOf

LEMMA RowScrolled ==
    ASSUME NEW mem, NEW y \in 0 .. H - 1
    PROVE  RowOf(Scrolled(mem), y) = IF y < H - 1 THEN RowOf(mem, y + 1) ELSE P!BlankRow
  <1>1. ASSUME NEW c \in 0 .. W - 1
        PROVE  Scrolled(mem)[y * W + c] = IF y < H - 1 THEN mem[(y + 1) * W + c]
                                          ELSE color_character(Blank)
    <2>1. /\ y * W + c \in Memory /\ y * W + c < H * W
          /\ y < H - 1 => y * W + c < (H - 1) * W
          /\ y = H - 1 => ~(y * W + c < (H - 1) * W)
      <3>1. y * W + c \in 0 .. H * W - 1
        BY CellPlace
      <3>2. (H - 1) * W \in Int /\ y * W + c \in Int /\ H * W \in Int
        BY Sizes
      <3> QED
        BY CellPlace, <3>1, <3>2
    <2>2. (y * W + c) + W = (y + 1) * W + c
      BY NextRow, Sizes
    <2>3. y < H - 1 \/ y = H - 1
      BY Sizes
    <2> QED
      BY <2>1, <2>2, <2>3, ScrolledCell
  <1>2. CASE y < H - 1
    BY <1>1, <1>2 DEF RowOf
  <1>3. CASE ~(y < H - 1)
    BY <1>1, <1>3 DEF RowOf, P!BlankRow, P!Cell, color_character
  <1> QED
    BY <1>2, <1>3

\* Scrolling adds a blank row to the sheet and changes nothing on it.
LEMMA ScrollSheet ==
    ASSUME IInv, NEW mem \in [Memory -> Cells], NEW gone \in Seq(Row)
    PROVE  SheetOf(Scrolled(mem), Append(gone, RowOf(mem, 0)))
             = Append(SheetOf(mem, gone), P!BlankRow)
  <1> DEFINE n     == Len(gone)
             now   == Append(gone, RowOf(mem, 0))
             left  == SheetOf(Scrolled(mem), now)
             right == Append(SheetOf(mem, gone), P!BlankRow)
  <1>1. RowOf(mem, 0) \in Row
    BY RowType, Sizes
  <1>2. n \in Nat /\ Len(now) = n + 1 /\ now \in Seq(Row)
    BY <1>1
  <1>3. left \in Seq(Row) /\ Len(left) = n + 1 + H
    <2>1. Scrolled(mem) \in [Memory -> Cells]
      BY ScrolledType
    <2> HIDE DEF now
    <2> QED
      BY <2>1, <1>2, SheetType
  <1>4. SheetOf(mem, gone) \in Seq(Row) /\ Len(SheetOf(mem, gone)) = n + H
    BY SheetType
  <1>5. P!BlankRow \in Row
    <2>1. P!Cell(Blank) \in Cells
      BY CellType, MonitorAssumption DEF P!Cell, color_character
    <2> QED
      BY <2>1 DEF P!BlankRow, Row
  <1>6. /\ right \in Seq(Row) /\ Len(right) = n + 1 + H
        /\ \A j \in 1 .. n + H : right[j] = SheetOf(mem, gone)[j]
        /\ right[n + 1 + H] = P!BlankRow
    <2> DEFINE old == SheetOf(mem, gone)
               new == P!BlankRow
    <2>1. old \in Seq(Row) /\ Len(old) = n + H /\ new \in Row
      BY <1>4, <1>5
    <2> HIDE DEF old, new
    <2>2. /\ Append(old, new) \in Seq(Row) /\ Len(Append(old, new)) = Len(old) + 1
          /\ \A j \in 1 .. Len(old) : Append(old, new)[j] = old[j]
          /\ Append(old, new)[Len(old) + 1] = new
      BY <2>1, AppendProperties
    <2>3. (n + H) + 1 = n + 1 + H
      BY <1>2, Sizes
    <2> QED
      BY <2>1, <2>2, <2>3 DEF old, new
  <1>7. ASSUME NEW j \in 1 .. n + 1 + H PROVE left[j] = right[j]
    <2>1. left[j] = IF j <= n + 1 THEN now[j] ELSE RowOf(Scrolled(mem), j - (n + 1) - 1)
      BY <1>2, <1>3 DEF SheetOf
    <2>2. j <= n + H => right[j] = IF j <= n THEN gone[j] ELSE RowOf(mem, j - n - 1)
      <3>1. j <= n + H => right[j] = SheetOf(mem, gone)[j]
        BY <1>2, <1>6, Sizes
      <3>2. j <= n + H => SheetOf(mem, gone)[j] = IF j <= n THEN gone[j] ELSE RowOf(mem, j - n - 1)
        BY <1>2, Sizes DEF SheetOf
      <3> QED
        BY <3>1, <3>2
    <2> HIDE DEF left, right
    <2>3. CASE j <= n
      <3>1. now[j] = gone[j]
        BY <1>1, <1>2, <2>3
      <3> QED
        BY <1>2, <2>1, <2>2, <2>3, <3>1, Sizes
    <2>4. CASE j = n + 1
      <3>1. now[j] = RowOf(mem, 0) /\ j - n - 1 = 0
        BY <1>1, <1>2, <2>4
      <3>2. j <= n + H /\ ~(j <= n) /\ j <= n + 1
        BY <1>2, <2>4, Sizes
      <3> QED
        BY <2>1, <2>2, <3>1, <3>2
    <2>5. CASE j > n + 1
      <3> DEFINE y == j - (n + 1) - 1
      <3>1. /\ y \in 0 .. H - 1 /\ y + 1 = j - n - 1
            /\ y < H - 1 <=> j <= n + H
            /\ ~(y < H - 1) <=> j = n + 1 + H
        BY <1>2, <2>5, Sizes
      <3>2. left[j] = RowOf(Scrolled(mem), y)
        BY <1>2, <2>1, <2>5
      <3> HIDE DEF y
      <3>3. RowOf(Scrolled(mem), y) = IF y < H - 1 THEN RowOf(mem, y + 1) ELSE P!BlankRow
        BY <3>1, RowScrolled
      <3>4. j <= n + H => right[j] = RowOf(mem, y + 1)
        BY <1>2, <2>2, <2>5, <3>1
      <3> QED
        BY <1>6, <3>1, <3>2, <3>3, <3>4
    <2>6. j <= n \/ j = n + 1 \/ j > n + 1
      BY <1>2, Sizes
    <2> QED
      BY <2>3, <2>4, <2>5, <2>6
  <1> HIDE DEF left, right
  <1>8. left = right
    BY <1>3, <1>6, <1>7, SeqEqual
  <1> QED
    BY <1>8 DEF left, right

Stored(mem, x, y, v)      == [mem EXCEPT ![x + y * W] = v]
Rewritten(paper, j, x, v) == [paper EXCEPT ![j][x] = v]

\* Writing a cell of the screen changes one cell of one row of the sheet.
LEMMA CellOnSheet ==
    ASSUME NEW mem \in [Memory -> Cells], NEW gone \in Seq(Row), NEW v,
           NEW x \in 0 .. W - 1, NEW y \in 0 .. H - 1
    PROVE  SheetOf(Stored(mem, x, y, v), gone)
             = Rewritten(SheetOf(mem, gone), Len(gone) + y + 1, x, v)
  <1> DEFINE n   == Len(gone)
             new == [mem EXCEPT ![x + y * W] = v]
             old == SheetOf(mem, gone)
  <1>1. n \in Nat
    OBVIOUS
  <1>2. ASSUME NEW z \in 0 .. H - 1
        PROVE  RowOf(new, z) = IF z = y THEN [RowOf(mem, z) EXCEPT ![x] = v] ELSE RowOf(mem, z)
    <2>1. ASSUME NEW c \in 0 .. W - 1
          PROVE  new[z * W + c] = IF z = y /\ c = x THEN v ELSE mem[z * W + c]
      <3>1. z * W + c \in Memory /\ y * W + x \in Memory
        BY CellPlace
      <3>2. x + y * W = y * W + x
        BY Sizes
      <3>3. z * W + c = y * W + x => z = y /\ c = x
        BY OneCell
      <3> QED
        BY <3>1, <3>2, <3>3
    <2> HIDE DEF new
    <2> QED
      BY <2>1 DEF RowOf
  <1> HIDE DEF new
  <1>3. ASSUME NEW j \in 1 .. n + H
        PROVE  (IF j <= n THEN gone[j] ELSE RowOf(new, j - n - 1))
                 = IF j = n + y + 1 THEN [old[j] EXCEPT ![x] = v] ELSE old[j]
    <2>1. old[j] = IF j <= n THEN gone[j] ELSE RowOf(mem, j - n - 1)
      BY DEF SheetOf
    <2> HIDE DEF old
    <2>2. CASE j <= n
      BY <1>1, <2>1, <2>2, Sizes
    <2>3. CASE ~(j <= n)
      <3>1. j - n - 1 \in 0 .. H - 1 /\ (j - n - 1 = y <=> j = n + y + 1)
        BY <1>1, <2>3, Sizes
      <3> QED
        BY <1>2, <2>1, <2>3, <3>1
    <2> QED
      BY <2>2, <2>3
  <1>4. n + y + 1 \in 1 .. n + H
    BY <1>1, Sizes
  <1>5. DOMAIN old = 1 .. n + H
    BY DEF SheetOf
  <1>6. SheetOf(new, gone) = [j \in 1 .. n + H |->
            IF j <= n THEN gone[j] ELSE RowOf(new, j - n - 1)]
    BY DEF SheetOf
  <1> HIDE DEF old
  <1>7. SheetOf(new, gone) = [j \in 1 .. n + H |->
            IF j = n + y + 1 THEN [old[j] EXCEPT ![x] = v] ELSE old[j]]
    BY <1>3, <1>6
  <1>8. [old EXCEPT ![n + y + 1][x] = v]
          = [j \in 1 .. n + H |-> IF j = n + y + 1 THEN [old[j] EXCEPT ![x] = v] ELSE old[j]]
    BY <1>5
  <1> QED
    BY <1>7, <1>8 DEF old, new, Stored, Rewritten

-----------------------------------------------------------------------------
(* The refinement: each case of monitor_write_char is an operation of the  *)
(* paper.                                                                  *)

\* What a write shows: the cursor where it was left, counted in rows of the
\* sheet, and a row more when it was below the screen.
LEMMA Shown ==
    ASSUME IInv, NEW s \in States, Show(s)
    PROVE  /\ cursor_x' = s.x
           /\ Len(above') + cursor_y' + 1 = Len(s.above) + s.y + 1
           /\ Sheet' = IF s.y = H THEN Append(SheetOf(s.mem, s.above), P!BlankRow)
                       ELSE SheetOf(s.mem, s.above)
           /\ colour' = colour
  <1>1. Sheet' = SheetOf(video_memory', above')
    BY DEF Sheet, SheetOf, RowOf
  <1>2. s.y \in 0 .. H /\ s.above \in Seq(Row) /\ s.mem \in [Memory -> Cells]
    BY DEF States
  <1>3. CASE s.y < H
    <2>1. cursor_x' = s.x /\ cursor_y' = s.y /\ video_memory' = s.mem /\ above' = s.above
      BY <1>3, ScrollIs DEF Show
    <2> QED
      BY <1>1, <1>2, <1>3, <2>1, Sizes DEF Show
  <1>4. CASE s.y = H
    <2>1. scroll(s) = Cursor(s.x, H - 1, Scrolled(s.mem), Append(s.above, RowOf(s.mem, 0)))
      BY <1>2, <1>4, ScrollIs, Sizes
    <2>2. /\ cursor_x' = s.x /\ cursor_y' = H - 1 /\ video_memory' = Scrolled(s.mem)
          /\ above' = Append(s.above, RowOf(s.mem, 0))
      BY <2>1 DEF Show, Cursor
    <2>3. RowOf(s.mem, 0) \in Row
      BY <1>2, RowType, Sizes
    <2>4. Len(above') = Len(s.above) + 1
      BY <1>2, <2>2, <2>3
    <2>5. Sheet' = Append(SheetOf(s.mem, s.above), P!BlankRow)
      BY <1>1, <1>2, <2>2, ScrollSheet
    <2>6. Len(above') + cursor_y' + 1 = Len(s.above) + s.y + 1
      <3>1. Len(s.above) \in Nat
        BY <1>2
      <3> QED
        BY <1>4, <2>2, <2>4, <3>1, Sizes
    <2>7. colour' = colour
      BY DEF Show
    <2> QED
      BY <1>4, <2>2, <2>5, <2>6, <2>7
  <1> QED
    BY <1>2, <1>3, <1>4, Sizes

LEMMA HereIs == /\ Here.x = cursor_x /\ Here.y = cursor_y
                /\ Here.mem = video_memory /\ Here.above = above
  BY DEF Here, Cursor

LEMMA InScreen ==
    ASSUME IInv, OnScreen
    PROVE  /\ cursor_x \in 0 .. W - 1 /\ cursor_y \in 0 .. H - 1
           /\ video_memory \in [Memory -> Cells] /\ above \in Seq(Row)
           /\ Len(above) \in Nat
           /\ Sheet \in Seq(Row) /\ Len(Sheet) = Len(above) + H
  <1>1. cursor_x \in 0 .. W - 1 /\ cursor_y \in 0 .. H - 1
    BY Sizes DEF IInv, TypeOK, RowOnScreen, OnScreen
  <1>2. video_memory \in [Memory -> Cells] /\ above \in Seq(Row)
    BY DEF IInv, TypeOK, Row
  <1> QED
    BY <1>1, <1>2, SheetType, SheetHere

LEMMA Small == ASSUME NEW a \in Nat, a < BYTE PROVE a % BYTE = a
  BY Sizes

LEMMA SameCell == ASSUME NEW c PROVE P!Cell(c) = color_character(c)
  BY DEF P!Cell, color_character

LEMMA DefaultIsType ==
    ASSUME IInv, OnScreen, NEW c \in Chars, Default(c)
    PROVE  P!Type(c)
  <1> DEFINE paper == [Sheet EXCEPT ![Len(above) + cursor_y + 1][cursor_x] = P!Cell(c)]
             mem   == [video_memory EXCEPT ![cursor_x + cursor_y * W] = color_character(c)]
             s     == Put(Here, c)
  <1>1. s \in States
    BY HereType, PutType
  <1>2. SheetOf(mem, above) = paper
    <2> DEFINE v == color_character(c)
    <2>1. P!Cell(c) = v
      BY SameCell
    <2> HIDE DEF v
    <2>2. SheetOf(Stored(video_memory, cursor_x, cursor_y, v), above)
            = Rewritten(SheetOf(video_memory, above), Len(above) + cursor_y + 1, cursor_x, v)
      <3>1. /\ video_memory \in [Memory -> Cells] /\ above \in Seq(Row)
            /\ cursor_x \in 0 .. W - 1 /\ cursor_y \in 0 .. H - 1
        BY InScreen
      <3> QED
        BY <3>1, CellOnSheet
    <2> QED
      BY <2>1, <2>2, SheetHere DEF v, Stored, Rewritten
  <1>3. (cursor_x + 1) % BYTE = cursor_x + 1
    <2>1. cursor_x + 1 \in Nat /\ cursor_x + 1 < BYTE
      BY InScreen, Sizes
    <2> QED
      BY <2>1, Small
  <1>4. s = IF cursor_x + 1 = W THEN Cursor(0, cursor_y + 1, mem, above)
                               ELSE Cursor(cursor_x + 1, cursor_y, mem, above)
    BY <1>3, HereIs DEF Put
  <1>5. Show(s)
    BY DEF Default
  <1> HIDE DEF s, mem, paper
  <1>6. /\ cursor_x' = s.x /\ Len(above') + cursor_y' + 1 = Len(s.above) + s.y + 1
        /\ Sheet' = IF s.y = H THEN Append(SheetOf(s.mem, s.above), P!BlankRow)
                    ELSE SheetOf(s.mem, s.above)
        /\ colour' = colour
    BY <1>1, <1>5, Shown
  <1>7. CASE cursor_x = W - 1
    <2>1. s.x = 0 /\ s.y = cursor_y + 1 /\ s.mem = mem /\ s.above = above
      BY <1>4, <1>7, Sizes DEF Cursor
    <2>2. s.y = H <=> Len(above) + cursor_y + 1 = Len(Sheet)
      BY <2>1, InScreen, Sizes
    <2>3. Len(above') + cursor_y' + 1 = Len(above) + cursor_y + 1 + 1
      BY <1>6, <2>1, InScreen, Sizes
    <2>4. Sheet' = IF Len(above) + cursor_y + 1 = Len(Sheet) THEN Append(paper, P!BlankRow)
                   ELSE paper
      BY <1>2, <1>6, <2>1, <2>2
    <2> QED
      BY <1>6, <1>7, <2>1, <2>3, <2>4 DEF P!Type, P!FeedTo, paper
  <1>8. CASE cursor_x # W - 1
    <2>1. s.x = cursor_x + 1 /\ s.y = cursor_y /\ s.mem = mem /\ s.above = above
      BY <1>4, <1>8, InScreen, Sizes DEF Cursor
    <2>2. s.y # H
      BY <2>1, InScreen, Sizes
    <2>3. Sheet' = paper /\ Len(above') + cursor_y' + 1 = Len(above) + cursor_y + 1
      BY <1>2, <1>6, <2>1, <2>2
    <2> QED
      BY <1>6, <1>8, <2>1, <2>3 DEF P!Type, paper
  <1> QED
    BY <1>7, <1>8

LEMMA BackspaceIsBack ==
    ASSUME IInv, OnScreen, Backspace
    PROVE  P!Back
  <1>1. CASE cursor_x = 0
    <2>1. Show(Here) /\ Here \in States /\ Here.y # H
      BY <1>1, HereType, HereIs, InScreen, Sizes DEF Backspace
    <2>2. /\ cursor_x' = cursor_x /\ Len(above') + cursor_y' + 1 = Len(above) + cursor_y + 1
          /\ Sheet' = Sheet /\ colour' = colour
      BY <2>1, Shown, HereIs, SheetHere
    <2> QED
      BY <1>1, <2>2 DEF P!Back
  <1>2. CASE cursor_x # 0
    <2> DEFINE x == cursor_x - 1
               r == [Here EXCEPT !.x = x]
               mem == [video_memory EXCEPT ![x + cursor_y * W] = color_character(Blank)]
               t == Cursor(x, cursor_y, mem, above)
    <2>1. x \in 0 .. W - 1 /\ x \in 0 .. BYTE - 1 /\ x + 1 = cursor_x
      BY <1>2, InScreen, Sizes
    <2>2. r \in States /\ r.x = x /\ r.y = cursor_y /\ r.mem = video_memory /\ r.above = above
      BY <2>1, HereType, HereIs, Zenon DEF States, Here, Cursor
    <2> HIDE DEF x
    <2>3. (x + 1) % BYTE = cursor_x /\ cursor_x # W
      <3>1. cursor_x \in Nat /\ cursor_x < BYTE /\ cursor_x # W
        BY InScreen, Sizes
      <3> QED
        BY <2>1, <3>1, Small
    <2>4. Put(r, Blank) = Cursor(cursor_x, cursor_y, mem, above)
      <3> HIDE DEF r
      <3> QED
        BY <2>2, <2>3 DEF Put
    <2>5. Put(r, Blank) \in States
      <3> HIDE DEF r
      <3>1. r.y < H
        BY <2>2, InScreen, Sizes
      <3> QED
        BY <2>2, <3>1, PutType, MonitorAssumption
    <2>6. Cursor(cursor_x, cursor_y, mem, above).y < H
      BY InScreen, Sizes DEF Cursor
    <2>7. scroll(Put(r, Blank)) = Cursor(cursor_x, cursor_y, mem, above)
      BY <2>4, <2>5, <2>6, ScrollIs
    <2>8. set_pos(r, Blank) = t
      <3> HIDE DEF r
      <3> QED
        BY <2>2, <2>7 DEF set_pos, Cursor
    <2>9. t \in States /\ Show(t)
      <3>1. t \in States
        <4> HIDE DEF r, t
        <4>1. r.y < H
          BY <2>2, InScreen, Sizes
        <4> QED
          BY <2>2, <2>8, <4>1, SetPosType
      <3> QED
        BY <1>2, <2>8, <3>1 DEF Backspace, x
    <2>10. t.x = x /\ t.y = cursor_y /\ t.mem = mem /\ t.above = above /\ t.y # H
      BY InScreen, Sizes DEF Cursor
    <2>11. SheetOf(mem, above) = [Sheet EXCEPT ![Len(above) + cursor_y + 1][x] = P!Cell(Blank)]
      <3> DEFINE v == color_character(Blank)
      <3>1. P!Cell(Blank) = v
        BY SameCell
      <3> HIDE DEF v
      <3>2. SheetOf(Stored(video_memory, x, cursor_y, v), above)
              = Rewritten(SheetOf(video_memory, above), Len(above) + cursor_y + 1, x, v)
        <4>1. /\ video_memory \in [Memory -> Cells] /\ above \in Seq(Row)
              /\ x \in 0 .. W - 1 /\ cursor_y \in 0 .. H - 1
          BY <2>1, InScreen
        <4> QED
          BY <4>1, CellOnSheet
      <3> QED
        BY <3>1, <3>2, SheetHere DEF v, Stored, Rewritten
    <2> HIDE DEF t, mem, r
    <2>12. /\ cursor_x' = x /\ Len(above') + cursor_y' + 1 = Len(above) + cursor_y + 1
           /\ Sheet' = SheetOf(mem, above) /\ colour' = colour
      BY <2>9, <2>10, Shown
    <2> QED
      BY <1>2, <2>11, <2>12 DEF P!Back, x
  <1> QED
    BY <1>1, <1>2

LEMMA TabIsTab ==
    ASSUME IInv, OnScreen, OnScreen', Tab
    PROVE  P!Tab
  <1> DEFINE x == (cursor_x + TAB - ((cursor_x + TAB) % TAB)) % BYTE
             s == [Here EXCEPT !.x = x]
  <1>1. x = cursor_x + TAB - ((cursor_x + TAB) % TAB) /\ x \in 0 .. BYTE - 1
    <2> DEFINE stop == cursor_x + TAB - ((cursor_x + TAB) % TAB)
    <2>1. cursor_x \in Nat /\ cursor_x < W
      BY InScreen, Sizes
    <2>2. (cursor_x + TAB) % TAB \in 0 .. TAB - 1
      BY <2>1, Sizes
    <2>3. stop \in Nat /\ stop < BYTE
      BY <2>1, <2>2, Sizes
    <2> HIDE DEF stop
    <2>4. stop % BYTE = stop
      BY <2>3, Small
    <2>5. stop \in 0 .. BYTE - 1
      BY <2>3, Sizes
    <2> QED
      BY <2>4, <2>5 DEF stop
  <1> HIDE DEF x
  <1>2. s \in States /\ s.x = x /\ s.y = cursor_y /\ s.mem = video_memory /\ s.above = above
    BY <1>1, HereType, HereIs, Zenon DEF States, Here, Cursor
  <1>3. Show(s)
    BY DEF Tab, x
  <1> HIDE DEF s
  <1>4. s.y # H
    BY <1>2, InScreen, Sizes
  <1>5. /\ cursor_x' = x /\ Len(above') + cursor_y' + 1 = Len(above) + cursor_y + 1
        /\ Sheet' = Sheet /\ colour' = colour
    BY <1>2, <1>3, <1>4, Shown, SheetHere
  <1>6. cursor_x' < W
    BY DEF OnScreen
  <1> QED
    BY <1>1, <1>5, <1>6 DEF P!Tab

LEMMA CarriageReturnIsReturn ==
    ASSUME IInv, OnScreen, CarriageReturn
    PROVE  P!Return
  <1> DEFINE s == [Here EXCEPT !.x = 0]
  <1>1. 0 \in 0 .. BYTE - 1
    BY Sizes
  <1>2. s \in States /\ s.x = 0 /\ s.y = cursor_y /\ s.mem = video_memory /\ s.above = above
    BY <1>1, HereType, HereIs, Zenon DEF States, Here, Cursor
  <1>3. Show(s)
    BY DEF CarriageReturn
  <1> HIDE DEF s
  <1>4. s.y # H
    BY <1>2, InScreen, Sizes
  <1>5. /\ cursor_x' = 0 /\ Len(above') + cursor_y' + 1 = Len(above) + cursor_y + 1
        /\ Sheet' = Sheet /\ colour' = colour
    BY <1>2, <1>3, <1>4, Shown, SheetHere
  <1> QED
    BY <1>5 DEF P!Return

LEMMA NewlineIsFeed ==
    ASSUME IInv, OnScreen, Newline
    PROVE  P!Feed
  <1> DEFINE s == [Here EXCEPT !.x = 0, !.y = cursor_y + 1]
  <1>1. 0 \in 0 .. BYTE - 1 /\ cursor_y + 1 \in 0 .. H
    BY InScreen, Sizes
  <1>2. s \in States /\ s.x = 0 /\ s.y = cursor_y + 1 /\ s.mem = video_memory /\ s.above = above
    BY <1>1, HereType, HereIs, Zenon DEF States, Here, Cursor
  <1>3. Show(s)
    BY DEF Newline
  <1> HIDE DEF s
  <1>4. s.y = H <=> Len(above) + cursor_y + 1 = Len(Sheet)
    <2>1. PICK n, y : n = Len(above) /\ y = cursor_y
      OBVIOUS
    <2>2. n \in Nat /\ y \in 0 .. H - 1 /\ H \in Nat /\ Len(Sheet) = n + H
      BY <2>1, InScreen, Sizes
    <2> QED
      BY <1>2, <2>1, <2>2
  <1>5. /\ cursor_x' = 0 /\ Len(above') + cursor_y' + 1 = Len(above) + (cursor_y + 1) + 1
        /\ Sheet' = (IF s.y = H THEN Append(Sheet, P!BlankRow) ELSE Sheet) /\ colour' = colour
    BY <1>2, <1>3, Shown, SheetHere
  <1>6. Len(above) + (cursor_y + 1) + 1 = Len(above) + cursor_y + 1 + 1
    BY InScreen, Sizes
  <1> QED
    BY <1>4, <1>5, <1>6 DEF P!Feed, P!FeedTo

LEMMA SetColourIsDip ==
    ASSUME IInv, SetColour
    PROVE  P!Dip
  <1>1. Sheet' = Sheet
    BY DEF SetColour, Sheet, RowOf
  <1> QED
    BY <1>1 DEF SetColour, P!Dip

\* The first screen is a sheet of H blank rows with the pen at its start.
LEMMA InitIsPaper == Init => P!PaperInit
  <1> SUFFICES ASSUME Init PROVE P!PaperInit
    OBVIOUS
  <1>1. Len(above) = 0 /\ cursor_x = 0 /\ cursor_y = 0 /\ colour = White
    BY DEF Init
  <1>2. ASSUME NEW y \in 0 .. H - 1 PROVE RowOf(video_memory, y) = P!BlankRow
    <2>1. ASSUME NEW c \in 0 .. W - 1 PROVE video_memory[y * W + c] = P!Cell(Blank)
      BY <1>1, CellPlace DEF Init, P!Cell
    <2> QED
      BY <2>1 DEF RowOf, P!BlankRow
  <1>3. ASSUME NEW j \in 1 .. H
        PROVE  (IF j <= 0 THEN above[j] ELSE RowOf(video_memory, j - 0 - 1)) = P!BlankRow
    <2>1. j - 0 - 1 \in 0 .. H - 1 /\ ~(j <= 0)
      BY Sizes
    <2> QED
      BY <1>2, <2>1
  <1>4. Sheet = [j \in 1 .. H |-> P!BlankRow]
    <2>1. Sheet = [j \in 1 .. 0 + H |->
                     IF j <= 0 THEN above[j] ELSE RowOf(video_memory, j - 0 - 1)]
      BY <1>1 DEF Sheet
    <2>2. 0 + H = H
      BY Sizes
    <2> QED
      BY <1>3, <2>1, <2>2
  <1>5. Len(above) + cursor_y + 1 = 1
    BY <1>1
  <1> QED
    BY <1>1, <1>4, <1>5 DEF P!PaperInit

\* As long as no tab takes the cursor out of the columns, the screen is a
\* window on a sheet of paper, for a screen of any size and any tab distance
\* that divides its width: monitor.c wraps, scrolls and rubs out without losing
\* a character or putting one where it does not belong.
THEOREM ScreenIsWindow == Spec => ImplementsPaper
  <1>1. ASSUME IInv, Next, OnScreen, OnScreen' PROVE P!PaperNext
    <2>1. ASSUME NEW c \in Chars, Default(c) PROVE P!PaperNext
      BY <1>1, <2>1, DefaultIsType DEF P!PaperNext
    <2>2. CASE Backspace
      BY <1>1, <2>2, BackspaceIsBack DEF P!PaperNext
    <2>3. CASE Tab
      BY <1>1, <2>3, TabIsTab DEF P!PaperNext
    <2>4. CASE CarriageReturn
      BY <1>1, <2>4, CarriageReturnIsReturn DEF P!PaperNext
    <2>5. CASE Newline
      BY <1>1, <2>5, NewlineIsFeed DEF P!PaperNext
    <2>6. CASE SetColour
      BY <1>1, <2>6, SetColourIsDip DEF P!PaperNext
    <2> QED
      BY <1>1, <2>1, <2>2, <2>3, <2>4, <2>5, <2>6 DEF Next, monitor_write_char
  <1>2. IInv /\ [Next]_vars => [OnScreen /\ OnScreen' => P!PaperNext]_vars
    BY <1>1
  <1> QED
    BY <1>2, InitIsPaper, Inductive, PTL DEF Spec, ImplementsPaper

-----------------------------------------------------------------------------
(* The keyboard: the driver over the bytes in the controller. *)

Typeable == Codes \union {Shifted[c] : c \in Codes}
Bytes    == [code : Codes \union {NUL}, up : BOOLEAN]
CodeSets == SUBSET (Codes \union {NUL})

KeyboardTypes == /\ down \subseteq Keys
                 /\ wire \in Seq(Bytes) /\ port \in Bytes
                 /\ keys \in CodeSets
                 /\ is_scanning \in BOOLEAN /\ lost \in BOOLEAN /\ clash \in BOOLEAN
                 /\ typed \in Seq(Typeable) /\ delivered \in Seq(Typeable)

\* What reading byte b makes of the codes that are down, and whether it is a character.
After(ks, b) == IF b.up THEN ks \ {b.code} ELSE ks \union {b.code}
Fresh(ks, b) == ~b.up /\ b.code \notin ks /\ is_code_valid(b.code)

\* K and N are what the driver will make of the bytes in w: K[n] the codes that are
\* down, N[n] the characters delivered when n of them are read.
Run(K, N, w, text) ==
    /\ K \in [0 .. Len(w) -> CodeSets]
    /\ N \in [0 .. Len(w) -> 0 .. Len(text)]
    /\ \A n \in 1 .. Len(w) :
           /\ K[n] = After(K[n - 1], w[n])
           /\ Fresh(K[n - 1], w[n]) => /\ N[n] = N[n - 1] + 1
                                       /\ text[N[n]] = Translated(w[n].code, K[n])
           /\ ~Fresh(K[n - 1], w[n]) => N[n] = N[n - 1]

\* What has been typed and not been read is in the controller.
Pending == \E K, N : /\ Run(K, N, wire, typed)
                     /\ K[0] = keys /\ K[Len(wire)] = DownCodes(down)
                     /\ N[0] = Len(delivered) /\ N[Len(wire)] = Len(typed)

Delivered == /\ Len(delivered) <= Len(typed)
             /\ \A m \in 1 .. Len(delivered) : delivered[m] = typed[m]

\* No two keys with one entry are down.
OneCode == \A k, l \in down : Code[k] = Code[l] => k = l

\* Reading the port again changes nothing.
PortSeen == port.code \in keys <=> ~port.up

KeyboardInv == /\ KeyboardTypes /\ PortSeen
               /\ Reliable => Pending /\ Delivered /\ OneCode

\* What a byte makes of the codes that are down.
LEMMA AfterIs ==
    ASSUME NEW ks \in CodeSets, NEW b \in Bytes
    PROVE  /\ After(ks, b) \in CodeSets
           /\ b.code \in After(ks, b) <=> ~b.up
           /\ b.code \in Codes \union {NUL} /\ b.up \in BOOLEAN
  BY DEF After, Bytes, CodeSets

\* A byte is added behind the others.
LEMMA RunAppend ==
    ASSUME NEW w \in Seq(Bytes), NEW b \in Bytes,
           NEW text \in Seq(Typeable), NEW longer \in Seq(Typeable),
           NEW K, NEW N, Run(K, N, w, text), N[Len(w)] = Len(text),
           Fresh(K[Len(w)], b)
               => longer = Append(text, Translated(b.code, After(K[Len(w)], b))),
           ~Fresh(K[Len(w)], b) => longer = text
    PROVE  \E L, M : /\ Run(L, M, Append(w, b), longer)
                     /\ L[0] = K[0] /\ L[Len(Append(w, b))] = After(K[Len(w)], b)
                     /\ M[0] = N[0] /\ M[Len(Append(w, b))] = Len(longer)
  <1>1. PICK z : z = Len(w) /\ z \in Nat
    OBVIOUS
  <1>2. PICK long : long = Append(w, b)
    OBVIOUS
  <1>3. Len(long) = z + 1 /\ long[z + 1] = b /\ \A n \in 1 .. z : long[n] = w[n]
    BY <1>1, <1>2
  <1>4. /\ Len(text) \in Nat /\ Len(longer) \in Nat /\ Len(text) <= Len(longer)
        /\ \A m \in 1 .. Len(text) : longer[m] = text[m]
        /\ Fresh(K[z], b) => /\ Len(longer) = Len(text) + 1
                             /\ longer[Len(longer)] = Translated(b.code, After(K[z], b))
        /\ ~Fresh(K[z], b) => Len(longer) = Len(text)
    <2>1. CASE Fresh(K[z], b)
      <3>1. PICK c : c = Translated(b.code, After(K[z], b)) /\ longer = Append(text, c)
        BY <1>1, <2>1
      <3> QED
        BY <2>1, <3>1
    <2>2. CASE ~Fresh(K[z], b)
      BY <1>1, <2>2
    <2> QED
      BY <2>1, <2>2
  <1> DEFINE L == [n \in 0 .. z + 1 |-> IF n <= z THEN K[n] ELSE After(K[z], b)]
             M == [n \in 0 .. z + 1 |-> IF n <= z THEN N[n] ELSE Len(longer)]
  <1>5. /\ \A n \in 0 .. z : K[n] \in CodeSets /\ N[n] \in 0 .. Len(text)
        /\ After(K[z], b) \in CodeSets
    <2>1. \A n \in 0 .. z : K[n] \in CodeSets /\ N[n] \in 0 .. Len(text)
      BY <1>1 DEF Run
    <2> QED
      BY <1>1, <2>1, AfterIs
  <1>6. L \in [0 .. z + 1 -> CodeSets] /\ M \in [0 .. z + 1 -> 0 .. Len(longer)]
    <2>1. \A n \in 0 .. z + 1 : n <= z \/ n = z + 1
      BY <1>1
    <2>2. \A n \in 0 .. z + 1 : L[n] \in CodeSets
      BY <1>1, <1>5, <2>1
    <2>3. \A n \in 0 .. z + 1 : M[n] \in 0 .. Len(longer)
      BY <1>1, <1>4, <1>5, <2>1
    <2> QED
      BY <2>2, <2>3
  <1>7. /\ \A n \in 0 .. z : L[n] = K[n] /\ M[n] = N[n]
        /\ L[z + 1] = After(K[z], b) /\ M[z + 1] = Len(longer)
    BY <1>1
  <1> HIDE DEF L, M
  <1>8. ASSUME NEW n \in 1 .. z + 1
        PROVE  /\ L[n] = After(L[n - 1], long[n])
               /\ Fresh(L[n - 1], long[n]) => /\ M[n] = M[n - 1] + 1
                                              /\ longer[M[n]] = Translated(long[n].code, L[n])
               /\ ~Fresh(L[n - 1], long[n]) => M[n] = M[n - 1]
    <2>1. CASE n <= z
      <3>1. n \in 1 .. z /\ n \in 0 .. z /\ n - 1 \in 0 .. z
        BY <1>1, <2>1
      <3>2. /\ K[n] = After(K[n - 1], w[n])
            /\ Fresh(K[n - 1], w[n]) => /\ N[n] = N[n - 1] + 1
                                        /\ text[N[n]] = Translated(w[n].code, K[n])
            /\ ~Fresh(K[n - 1], w[n]) => N[n] = N[n - 1]
        BY <1>1, <3>1 DEF Run
      <3>3. N[n] \in 0 .. Len(text) /\ N[n - 1] \in 0 .. Len(text)
        BY <1>5, <3>1
      <3>4. Fresh(K[n - 1], w[n]) => longer[N[n]] = text[N[n]]
        BY <1>4, <3>2, <3>3
      <3>5. L[n] = K[n] /\ L[n - 1] = K[n - 1] /\ M[n] = N[n] /\ M[n - 1] = N[n - 1]
            /\ long[n] = w[n]
        BY <1>3, <1>7, <3>1
      <3> QED
        BY <3>2, <3>4, <3>5
    <2>2. CASE n = z + 1
      <3>1. n - 1 = z /\ z \in 0 .. z
        BY <1>1, <2>2
      <3>2. L[n] = After(K[z], b) /\ L[n - 1] = K[z] /\ M[n] = Len(longer)
            /\ M[n - 1] = Len(text) /\ long[n] = b
        BY <1>1, <1>3, <1>7, <2>2, <3>1
      <3> QED
        BY <1>4, <3>2
    <2> QED
      BY <1>1, <2>1, <2>2
  <1>9. Run(L, M, long, longer)
    BY <1>3, <1>6, <1>8 DEF Run
  <1>10. /\ L[0] = K[0] /\ L[Len(long)] = After(K[z], b)
         /\ M[0] = N[0] /\ M[Len(long)] = Len(longer)
    BY <1>1, <1>3, <1>7
  <1> QED
    BY <1>1, <1>2, <1>9, <1>10

\* The first byte is read.
LEMMA RunTail ==
    ASSUME NEW w \in Seq(Bytes), w # <<>>, NEW text, NEW K, NEW N, Run(K, N, w, text)
    PROVE  \E L, M : /\ Run(L, M, Tail(w), text)
                     /\ L[0] = K[1] /\ L[Len(Tail(w))] = K[Len(w)]
                     /\ M[0] = N[1] /\ M[Len(Tail(w))] = N[Len(w)]
  <1>1. PICK z : z = Len(Tail(w)) /\ z \in Nat /\ Len(w) = z + 1
    BY HeadTailProperties, EmptySeq
  <1>2. PICK rest : rest = Tail(w)
    OBVIOUS
  <1>3. Len(rest) = z /\ \A n \in 1 .. z : rest[n] = w[n + 1]
    BY <1>1, <1>2, HeadTailProperties
  <1> DEFINE L == [n \in 0 .. z |-> K[n + 1]]
             M == [n \in 0 .. z |-> N[n + 1]]
  <1>4. L \in [0 .. z -> CodeSets] /\ M \in [0 .. z -> 0 .. Len(text)]
    BY <1>1 DEF Run
  <1>5. \A n \in 0 .. z : L[n] = K[n + 1] /\ M[n] = N[n + 1]
    OBVIOUS
  <1> HIDE DEF L, M
  <1>6. ASSUME NEW n \in 1 .. z
        PROVE  /\ L[n] = After(L[n - 1], rest[n])
               /\ Fresh(L[n - 1], rest[n]) => /\ M[n] = M[n - 1] + 1
                                              /\ text[M[n]] = Translated(rest[n].code, L[n])
               /\ ~Fresh(L[n - 1], rest[n]) => M[n] = M[n - 1]
    <2>1. n + 1 \in 1 .. Len(w) /\ (n + 1) - 1 = n /\ (n - 1) + 1 = n
          /\ n \in 0 .. z /\ n - 1 \in 0 .. z
      BY <1>1
    <2>2. /\ K[n + 1] = After(K[n], w[n + 1])
          /\ Fresh(K[n], w[n + 1]) => /\ N[n + 1] = N[n] + 1
                                      /\ text[N[n + 1]] = Translated(w[n + 1].code, K[n + 1])
          /\ ~Fresh(K[n], w[n + 1]) => N[n + 1] = N[n]
      BY <2>1 DEF Run
    <2>3. L[n] = K[n + 1] /\ L[n - 1] = K[n] /\ M[n] = N[n + 1] /\ M[n - 1] = N[n]
          /\ rest[n] = w[n + 1]
      BY <1>3, <1>5, <2>1
    <2> QED
      BY <2>2, <2>3
  <1>7. Run(L, M, rest, text)
    BY <1>3, <1>4, <1>6 DEF Run
  <1>8. L[0] = K[1] /\ L[z] = K[Len(w)] /\ M[0] = N[1] /\ M[z] = N[Len(w)]
    BY <1>1, <1>5
  <1> QED
    BY <1>1, <1>2, <1>7, <1>8

-----------------------------------------------------------------------------
(* What a press, a repeat, a release and a scan do to what is pending. *)

\* The byte of a key.
LEMMA KeyCode ==
    ASSUME NEW k \in Keys, NEW up \in BOOLEAN
    PROVE  /\ Code[k] \in Codes /\ Byte(Code[k], up) \in Bytes
           /\ Byte(Code[k], up).code = Code[k] /\ Byte(Code[k], up).up = up
           /\ is_code_valid(Code[k]) <=> Code[k] \notin Silent
  BY KeyboardAssumption DEF Codes, Byte, Bytes, is_code_valid

\* A character that is valid is no shift, and so does not shift itself.
LEMMA OwnShift ==
    ASSUME NEW c \in Codes, NEW held
    PROVE  /\ Translated(c, held) \in Typeable
           /\ c \notin Silent => Translated(c, held \union {c}) = Translated(c, held)
  BY KeyboardAssumption DEF Translated, Typeable

\* The typist's keys have codes.
LEMMA DownIsCodes == ASSUME KeyboardTypes PROVE DownCodes(down) \in CodeSets
  BY DEF KeyboardTypes, DownCodes, Codes, CodeSets

\* What the controller gets is behind what it had.
LEMMA Sent ==
    ASSUME KeyboardTypes, Pending, NEW b \in Bytes, Send(b), ~lost, ~lost',
           typed' \in Seq(Typeable), UNCHANGED <<keys, delivered>>,
           DownCodes(down') = After(DownCodes(down), b),
           Fresh(DownCodes(down), b)
               => typed' = Append(typed, Translated(b.code, After(DownCodes(down), b))),
           ~Fresh(DownCodes(down), b) => typed' = typed
    PROVE  Pending'
  <1>1. wire' = Append(wire, b)
    BY DEF Send
  <1>2. PICK K, N : /\ Run(K, N, wire, typed)
                    /\ K[0] = keys /\ K[Len(wire)] = DownCodes(down)
                    /\ N[0] = Len(delivered) /\ N[Len(wire)] = Len(typed)
    BY DEF Pending
  <1>3. PICK now : now = typed'
    OBVIOUS
  <1>4. \E L, M : /\ Run(L, M, Append(wire, b), now)
                  /\ L[0] = K[0] /\ L[Len(Append(wire, b))] = After(K[Len(wire)], b)
                  /\ M[0] = N[0] /\ M[Len(Append(wire, b))] = Len(now)
    <2>1. now \in Seq(Typeable) /\ wire \in Seq(Bytes) /\ typed \in Seq(Typeable)
      BY <1>3 DEF KeyboardTypes
    <2>2. /\ Fresh(K[Len(wire)], b)
               => now = Append(typed, Translated(b.code, After(K[Len(wire)], b)))
          /\ ~Fresh(K[Len(wire)], b) => now = typed
      BY <1>2, <1>3
    <2> QED
      BY <1>2, <2>1, <2>2, RunAppend
  <1>5. PICK L, M : /\ Run(L, M, wire', typed')
                    /\ L[0] = K[0] /\ L[Len(wire')] = After(K[Len(wire)], b)
                    /\ M[0] = N[0] /\ M[Len(wire')] = Len(typed')
    BY <1>1, <1>3, <1>4
  <1>6. /\ Run(L, M, wire', typed')
        /\ L[0] = keys' /\ L[Len(wire')] = DownCodes(down')
        /\ M[0] = Len(delivered') /\ M[Len(wire')] = Len(typed')
    BY <1>2, <1>5
  <1> QED
    BY <1>6 DEF Pending

\* The driver is not touched by the typist.
LEMMA SentTypes ==
    ASSUME KeyboardInv, NEW b \in Bytes, Send(b), typed' \in Seq(Typeable), down' \subseteq Keys,
           clash' \in BOOLEAN, UNCHANGED <<port, driver, delivered>>
    PROVE  KeyboardTypes' /\ PortSeen' /\ (lost => lost')
  <1>1. wire' \in Seq(Bytes) /\ lost' \in BOOLEAN /\ (lost => lost')
    <2>1. wire \in Seq(Bytes) /\ lost \in BOOLEAN
      BY DEF KeyboardInv, KeyboardTypes
    <2>2. CASE Len(wire) < Depth
      BY <2>1, <2>2 DEF Send
    <2>3. CASE ~(Len(wire) < Depth)
      BY <2>1, <2>3 DEF Send
    <2> QED
      BY <2>2, <2>3
  <1> QED
    BY <1>1 DEF KeyboardInv, KeyboardTypes, PortSeen, driver

\* A press: one character more is typed, and its byte is behind the others.
LEMMA PressStep ==
    ASSUME KeyboardInv, NEW k \in Keys, Press(k)
    PROVE  KeyboardInv'
  <1>1. PICK c, b : c = Code[k] /\ b = Byte(c, FALSE)
    OBVIOUS
  <1>2. /\ c \in Codes /\ b \in Bytes /\ b.code = c /\ b.up = FALSE
        /\ is_code_valid(c) <=> c \notin Silent
    BY <1>1, KeyCode
  <1>3. /\ Send(b) /\ down' = down \union {k} /\ UNCHANGED <<port, driver, delivered>>
        /\ clash' = (clash \/ c \in DownCodes(down))
        /\ c \in Silent => typed' = typed
        /\ c \notin Silent => typed' = Append(typed, Translated(c, DownCodes(down)))
    BY <1>1 DEF Press
  <1>4. KeyboardTypes
    BY DEF KeyboardInv
  <1>5. typed' \in Seq(Typeable)
    <2>1. PICK ch : ch = Translated(c, DownCodes(down)) /\ ch \in Typeable
      BY <1>2, OwnShift
    <2> QED
      BY <1>3, <1>4, <2>1 DEF KeyboardTypes
  <1>6. KeyboardTypes' /\ PortSeen' /\ (lost => lost')
    <2>1. down' \subseteq Keys
      BY <1>3, <1>4 DEF KeyboardTypes
    <2>2. clash' \in BOOLEAN
      BY <1>3, <1>4 DEF KeyboardTypes
    <2> QED
      BY <1>2, <1>3, <1>5, <2>1, <2>2, SentTypes
  <1>7. ASSUME Reliable' PROVE Pending' /\ Delivered' /\ OneCode'
    <2>1. ~lost /\ ~lost' /\ ~clash /\ c \notin DownCodes(down)
      BY <1>3, <1>6, <1>7 DEF Reliable
    <2>2. Pending /\ Delivered /\ OneCode
      BY <2>1 DEF KeyboardInv, Reliable
    <2>3. DownCodes(down') = After(DownCodes(down), b)
      BY <1>1, <1>2, <1>3 DEF DownCodes, After
    <2>4. Fresh(DownCodes(down), b) <=> c \notin Silent
      BY <1>2, <2>1 DEF Fresh
    <2>5. c \notin Silent
            => typed' = Append(typed, Translated(b.code, After(DownCodes(down), b)))
      <3>1. After(DownCodes(down), b) = DownCodes(down) \union {c}
        BY <1>2 DEF After
      <3>2. c \notin Silent
              => Translated(c, DownCodes(down) \union {c}) = Translated(c, DownCodes(down))
        BY <1>2, OwnShift
      <3> QED
        BY <1>2, <1>3, <3>1, <3>2
    <2>6. Pending'
      <3>1. UNCHANGED <<keys, delivered>>
        BY <1>3 DEF driver
      <3> QED
        BY <1>2, <1>3, <1>4, <1>5, <2>1, <2>2, <2>3, <2>4, <2>5, <3>1, Sent
    <2>7. OneCode'
      <3>1. \A l \in down : Code[l] # Code[k]
        BY <1>1, <2>1 DEF DownCodes
      <3> QED
        BY <1>3, <2>2, <3>1 DEF OneCode
    <2>8. Delivered'
      <3>1. CASE typed' = typed
        BY <1>3, <2>2, <3>1 DEF Delivered
      <3>2. ASSUME NEW ch, typed' = Append(typed, ch) PROVE Delivered'
        <4>1. /\ Len(typed') = Len(typed) + 1 /\ Len(typed) \in Nat /\ Len(delivered) \in Nat
              /\ \A m \in 1 .. Len(typed) : typed'[m] = typed[m]
          BY <1>4, <3>2 DEF KeyboardTypes
        <4> QED
          BY <1>3, <2>2, <4>1 DEF Delivered
      <3> QED
        BY <1>3, <3>1, <3>2
    <2> QED
      BY <2>6, <2>7, <2>8
  <1> QED
    BY <1>6, <1>7 DEF KeyboardInv

\* A repeat: its code is down, so the driver will make nothing of it.
LEMMA RepeatStep ==
    ASSUME KeyboardInv, NEW k \in Keys, Repeat(k)
    PROVE  KeyboardInv'
  <1>1. PICK c, b : c = Code[k] /\ b = Byte(c, FALSE)
    OBVIOUS
  <1>2. c \in Codes /\ b \in Bytes /\ b.code = c /\ b.up = FALSE
    BY <1>1, KeyCode
  <1>3. /\ Send(b) /\ UNCHANGED <<down, port, driver, delivered, typed, clash>>
        /\ k \in down
    BY <1>1 DEF Repeat
  <1>4. KeyboardTypes
    BY DEF KeyboardInv
  <1>5. KeyboardTypes' /\ PortSeen' /\ (lost => lost')
    BY <1>2, <1>3, <1>4, SentTypes DEF KeyboardTypes
  <1>6. ASSUME Reliable' PROVE Pending' /\ Delivered' /\ OneCode'
    <2>1. ~lost /\ ~lost' /\ Pending /\ Delivered /\ OneCode
      BY <1>3, <1>5, <1>6 DEF Reliable, KeyboardInv
    <2>2. c \in DownCodes(down)
      BY <1>1, <1>3 DEF DownCodes
    <2>3. DownCodes(down') = After(DownCodes(down), b) /\ ~Fresh(DownCodes(down), b)
      BY <1>2, <1>3, <2>2 DEF After, Fresh
    <2>4. Pending'
      <3>1. UNCHANGED <<keys, delivered>> /\ typed' \in Seq(Typeable) /\ typed' = typed
        BY <1>3, <1>4 DEF driver, KeyboardTypes
      <3> QED
        BY <1>2, <1>3, <1>4, <2>1, <2>3, <3>1, Sent
    <2> QED
      BY <1>3, <2>1, <2>4 DEF Delivered, OneCode
  <1> QED
    BY <1>5, <1>6 DEF KeyboardInv

\* A release: the only key with that code goes up.
LEMMA ReleaseStep ==
    ASSUME KeyboardInv, NEW k \in Keys, Release(k)
    PROVE  KeyboardInv'
  <1>1. PICK c, b : c = Code[k] /\ b = Byte(c, TRUE)
    OBVIOUS
  <1>2. c \in Codes /\ b \in Bytes /\ b.code = c /\ b.up = TRUE
    BY <1>1, KeyCode
  <1>3. /\ Send(b) /\ UNCHANGED <<port, driver, delivered, typed, clash>>
        /\ k \in down /\ down' = down \ {k}
    BY <1>1 DEF Release
  <1>4. KeyboardTypes
    BY DEF KeyboardInv
  <1>5. KeyboardTypes' /\ PortSeen' /\ (lost => lost')
    BY <1>2, <1>3, <1>4, SentTypes DEF KeyboardTypes
  <1>6. ASSUME Reliable' PROVE Pending' /\ Delivered' /\ OneCode'
    <2>1. ~lost /\ ~lost' /\ Pending /\ Delivered /\ OneCode
      BY <1>3, <1>5, <1>6 DEF Reliable, KeyboardInv
    <2>2. DownCodes(down') = DownCodes(down) \ {c}
      BY <1>1, <1>3, <2>1 DEF DownCodes, OneCode
    <2>3. DownCodes(down') = After(DownCodes(down), b) /\ ~Fresh(DownCodes(down), b)
      BY <1>2, <2>2 DEF After, Fresh
    <2>4. Pending'
      <3>1. UNCHANGED <<keys, delivered>> /\ typed' \in Seq(Typeable) /\ typed' = typed
        BY <1>3, <1>4 DEF driver, KeyboardTypes
      <3> QED
        BY <1>2, <1>3, <1>4, <2>1, <2>3, <3>1, Sent
    <2> QED
      BY <1>3, <2>1, <2>4 DEF Delivered, OneCode
  <1> QED
    BY <1>5, <1>6 DEF KeyboardInv

\* Enabling scanning eats what is in the controller; without it the driver reads
\* what the controller has.
Queue == IF is_scanning THEN wire ELSE Enabled
Read  == IF Queue = <<>> THEN port ELSE Head(Queue)

\* What a scan reads, and what it leaves: the answer to a command stands at the end.
LEMMA QueueIs ==
    ASSUME KeyboardTypes
    PROVE  /\ Queue \in Seq(Bytes) /\ Read \in Bytes
           /\ ~Eaten => Queue = wire
  <1>1. Ack \in Bytes
    BY DEF Ack, Byte, Bytes
  <1>2. PICK w : w = Append(wire, Ack) /\ w \in Seq(Bytes) /\ w # <<>>
    <2>1. wire \in Seq(Bytes)
      BY DEF KeyboardTypes
    <2>2. Append(wire, Ack) \in Seq(Bytes) /\ Len(Append(wire, Ack)) = Len(wire) + 1
      BY <1>1, <2>1
    <2>3. Len(wire) \in Nat /\ Len(<<>>) = 0
      BY <2>1
    <2>4. Append(wire, Ack) # <<>>
      BY <2>2, <2>3
    <2> QED
      BY <2>2, <2>4
  <1>3. Tail(w) \in Seq(Bytes)
    BY <1>2, HeadTailProperties
  <1>4. Queue \in Seq(Bytes)
    BY <1>2, <1>3 DEF Queue, Enabled, KeyboardTypes
  <1>5. Read \in Bytes
    <2>1. Queue # <<>> => Head(Queue) \in Bytes
      BY <1>4, HeadTailProperties
    <2> QED
      BY <2>1 DEF Read, KeyboardTypes
  <1>6. ~is_scanning /\ wire = <<>> => Enabled = <<>>
    BY DEF Enabled
  <1>7. ~Eaten => Queue = wire
    BY <1>6 DEF Eaten, Queue
  <1> QED
    BY <1>4, <1>5, <1>7

\* One scan: what Poll does to the driver and to what was delivered.
LEMMA PollIs ==
    ASSUME KeyboardTypes, Poll, NEW b, b = Read
    PROVE  /\ is_scanning' = TRUE /\ lost' = (lost \/ Eaten)
           /\ wire' = (IF Queue = <<>> THEN Queue ELSE Tail(Queue))
           /\ port' = b /\ keys' = After(keys, b)
           /\ Fresh(keys, b)
                => delivered' = Append(delivered, Translated(b.code, After(keys, b)))
           /\ ~Fresh(keys, b) => delivered' = delivered
           /\ UNCHANGED <<down, typed, clash>>
  <1>1. b \in Bytes /\ b.up \in BOOLEAN
    BY QueueIs DEF Bytes
  <1>2. Scan(b).keys = After(keys, b) /\ (~b.up /\ b.code \notin keys => Scan(b).code = b.code)
        /\ (b.up \/ b.code \in keys => Scan(b).code = NUL)
    BY DEF Scan, After
  <1>3. is_code_valid(Scan(b).code) <=> Fresh(keys, b)
    BY <1>1, <1>2 DEF Fresh, is_code_valid
  <1>4. /\ is_scanning' = TRUE /\ lost' = (lost \/ Eaten)
        /\ wire' = (IF Queue = <<>> THEN Queue ELSE Tail(Queue))
        /\ port' = b /\ keys' = Scan(b).keys
        /\ is_code_valid(Scan(b).code)
             => delivered' = Append(delivered, Translated(Scan(b).code, Scan(b).keys))
        /\ ~is_code_valid(Scan(b).code) => delivered' = delivered
        /\ UNCHANGED <<down, typed, clash>>
    BY DEF Poll, Queue, Read, typist
  <1>5. Fresh(keys, b) => Scan(b).code = b.code
    BY <1>2 DEF Fresh
  <1> QED
    BY <1>2, <1>3, <1>4, <1>5

\* A scan: the first byte of the run is read, or the port gives its last one again.
LEMMA PollStep ==
    ASSUME KeyboardInv, Poll
    PROVE  KeyboardInv'
  <1>1. PICK b : b = Read
    OBVIOUS
  <1>2. KeyboardTypes
    BY DEF KeyboardInv
  <1>3. /\ is_scanning' = TRUE /\ lost' = (lost \/ Eaten)
        /\ wire' = (IF Queue = <<>> THEN Queue ELSE Tail(Queue))
        /\ port' = b /\ keys' = After(keys, b)
        /\ Fresh(keys, b)
             => delivered' = Append(delivered, Translated(b.code, After(keys, b)))
        /\ ~Fresh(keys, b) => delivered' = delivered
        /\ UNCHANGED <<down, typed, clash>>
    BY <1>1, <1>2, PollIs
  <1>4. b \in Bytes /\ Queue \in Seq(Bytes)
    BY <1>1, <1>2, QueueIs
  <1>5. Fresh(keys, b) => Translated(b.code, After(keys, b)) \in Typeable
    <2>1. Fresh(keys, b) => b.code \in Codes
      BY <1>4 DEF Fresh, Bytes, is_code_valid
    <2> QED
      BY <2>1, OwnShift
  <1>6. KeyboardTypes'
    <2>1. wire' \in Seq(Bytes)
      BY <1>3, <1>4, HeadTailProperties
    <2>2. keys' \in CodeSets
      BY <1>2, <1>3, <1>4, AfterIs DEF KeyboardTypes
    <2>3. delivered' \in Seq(Typeable)
      <3>1. delivered \in Seq(Typeable)
        BY <1>2 DEF KeyboardTypes
      <3>2. CASE Fresh(keys, b)
        <4>1. PICK ch \in Typeable : ch = Translated(b.code, After(keys, b))
          BY <1>5, <3>2
        <4> QED
          BY <1>3, <3>1, <3>2, <4>1
      <3> QED
        BY <1>3, <3>1, <3>2
    <2>4. lost' \in BOOLEAN
      BY <1>2, <1>3 DEF KeyboardTypes, Eaten
    <2> QED
      BY <1>2, <1>3, <1>4, <2>1, <2>2, <2>3, <2>4 DEF KeyboardTypes
  <1>7. PortSeen'
    <2>1. b.code \in After(keys, b) <=> ~b.up
      BY <1>2, <1>4, AfterIs DEF KeyboardTypes
    <2> QED
      BY <1>3, <2>1 DEF PortSeen
  <1>8. ASSUME Reliable' PROVE Pending' /\ Delivered' /\ OneCode'
    <2>1. ~lost /\ ~Eaten /\ ~clash /\ Queue = wire
      BY <1>2, <1>3, <1>8, QueueIs DEF Reliable
    <2>2. Pending /\ Delivered /\ OneCode /\ PortSeen
      BY <2>1 DEF KeyboardInv, Reliable
    <2>3. CASE wire = <<>>
      <3>1. b = port /\ After(keys, b) = keys /\ ~Fresh(keys, b)
        <4>1. b = port
          BY <1>1, <2>1, <2>3 DEF Read
        <4>2. b.up \in BOOLEAN
          BY <1>4 DEF Bytes
        <4> QED
          BY <2>2, <4>1, <4>2 DEF PortSeen, After, Fresh
      <3>2. UNCHANGED <<wire, keys, delivered, down, typed>>
        BY <1>3, <2>1, <2>3, <3>1
      <3> QED
        BY <2>2, <3>2 DEF Pending, Delivered, OneCode
    <2>4. CASE wire # <<>>
      <3>1. PICK K, N : /\ Run(K, N, wire, typed)
                        /\ K[0] = keys /\ K[Len(wire)] = DownCodes(down)
                        /\ N[0] = Len(delivered) /\ N[Len(wire)] = Len(typed)
        BY <2>2 DEF Pending
      <3>2. wire' = Tail(wire) /\ wire \in Seq(Bytes)
        BY <1>2, <1>3, <2>1, <2>4 DEF KeyboardTypes
      <3>3. 1 \in 1 .. Len(wire) /\ 1 \in 0 .. Len(wire) /\ b = wire[1]
        BY <1>1, <2>1, <2>4, <3>2, EmptySeq DEF Read
      <3>4. /\ K[1] = After(keys, b) /\ N[1] \in 0 .. Len(typed)
            /\ Fresh(keys, b) => /\ N[1] = Len(delivered) + 1
                                 /\ typed[N[1]] = Translated(b.code, K[1])
            /\ ~Fresh(keys, b) => N[1] = Len(delivered)
        <4>1. 1 - 1 = 0
          OBVIOUS
        <4> QED
          BY <3>1, <3>3, <4>1 DEF Run
      <3>5. /\ N[1] = Len(delivered') /\ Delivered'
        <4>1. delivered \in Seq(Typeable) /\ typed \in Seq(Typeable)
          BY <1>2 DEF KeyboardTypes
        <4>2. CASE Fresh(keys, b)
          <5>1. PICK ch : ch = Translated(b.code, After(keys, b))
            OBVIOUS
          <5>2. delivered' = Append(delivered, ch) /\ typed[Len(delivered) + 1] = ch
                /\ N[1] = Len(delivered) + 1
            BY <1>3, <3>4, <4>2, <5>1
          <5>3. /\ Len(delivered') = Len(delivered) + 1 /\ Len(delivered) \in Nat
                /\ Len(typed) \in Nat
                /\ \A m \in 1 .. Len(delivered) : delivered'[m] = delivered[m]
                /\ delivered'[Len(delivered) + 1] = ch
            BY <4>1, <5>2
          <5>4. Len(delivered') <= Len(typed)
            BY <3>4, <5>2, <5>3
          <5>5. ASSUME NEW m \in 1 .. Len(delivered') PROVE delivered'[m] = typed'[m]
            <6>1. m \in 1 .. Len(delivered) \/ m = Len(delivered) + 1
              BY <5>3
            <6> QED
              BY <1>3, <2>2, <5>2, <5>3, <6>1 DEF Delivered
          <5> QED
            BY <1>3, <5>2, <5>3, <5>4, <5>5 DEF Delivered
        <4>3. CASE ~Fresh(keys, b)
          BY <1>3, <2>2, <3>4, <4>3 DEF Delivered
        <4> QED
          BY <4>2, <4>3
      <3>6. PICK L, M : /\ Run(L, M, Tail(wire), typed)
                        /\ L[0] = K[1] /\ L[Len(Tail(wire))] = K[Len(wire)]
                        /\ M[0] = N[1] /\ M[Len(Tail(wire))] = N[Len(wire)]
        BY <2>4, <3>1, <3>2, RunTail
      <3>7. /\ Run(L, M, wire', typed')
            /\ L[0] = keys' /\ L[Len(wire')] = DownCodes(down')
            /\ M[0] = Len(delivered') /\ M[Len(wire')] = Len(typed')
        BY <1>3, <3>1, <3>2, <3>4, <3>5, <3>6
      <3>8. Pending'
        BY <3>7 DEF Pending
      <3>9. OneCode'
        BY <1>3, <2>2 DEF OneCode
      <3> QED
        BY <3>5, <3>8, <3>9
    <2> QED
      BY <2>3, <2>4
  <1> QED
    BY <1>6, <1>7, <1>8 DEF KeyboardInv

\* Nothing is down, nothing is pending.
LEMMA InitKeyboard == KeyboardInit => KeyboardInv
  <1> SUFFICES ASSUME KeyboardInit PROVE KeyboardInv
    OBVIOUS
  <1>1. /\ down = {} /\ wire = <<>> /\ port = Ack /\ keys = {} /\ is_scanning = FALSE
        /\ typed = <<>> /\ delivered = <<>> /\ lost = FALSE /\ clash = FALSE
    BY DEF KeyboardInit
  <1>2. Ack \in Bytes /\ Ack.up
    BY DEF Ack, Byte, Bytes
  <1>3. KeyboardTypes
    <2>1. <<>> \in Seq(Bytes) /\ <<>> \in Seq(Typeable) /\ {} \in CodeSets
      BY EmptySeq DEF CodeSets
    <2> QED
      BY <1>1, <1>2, <2>1 DEF KeyboardTypes
  <1>4. PortSeen
    BY <1>1, <1>2 DEF PortSeen
  <1>5. Pending
    <2> DEFINE K == [n \in 0 .. 0 |-> {}]
               N == [n \in 0 .. 0 |-> 0]
    <2>1. Run(K, N, <<>>, <<>>)
      BY DEF Run, CodeSets
    <2>2. K[0] = {} /\ N[0] = 0
      OBVIOUS
    <2> HIDE DEF K, N
    <2>3. Len(wire) = 0 /\ Len(typed) = 0 /\ Len(delivered) = 0 /\ DownCodes(down) = {}
      BY <1>1 DEF DownCodes
    <2> QED
      BY <1>1, <2>1, <2>2, <2>3 DEF Pending
  <1> QED
    BY <1>1, <1>3, <1>4, <1>5 DEF KeyboardInv, Delivered, OneCode

\* Every step keeps what is pending.
LEMMA KeyboardStep ==
    ASSUME KeyboardInv, [KeyboardNext]_keyboardVars
    PROVE  KeyboardInv'
  <1>1. CASE UNCHANGED <<down, device, driver, typed, delivered, lost, clash>>
    BY <1>1 DEF KeyboardInv, KeyboardTypes, PortSeen, Reliable, Pending, Delivered, OneCode,
                device, driver
  <1>2. CASE CallGets \/ UseLine \/ UNCHANGED keyboardVars
    BY <1>1, <1>2 DEF CallGets, UseLine, keyboardVars, typist
  <1>3. ASSUME NEW k \in Keys, Press(k) \/ Repeat(k) \/ Release(k) PROVE KeyboardInv'
    BY <1>3, PressStep, RepeatStep, ReleaseStep
  <1> QED
    BY <1>2, <1>3, PollStep DEF KeyboardNext

\* When the controller is empty nothing is pending.
LEMMA InvIsOnceEach == KeyboardInv => OnceEach
  <1> SUFFICES ASSUME KeyboardInv, Reliable
               PROVE  IsPrefix(delivered, typed) /\ (wire = <<>> => delivered = typed)
    BY DEF OnceEach
  <1>1. Delivered /\ Pending /\ delivered \in Seq(Typeable) /\ typed \in Seq(Typeable)
    BY DEF KeyboardInv, KeyboardTypes
  <1>2. PICK z : z = Len(delivered) /\ z \in Nat /\ Len(typed) \in Nat /\ z <= Len(typed)
    BY <1>1 DEF Delivered
  <1>3. IsPrefix(delivered, typed)
    <2>1. PICK s, t : s = SubSeq(delivered, 1, z) /\ t = SubSeq(typed, 1, z)
      OBVIOUS
    <2>2. /\ \A m \in 1 .. z : delivered[m] \in Typeable
          /\ \A m \in 1 .. z : typed[m] \in Typeable
      BY <1>1, <1>2
    <2>3. /\ s \in Seq(Typeable) /\ Len(s) = z /\ \A m \in 1 .. z : s[m] = delivered[m]
          /\ t \in Seq(Typeable) /\ Len(t) = z /\ \A m \in 1 .. z : t[m] = typed[m]
      BY <1>2, <2>1, <2>2, SubSeqProperties
    <2>4. s = t
      BY <1>1, <1>2, <2>3, SeqEqual DEF Delivered
    <2> QED
      BY <1>2, <2>1, <2>4 DEF IsPrefix
  <1>4. ASSUME wire = <<>> PROVE delivered = typed
    <2>1. Len(delivered) = Len(typed)
      <3>1. Len(wire) = 0
        BY <1>4
      <3> QED
        BY <1>1, <3>1 DEF Pending
    <2> QED
      BY <1>1, <2>1, SeqEqual DEF Delivered
  <1> QED
    BY <1>3, <1>4

\* A key is typed once, for any keys, codes and shifts and a controller of any
\* depth: as long as no code was dropped and no two keys with one entry were down
\* together, keyboard_scan and read_char deliver the characters of the presses, in
\* order, however long they wait and whatever repeats in between.
THEOREM KeysTypedOnce == KeyboardSpec => []OnceEach
  BY InitKeyboard, KeyboardStep, InvIsOnceEach, PTL DEF KeyboardSpec

-----------------------------------------------------------------------------
(* The line of gets. *)

\* What a place of the buffer holds.
Places == Typeable \union {NUL, Garbage}

\* gets between two characters: what the buffer holds of the line, and nothing behind it.
Fill(f, hole) == /\ f \in 0 .. Len(delivered) /\ hole \in {0, 1}
                 /\ InLine(f, hole)
\* Before the first place nothing has been delivered.
Empty(f) == mode = "reading" /\ i = 0 => f = Len(delivered)
Line == /\ mode \in {"idle", "reading", "returned"}
        /\ buf \in [0 .. Size - 1 -> Places]
        /\ i \in Nat
        /\ mode = "reading"  => /\ i < Size - 1 /\ \A n \in i .. Size - 1 : buf[n] = Garbage
                               /\ NoNewline(began)
        /\ mode = "returned" => i < Size /\ buf[i] = NUL /\ Ended(began)
        /\ mode # "idle"     => \E hole : Fill(began, hole) /\ Empty(began)

\* There is place for a character and the terminator.
LEMMA SizeIs == Size \in Nat /\ Size > 1 /\ LF # BS
  BY KeyboardAssumption

\* What is kept of a line is finite, and each character has its place before i.
LEMMA KeptIs ==
    ASSUME delivered \in Seq(Typeable), NEW f \in Nat
    PROVE  /\ Kept(f) \subseteq f + 1 .. Len(delivered) /\ Len(delivered) \in Nat
           /\ IsFiniteSet(Kept(f)) /\ Cardinality(Kept(f)) \in Nat
           /\ \A m \in Kept(f) : /\ Cardinality({l \in Kept(f) : l < m}) \in Nat
                                 /\ Cardinality({l \in Kept(f) : l < m}) < Cardinality(Kept(f))
  <1>1. Kept(f) \subseteq f + 1 .. Len(delivered) /\ Len(delivered) \in Nat
    BY DEF Kept
  <1>2. IsFiniteSet(Kept(f)) /\ Cardinality(Kept(f)) \in Nat
    <2>1. IsFiniteSet(f + 1 .. Len(delivered))
      <3>1. f + 1 \in Int /\ Len(delivered) \in Int
        BY <1>1
      <3> QED
        BY <3>1, FS_Interval
    <2>2. Kept(f) \in SUBSET (f + 1 .. Len(delivered))
      BY <1>1
    <2> QED
      BY <2>1, <2>2, FS_Subset, FS_CardinalityType
  <1>3. ASSUME NEW m \in Kept(f)
        PROVE  /\ Cardinality({l \in Kept(f) : l < m}) \in Nat
               /\ Cardinality({l \in Kept(f) : l < m}) < Cardinality(Kept(f))
    <2>1. PICK before : before = {l \in Kept(f) : l < m}
      OBVIOUS
    <2>2. before \in SUBSET Kept(f) /\ m \notin before
      BY <1>1, <2>1
    <2>3. Cardinality(before) \in Nat /\ Cardinality(before) <= Cardinality(Kept(f))
          /\ Cardinality(before) # Cardinality(Kept(f))
      BY <1>2, <2>2, FS_Subset, FS_CardinalityType
    <2> QED
      BY <1>2, <2>1, <2>3
  <1> QED
    BY <1>1, <1>2, <1>3

\* Every character has its place before i.
LEMMA PlaceIs ==
    ASSUME delivered \in Seq(Typeable), NEW f \in Nat, NEW hole \in Nat, NEW m \in Kept(f)
    PROVE  Place(f, hole, m) \in 0 .. hole + Cardinality(Kept(f)) - 1
  <1>1. PICK c, z : c = Cardinality({l \in Kept(f) : l < m}) /\ z = Cardinality(Kept(f))
    OBVIOUS
  <1>2. c \in Nat /\ z \in Nat /\ c < z
    BY <1>1, KeptIs
  <1>3. hole + c \in 0 .. hole + z - 1
    BY <1>2
  <1> QED
    BY <1>1, <1>3 DEF Place

\* A character more is delivered: it is text or it is not.
LEMMA KeptGrows ==
    ASSUME delivered \in Seq(Typeable), NEW ch, delivered' = Append(delivered, ch),
           NEW f \in 0 .. Len(delivered), NEW last, last = Len(delivered) + 1
    PROVE  /\ f \in 0 .. Len(delivered') /\ last \notin Kept(f) /\ delivered'[last] = ch
           /\ ch \in {LF, BS} => Kept(f)' = Kept(f)
           /\ ch \notin {LF, BS} => Kept(f)' = Kept(f) \union {last}
           /\ \A m \in Kept(f) : delivered'[m] = delivered[m] /\ m < last
  <1>1. /\ Len(delivered) \in Nat /\ Len(delivered') = last /\ delivered'[last] = ch
        /\ \A m \in 1 .. Len(delivered) : delivered'[m] = delivered[m]
    OBVIOUS
  <1>2. f + 1 .. last = (f + 1 .. Len(delivered)) \union {last}
    BY <1>1
  <1>3. \A m \in f + 1 .. Len(delivered) : m \in 1 .. Len(delivered) /\ m < last
    BY <1>1
  <1> QED
    BY <1>1, <1>2, <1>3 DEF Kept

\* A newline or a backspace is not kept.
LEMMA NotText ==
    ASSUME delivered \in Seq(Typeable), NEW ch \in {LF, BS}, delivered' = Append(delivered, ch),
           NEW f \in 0 .. Len(delivered)
    PROVE  /\ f \in 0 .. Len(delivered') /\ Kept(f)' = Kept(f)
           /\ \A m \in Kept(f) : delivered'[m] = delivered[m]
  <1>1. PICK last : last = Len(delivered) + 1
    OBVIOUS
  <1> QED
    BY <1>1, KeptGrows

\* Any other character is kept, behind those before it.
LEMMA IsText ==
    ASSUME delivered \in Seq(Typeable), NEW ch, ch \notin {LF, BS},
           delivered' = Append(delivered, ch), NEW f \in 0 .. Len(delivered)
    PROVE  \E last \in Nat :
             /\ f \in 0 .. Len(delivered') /\ last \notin Kept(f) /\ delivered'[last] = ch
             /\ Kept(f)' = Kept(f) \union {last}
             /\ \A m \in Kept(f) : delivered'[m] = delivered[m] /\ m < last
  <1>1. PICK last : last = Len(delivered) + 1 /\ last \in Nat
    OBVIOUS
  <1> QED
    BY <1>1, KeptGrows

\* Whether the line begins with a backspace is settled by its first character.
Hollow(f) == f < Len(delivered) /\ delivered[f + 1] = BS

LEMMA HollowKept ==
    ASSUME delivered \in Seq(Typeable), NEW f \in 0 .. Len(delivered),
           \/ delivered' = delivered
           \/ \E ch : /\ delivered' = Append(delivered, ch)
                      /\ f < Len(delivered) \/ ch # BS
    PROVE  Hollow(f)' <=> Hollow(f)
  <1>1. CASE delivered' = delivered
    BY <1>1 DEF Hollow
  <1>2. ASSUME NEW ch, delivered' = Append(delivered, ch), f < Len(delivered) \/ ch # BS
        PROVE  Hollow(f)' <=> Hollow(f)
    <2>1. /\ Len(delivered) \in Nat /\ Len(delivered') = Len(delivered) + 1
          /\ \A m \in 1 .. Len(delivered) : delivered'[m] = delivered[m]
          /\ delivered'[Len(delivered) + 1] = ch
      BY <1>2
    <2>2. CASE f < Len(delivered)
      <3>1. f + 1 \in 1 .. Len(delivered) /\ f < Len(delivered')
        BY <2>1, <2>2
      <3> QED
        BY <2>1, <2>2, <3>1 DEF Hollow
    <2>3. CASE f = Len(delivered)
      BY <1>2, <2>1, <2>3 DEF Hollow
    <2> QED
      BY <2>1, <2>2, <2>3
  <1> QED
    BY <1>1, <1>2

\* A line that has come to a place has a first character.
LEMMA HasBegun ==
    ASSUME delivered \in Seq(Typeable), NEW f, NEW hole, Fill(f, hole), i # 0
    PROVE  f < Len(delivered)
  <1>1. /\ f \in 0 .. Len(delivered) /\ f \in Nat /\ hole \in {0, 1}
        /\ i = hole + Cardinality(Kept(f)) /\ (hole = 1 => f < Len(delivered))
    BY DEF Fill, InLine
  <1>2. CASE hole = 0
    <2>1. Cardinality(Kept(f)) # 0
      BY <1>1, <1>2, KeptIs
    <2>2. Kept(f) # {}
      BY <2>1, FS_EmptySet
    <2> QED
      BY <1>1, <2>2, KeptIs
  <1> QED
    BY <1>1, <1>2

\* No newline was delivered, and another character is none.
LEMMA NoNewlineGrows ==
    ASSUME delivered \in Seq(Typeable), NEW ch, delivered' = Append(delivered, ch),
           NEW f \in 0 .. Len(delivered), NoNewline(f)
    PROVE  /\ \A m \in f + 1 .. Len(delivered') - 1 : delivered'[m] # LF
           /\ NoNewline(f)' <=> ch # LF
  <1>1. /\ Len(delivered) \in Nat /\ Len(delivered') = Len(delivered) + 1
        /\ \A m \in 1 .. Len(delivered) : delivered'[m] = delivered[m]
        /\ delivered'[Len(delivered) + 1] = ch
    OBVIOUS
  <1>2. \A m \in f + 1 .. Len(delivered') :
           \/ m = Len(delivered) + 1
           \/ m \in 1 .. Len(delivered) /\ m \in f + 1 .. Len(delivered)
    <2>1. PICK z \in Nat : z = Len(delivered) /\ Len(delivered') = z + 1 /\ f \in Nat
      BY <1>1
    <2>2. ASSUME NEW m \in f + 1 .. Len(delivered')
          PROVE  \/ m = Len(delivered) + 1
                 \/ m \in 1 .. Len(delivered) /\ m \in f + 1 .. Len(delivered)
      <3>1. m \in Int /\ f + 1 <= m /\ m <= z + 1 /\ 0 <= f
        BY <2>1, <2>2
      <3>2. m = z + 1 \/ (m \in 1 .. z /\ m \in f + 1 .. z)
        BY <2>1, <3>1
      <3> QED
        BY <2>1, <3>2
    <2> QED
      BY <2>2
  <1>3. Len(delivered) + 1 \in f + 1 .. Len(delivered')
    BY <1>1
  <1>4. \A m \in f + 1 .. Len(delivered') - 1 :
           m \in 1 .. Len(delivered) /\ m \in f + 1 .. Len(delivered)
    BY <1>1
  <1> QED
    BY <1>1, <1>2, <1>3, <1>4 DEF NoNewline

\* The line does not change as long as its cells and its characters do not.
LEMMA FillKept ==
    ASSUME delivered \in Seq(Typeable), NEW f, NEW hole, Fill(f, hole), i \in Nat,
           \/ delivered' = delivered
           \/ \E ch : /\ delivered' = Append(delivered, ch)
                      /\ f < Len(delivered) \/ ch # BS,
           f \in 0 .. Len(delivered'), Kept(f)' = Kept(f), i' = i,
           \A m \in Kept(f) : delivered'[m] = delivered[m],
           \A n \in 0 .. i - 1 : buf'[n] = buf[n]
    PROVE  Fill(f, hole)'
  <1>1. /\ f \in Nat /\ hole \in Nat /\ i = hole + Cardinality(Kept(f)) /\ InLine(f, hole)
        /\ hole \in {0, 1}
    BY DEF Fill, InLine
  <1>2. \A m \in Kept(f) : Place(f, hole, m)' = Place(f, hole, m)
    BY DEF Place
  <1>3. ASSUME NEW m \in Kept(f) PROVE Place(f, hole, m) \in 0 .. i - 1
    <2>1. Place(f, hole, m) \in 0 .. hole + Cardinality(Kept(f)) - 1
      BY <1>1, PlaceIs
    <2>2. PICK z : z = Cardinality(Kept(f))
      OBVIOUS
    <2>3. /\ i = hole + z /\ Place(f, hole, m) \in 0 .. hole + z - 1
          /\ hole \in Nat /\ z \in Nat
      BY <1>1, <2>1, <2>2, KeptIs
    <2> QED
      BY <2>3
  <1>4. hole = 1 => 0 \in 0 .. i - 1
    BY <1>1, KeptIs
  <1>5. hole = 1 <=> Hollow(f)'
    <2>1. hole = 1 <=> Hollow(f)
      BY <1>1 DEF InLine, Hollow
    <2>2. f \in 0 .. Len(delivered)
      BY DEF Fill
    <2> QED
      BY <2>1, <2>2, HollowKept
  <1> QED
    BY <1>1, <1>2, <1>3, <1>4, <1>5 DEF Fill, InLine, Hollow

\* A character goes behind the line.
LEMMA FillGrows ==
    ASSUME delivered \in Seq(Typeable), NEW ch, delivered' = Append(delivered, ch),
           ch \notin {LF, BS}, NEW f, NEW hole, Fill(f, hole), i \in Nat, i' = i + 1,
           buf'[i] = ch, \A n \in 0 .. i - 1 : buf'[n] = buf[n]
    PROVE  Fill(f, hole)'
  <1>1. /\ f \in 0 .. Len(delivered) /\ f \in Nat /\ hole \in {0, 1} /\ hole \in Nat
        /\ i = hole + Cardinality(Kept(f)) /\ InLine(f, hole)
    BY DEF Fill, InLine
  <1>3. PICK last \in Nat :
             /\ f \in 0 .. Len(delivered') /\ last \notin Kept(f) /\ delivered'[last] = ch
             /\ Kept(f)' = Kept(f) \union {last}
             /\ \A m \in Kept(f) : delivered'[m] = delivered[m] /\ m < last
    BY <1>1, IsText
  <1>4. last \in Nat /\ \A m \in Kept(f) : m \in Nat
    <2>1. Kept(f) \subseteq f + 1 .. Len(delivered) /\ Len(delivered) \in Nat
      BY <1>1, KeptIs
    <2> QED
      BY <1>1, <2>1
  <1>5. i' = hole + Cardinality(Kept(f)')
    <2>1. Cardinality(Kept(f)') = Cardinality(Kept(f)) + 1 /\ Cardinality(Kept(f)) \in Nat
      <3>1. IsFiniteSet(Kept(f)) /\ Cardinality(Kept(f)) \in Nat
        BY <1>1, KeptIs
      <3>2. PICK kept : kept = Kept(f)
        OBVIOUS
      <3>3. Cardinality(kept \union {last}) = Cardinality(kept) + 1
        <4>1. IsFiniteSet(kept) /\ last \notin kept
          BY <1>3, <3>1, <3>2
        <4> QED
          BY <4>1, FS_AddElement
      <3> QED
        BY <1>3, <3>1, <3>2, <3>3
    <2> QED
      BY <1>1, <2>1
  <1>6. ASSUME NEW m \in Kept(f)'
        PROVE  buf'[Place(f, hole, m)'] = delivered'[m]
    <2>1. CASE m = last
      <3>1. {l \in Kept(f)' : l < m} = Kept(f)
        BY <1>3, <1>4, <2>1
      <3>2. Place(f, hole, m)' = i
        BY <1>1, <3>1 DEF Place
      <3> QED
        BY <1>3, <2>1, <3>2
    <2>2. CASE m # last
      <3>1. m \in Kept(f) /\ m < last /\ m \in Nat
        BY <1>3, <1>4, <2>2
      <3>2. {l \in Kept(f)' : l < m} = {l \in Kept(f) : l < m}
        BY <1>3, <1>4, <3>1
      <3>3. Place(f, hole, m)' = Place(f, hole, m)
        BY <3>2 DEF Place
      <3>4. Place(f, hole, m) \in 0 .. i - 1
        <4>1. Place(f, hole, m) \in 0 .. hole + Cardinality(Kept(f)) - 1
          BY <1>1, <3>1, PlaceIs
        <4>2. PICK z : z = Cardinality(Kept(f))
          OBVIOUS
        <4>3. /\ i = hole + z /\ Place(f, hole, m) \in 0 .. hole + z - 1
              /\ hole \in Nat /\ z \in Nat
          BY <1>1, <4>1, <4>2, KeptIs
        <4> QED
          BY <4>3
      <3>5. buf[Place(f, hole, m)] = delivered[m]
        BY <1>1, <3>1 DEF InLine
      <3> QED
        BY <1>3, <3>1, <3>3, <3>4, <3>5
    <2> QED
      BY <2>1, <2>2
  <1>7. hole = 1 => buf'[0] = Garbage
    <2>1. hole = 1 => 0 \in 0 .. i - 1 /\ buf[0] = Garbage
      BY <1>1, KeptIs DEF InLine
    <2> QED
      BY <2>1
  <1>8. hole = 1 <=> Hollow(f)'
    <2>1. hole = 1 <=> Hollow(f)
      BY <1>1 DEF InLine, Hollow
    <2> QED
      BY <1>1, <2>1, HollowKept
  <1> QED
    BY <1>1, <1>3, <1>5, <1>6, <1>7, <1>8 DEF Fill, InLine, Hollow

\* A backspace at the start of the line leaves a hole.
LEMMA FillHole ==
    ASSUME delivered \in Seq(Typeable), delivered' = Append(delivered, BS),
           NEW f, NEW hole, Fill(f, hole), f = Len(delivered),
           i = 0, i' = 1, buf'[0] = Garbage
    PROVE  Fill(f, 1)'
  <1>1. /\ f \in 0 .. Len(delivered) /\ f \in Nat /\ hole \in Nat
        /\ 0 = hole + Cardinality(Kept(f))
    BY DEF Fill, InLine
  <1>2. Kept(f) = {} /\ Cardinality(Kept(f)) = 0
    <2>1. Cardinality(Kept(f)) \in Nat /\ IsFiniteSet(Kept(f))
      BY <1>1, KeptIs
    <2>2. Cardinality(Kept(f)) = 0
      BY <1>1, <2>1
    <2> QED
      BY <2>1, <2>2, FS_EmptySet
  <1>3. f \in 0 .. Len(delivered') /\ Kept(f)' = {}
    BY <1>1, <1>2, KeptGrows
  <1>4. Cardinality(Kept(f)') = 0
    BY <1>2, <1>3
  <1>5. f < Len(delivered') /\ delivered'[f + 1] = BS
    BY <1>1
  <1> QED
    BY <1>3, <1>4, <1>5 DEF Fill, InLine

\* The loop of gets goes on, or is at its end.
LEMMA GoOnStep ==
    ASSUME NEW b \in [0 .. Size - 1 -> Places], NEW n \in Nat, n <= Size - 1,
           \A k \in n .. Size - 1 : b[k] = Garbage, mode = "reading", GoOn(b, n)
    PROVE  /\ i' = n /\ \A k \in 0 .. n - 1 : buf'[k] = b[k]
           /\ mode' \in {"reading", "returned"}
           /\ buf' \in [0 .. Size - 1 -> Places]
           /\ mode' = "reading" => n < Size - 1 /\ \A k \in n .. Size - 1 : buf'[k] = Garbage
           /\ mode' = "returned" => n = Size - 1 /\ n < Size /\ buf'[n] = NUL
  <1>1. CASE n < Size - 1
    BY <1>1 DEF GoOn
  <1>2. CASE ~(n < Size - 1)
    <2>1. n = Size - 1 /\ n \in 0 .. Size - 1 /\ n < Size
      BY <1>2, SizeIs
    <2>2. buf' = [b EXCEPT ![n] = NUL] /\ i' = n /\ mode' = "returned"
      BY <1>2, <2>1 DEF GoOn
    <2>3. /\ buf'[n] = NUL /\ \A k \in 0 .. n - 1 : buf'[k] = b[k]
          /\ buf' \in [0 .. Size - 1 -> Places]
      BY <2>1, <2>2 DEF Places
    <2> QED
      BY <2>1, <2>2, <2>3
  <1> QED
    BY <1>1, <1>2

\* One character: the end of the line, a backspace, or text.
LEMMA HandleStep ==
    ASSUME delivered \in Seq(Typeable), Line, mode = "reading",
           NEW ch \in Typeable, delivered' = Append(delivered, ch), began' = began, Handle(ch)
    PROVE  Line'
  <1>1. /\ i \in Nat /\ i < Size - 1 /\ i \in 0 .. Size - 1 /\ i + 1 <= Size - 1
        /\ \A n \in i .. Size - 1 : buf[n] = Garbage
        /\ buf \in [0 .. Size - 1 -> Places]
    BY SizeIs DEF Line
  <1>2. PICK f, hole : f = began /\ Fill(f, hole) /\ Empty(f) /\ NoNewline(f)
    BY DEF Line
  <1>3. f \in 0 .. Len(delivered) /\ f' = began'
    BY <1>2 DEF Fill
  <1>8. /\ \A m \in f + 1 .. Len(delivered') - 1 : delivered'[m] # LF
        /\ NoNewline(f)' <=> ch # LF
    BY <1>2, <1>3, NoNewlineGrows
  <1>9. /\ ch # LF => NoNewline(began)'
        /\ ch = LF \/ i' = Size - 1 => Ended(began)'
    BY <1>2, <1>8 DEF Ended, NoNewline
  <1>4. i = 0 => f = Len(delivered)
    BY <1>2 DEF Empty
  <1>5. CASE ch = LF
    <2>1. buf' = [buf EXCEPT ![i] = NUL] /\ mode' = "returned" /\ i' = i
      BY <1>5, SizeIs DEF Handle
    <2>2. /\ buf'[i] = NUL /\ \A n \in 0 .. i - 1 : buf'[n] = buf[n]
          /\ buf' \in [0 .. Size - 1 -> Places]
      BY <1>1, <2>1 DEF Places
    <2>3. Fill(f, hole)' /\ Empty(f)'
      <3>1. Empty(f)'
        BY <2>1 DEF Empty
      <3> QED
        BY <1>1, <1>2, <1>3, <1>5, <2>1, <2>2, <3>1, SizeIs, NotText, FillKept
    <2> QED
      BY <1>1, <1>2, <1>5, <1>9, <2>1, <2>2, <2>3, SizeIs DEF Line
  <1>6. CASE ch = BS
    <2>1. PICK n : n = IF i = 0 THEN 1 ELSE i
      OBVIOUS
    <2>2. GoOn(buf, n) /\ n \in Nat /\ n <= Size - 1 /\ i <= n
      BY <1>1, <1>6, <2>1, SizeIs DEF Handle
    <2>3. \A k \in n .. Size - 1 : buf[k] = Garbage
      BY <1>1, <2>2
    <2>4. /\ i' = n /\ \A k \in 0 .. n - 1 : buf'[k] = buf[k]
          /\ mode' \in {"reading", "returned"}
          /\ buf' \in [0 .. Size - 1 -> Places]
          /\ mode' = "reading" => n < Size - 1 /\ \A k \in n .. Size - 1 : buf'[k] = Garbage
          /\ mode' = "returned" => n = Size - 1 /\ n < Size /\ buf'[n] = NUL
      BY <1>1, <2>2, <2>3, GoOnStep
    <2>5. n # 0
      BY <1>1, <2>1
    <2>6. \E empty : Fill(f, empty)' /\ Empty(f)'
      <3>1. Empty(f)'
        BY <2>4, <2>5 DEF Empty
      <3>2. CASE i = 0
        <4>1. buf'[0] = Garbage
          BY <1>1, <2>1, <2>4, <3>2
        <4> QED
          BY <1>2, <1>6, <1>4, <2>1, <2>4, <3>2, <3>1, <4>1, FillHole
      <3>3. CASE i # 0
        <4>1. f < Len(delivered)
          BY <1>2, <3>3, HasBegun
        <4> QED
          BY <1>1, <1>2, <1>3, <1>6, <2>1, <2>4, <3>3, <3>1, <4>1, NotText, FillKept
      <3> QED
        BY <3>2, <3>3
    <2> QED
      BY <1>2, <1>6, <1>9, <2>2, <2>4, <2>6, SizeIs DEF Line
  <1>7. CASE ch \notin {LF, BS}
    <2>1. PICK b, n : b = [buf EXCEPT ![i] = ch] /\ n = i + 1
      OBVIOUS
    <2>2. GoOn(b, n) /\ n \in Nat /\ n <= Size - 1
      BY <1>1, <1>7, <2>1 DEF Handle
    <2>3. /\ b \in [0 .. Size - 1 -> Places] /\ b[i] = ch
          /\ \A k \in 0 .. i - 1 : b[k] = buf[k]
          /\ \A k \in n .. Size - 1 : b[k] = Garbage
      <3>1. ch \in Places
        BY DEF Places
      <3>2. b \in [0 .. Size - 1 -> Places] /\ b[i] = ch
        BY <1>1, <2>1, <3>1
      <3>3. \A k \in 0 .. Size - 1 : k # i => b[k] = buf[k]
        BY <1>1, <2>1
      <3>4. \A k \in 0 .. i - 1 : k \in 0 .. Size - 1 /\ k # i
        BY <1>1, SizeIs
      <3>5. \A k \in n .. Size - 1 : k \in 0 .. Size - 1 /\ k # i /\ k \in i .. Size - 1
        BY <1>1, <2>1, SizeIs
      <3> QED
        BY <1>1, <3>2, <3>3, <3>4, <3>5
    <2>4. /\ i' = n /\ \A k \in 0 .. n - 1 : buf'[k] = b[k]
          /\ mode' \in {"reading", "returned"}
          /\ buf' \in [0 .. Size - 1 -> Places]
          /\ mode' = "reading" => n < Size - 1 /\ \A k \in n .. Size - 1 : buf'[k] = Garbage
          /\ mode' = "returned" => n = Size - 1 /\ n < Size /\ buf'[n] = NUL
      BY <2>2, <2>3, GoOnStep
    <2>5. buf'[i] = ch /\ \A k \in 0 .. i - 1 : buf'[k] = buf[k]
      BY <1>1, <2>1, <2>3, <2>4
    <2>6. Fill(f, hole)'
      BY <1>1, <1>2, <1>7, <2>1, <2>4, <2>5, FillGrows
    <2>7. Empty(f)'
      BY <1>1, <2>1, <2>4 DEF Empty
    <2> QED
      BY <1>2, <1>7, <1>9, <2>2, <2>4, <2>6, <2>7 DEF Line
  <1> QED
    BY <1>5, <1>6, <1>7

\* Every step keeps the line.
LEMMA LineStep ==
    ASSUME KeyboardTypes, KeyboardTypes', Line, [KeyboardNext]_keyboardVars
    PROVE  Line'
  <1>1. delivered \in Seq(Typeable)
    BY DEF KeyboardTypes
  <1>2. CASE UNCHANGED <<gets, delivered, began>>
    <2>1. mode' = mode /\ buf' = buf /\ i' = i /\ delivered' = delivered /\ began' = began
      BY <1>2 DEF gets
    <2>2. ASSUME NEW f, NEW hole, Fill(f, hole), Empty(f) PROVE Fill(f, hole)' /\ Empty(f)'
      <3>1. Kept(f)' = Kept(f)
        BY <2>1 DEF Kept
      <3>2. i \in Nat /\ f \in 0 .. Len(delivered')
        BY <2>1, <2>2 DEF Line, Fill
      <3> QED
        BY <1>1, <2>1, <2>2, <3>1, <3>2, FillKept DEF Empty
    <2>3. (NoNewline(began) => NoNewline(began)') /\ (Ended(began) => Ended(began)')
      BY <2>1 DEF NoNewline, Ended
    <2> QED
      BY <2>1, <2>2, <2>3 DEF Line
  <1>3. ASSUME NEW k \in Keys, Press(k) \/ Repeat(k) \/ Release(k) PROVE Line'
    BY <1>2, <1>3 DEF Press, Repeat, Release
  <1>4. CASE CallGets
    <2>1. /\ mode' = "reading" /\ i' = 0 /\ delivered' = delivered
          /\ began' = Len(delivered)
          /\ buf' = [n \in 0 .. Size - 1 |-> Garbage]
      BY <1>4 DEF CallGets
    <2>2. PICK f : f = Len(delivered) /\ f \in Nat
      BY <1>1
    <2>3. Kept(f)' = {}
      BY <2>1, <2>2 DEF Kept
    <2>4. Cardinality(Kept(f)') = 0
      BY <2>3, FS_EmptySet
    <2>5. Fill(f, 0)' /\ Empty(f)' /\ NoNewline(f)'
      BY <2>1, <2>2, <2>3, <2>4 DEF Fill, InLine, Empty, NoNewline
    <2>6. buf' \in [0 .. Size - 1 -> Places]
      <3>1. Garbage \in Places
        BY DEF Places
      <3> QED
        BY <2>1, <3>1
    <2>7. i' < Size - 1 /\ \A n \in 0 .. Size - 1 : buf'[n] = Garbage
      BY <2>1, SizeIs
    <2> QED
      BY <2>1, <2>2, <2>5, <2>6, <2>7 DEF Line
  <1>5. CASE UseLine
    <2>1. mode' = "idle" /\ buf' = buf /\ i' = i
      BY <1>5 DEF UseLine
    <2> QED
      BY <2>1 DEF Line
  <1>6. CASE Poll
    <2>1. /\ mode = "reading" /\ began' = began
          /\ \/ UNCHANGED <<gets, delivered>>
             \/ \E ch : Handle(ch) /\ delivered' = Append(delivered, ch)
      BY <1>6 DEF Poll
    <2>2. ASSUME NEW ch, Handle(ch), delivered' = Append(delivered, ch) PROVE Line'
      <3>1. ch \in Typeable
        <4>1. delivered' \in Seq(Typeable) /\ Len(delivered) \in Nat
              /\ Len(delivered') = Len(delivered) + 1
              /\ delivered'[Len(delivered) + 1] = ch
          BY <1>1, <2>2 DEF KeyboardTypes
        <4> QED
          BY <4>1
      <3> QED
        BY <1>1, <2>1, <2>2, <3>1, HandleStep
    <2> QED
      BY <1>2, <2>1, <2>2
  <1>7. CASE UNCHANGED keyboardVars
    BY <1>2, <1>7 DEF keyboardVars
  <1> QED
    BY <1>3, <1>4, <1>5, <1>6, <1>7 DEF KeyboardNext

\* At first no line is being read.
LEMMA InitLine == KeyboardInit => Line
  BY SizeIs DEF KeyboardInit, Line, Places

\* The line that gets returns is all that was delivered since it was called, from the
\* first character to the newline or as much as the buffer takes, in order and
\* terminated within its size, for a buffer of any size and whatever the keyboard
\* delivers.
THEOREM LinesWhole == KeyboardSpec => []LineWhole
  <1>1. KeyboardInv => KeyboardTypes
    BY DEF KeyboardInv
  <1>2. KeyboardTypes /\ KeyboardTypes' /\ Line /\ [KeyboardNext]_keyboardVars => Line'
    BY LineStep
  <1>3. Line => LineWhole
    <2> SUFFICES ASSUME Line, mode = "returned"
                 PROVE  /\ i < Size /\ buf[i] = NUL /\ Ended(began)
                        /\ \E hole \in {0, 1} : InLine(began, hole)
      BY DEF LineWhole
    <2> QED
      BY DEF Line, Fill
  <1> QED
    BY <1>1, <1>3, <1>2, InitKeyboard, KeyboardStep, InitLine, PTL DEF KeyboardSpec
=============================================================================
