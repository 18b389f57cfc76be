------------------------------ MODULE Monitor ------------------------------
(***************************************************************************)
(* The text screen: monitor_write_char with scroll, clear and set_pos      *)
(* (src/src/monitor.c).                                                    *)
(*                                                                         *)
(* Video memory is one array: the character at (x, y) is cell x + y * W,   *)
(* whatever x is, and there are cells behind the last row.  cursor_x is a  *)
(* byte.  A tab in the last columns takes cursor_x to W, where only a      *)
(* backspace, return or newline brings it back to the screen.              *)
(*                                                                         *)
(* The caller, write_char, lets one task in at a time (module Console).    *)
(* above is a history variable: the rows that scroll has dropped.          *)
(***************************************************************************)
EXTENDS Naturals, Sequences

CONSTANTS
    W, H,        \* 80 and 25
    TAB,         \* 8
    BYTE,        \* 256
    Chars, Blank, Colours, White

ASSUME MonitorAssumption ==
    /\ W \in Nat \ {0} /\ H \in Nat \ {0, 1} /\ TAB \in Nat \ {0} /\ BYTE \in Nat
    /\ W % TAB = 0 /\ W + TAB <= BYTE
    /\ Blank \in Chars /\ White \in Colours

VARIABLES
    cursor_x, cursor_y,
    colour,              \* foreground_color and background_color
    video_memory,
    above

vars == <<cursor_x, cursor_y, colour, video_memory, above>>

Cells  == [char : Chars, colour : Colours]
Memory == 0 .. H * W + BYTE - 1

color_character(c) == [char |-> c, colour |-> colour]

\* The part of the state that a write changes, as one value.
Cursor(x, y, mem, gone) == [x |-> x, y |-> y, mem |-> mem, above |-> gone]
Here == Cursor(cursor_x, cursor_y, video_memory, above)

\* monitor_init: clear.  What lies behind the screen does not matter.
Init == /\ colour = White
        /\ cursor_x = 0 /\ cursor_y = 0
        /\ video_memory = [i \in Memory |-> [char |-> Blank, colour |-> White]]
        /\ above = <<>>

-----------------------------------------------------------------------------
RowOf(mem, y) == [c \in 0 .. W - 1 |-> mem[y * W + c]]

\* Mutant: the last row is not blanked.
ScrollKeepsLast(s) ==
    IF s.y < H THEN s
    ELSE Cursor(s.x, H - 1,
                [i \in Memory |-> IF i < (H - 1) * W THEN s.mem[i + W] ELSE s.mem[i]],
                Append(s.above, RowOf(s.mem, 0)))

\* The new last row is blank in the colour of the moment.
scroll(s) ==
    IF s.y < H THEN s
    ELSE Cursor(s.x, H - 1,
                [i \in Memory |-> CASE i < (H - 1) * W -> s.mem[i + W]
                                   [] i \in (H - 1) * W .. H * W - 1 -> color_character(Blank)
                                   [] i >= H * W -> s.mem[i]],
                Append(s.above, RowOf(s.mem, 0)))

\* The default case.  Only x = W wraps.
Put(s, c) == LET mem == [s.mem EXCEPT ![s.x + s.y * W] = color_character(c)]
                 x   == (s.x + 1) % BYTE
             IN  IF x = W THEN Cursor(0, s.y + 1, mem, s.above)
                          ELSE Cursor(x, s.y, mem, s.above)

\* A character somewhere else: monitor_write_char again, then the cursor is
\* put back.
set_pos(s, c) == LET t == scroll(Put(s, c)) IN Cursor(s.x, s.y, t.mem, t.above)

\* The end of monitor_write_char.
Show(s) == LET t == scroll(s)
           IN  /\ cursor_x' = t.x /\ cursor_y' = t.y
               /\ video_memory' = t.mem /\ above' = t.above
               /\ UNCHANGED colour

Default(c) == Show(Put(Here, c))

Backspace == IF cursor_x = 0 THEN Show(Here)
             ELSE Show(set_pos([Here EXCEPT !.x = cursor_x - 1], Blank))

Tab == Show([Here EXCEPT !.x = (cursor_x + TAB - ((cursor_x + TAB) % TAB)) % BYTE])

CarriageReturn == Show([Here EXCEPT !.x = 0])

\* Mutant: no scroll behind a newline.
NewlineFlat == /\ cursor_x' = 0 /\ cursor_y' = cursor_y + 1
               /\ UNCHANGED <<colour, video_memory, above>>

Newline == Show([Here EXCEPT !.x = 0, !.y = cursor_y + 1])

\* printf's colour codes and the system calls that set a colour.
SetColour == /\ colour' \in Colours
             /\ UNCHANGED <<cursor_x, cursor_y, video_memory, above>>

monitor_write_char == \/ \E c \in Chars : Default(c)
                      \/ Backspace \/ Tab \/ CarriageReturn \/ Newline

Next == monitor_write_char \/ SetColour

Spec == Init /\ [][Next]_vars

-----------------------------------------------------------------------------
TypeOK == /\ cursor_x \in 0 .. BYTE - 1
          /\ video_memory \in [Memory -> Cells]
          /\ above \in Seq([0 .. W - 1 -> Cells])
          /\ colour \in Colours

\* The cursor is in one of the rows of the screen between any two writes, also
\* when a tab has taken it out of the columns and the blank of a backspace
\* wraps and scrolls (monitor.c:58 "cursor_y >= 25" is the only test).
RowOnScreen == cursor_y \in 0 .. H - 1

\* The rows that were scrolled off, then those of the screen.
Sheet == [i \in 1 .. Len(above) + H |->
             IF i <= Len(above) THEN above[i] ELSE RowOf(video_memory, i - Len(above) - 1)]

P == INSTANCE Paper WITH Start <- H, sheet <- Sheet,
                         row <- Len(above) + cursor_y + 1, col <- cursor_x

\* As long as no tab leaves the columns the screen is a window on a sheet of
\* paper: wrapping, scrolling and rubbing out lose no character and put none
\* elsewhere.  Behind such a tab nothing is promised until the cursor is back.
OnScreen == cursor_x < W
ImplementsPaper == P!PaperInit /\ [][OnScreen /\ OnScreen' => P!PaperNext]_vars
=============================================================================
