------------------------------- MODULE Paper -------------------------------
(***************************************************************************)
(* What a text terminal does, without a screen: a sheet of rows that grows *)
(* at the bottom and a pen on it.  Nothing scrolls; rows that have left    *)
(* the screen are still on the sheet.  Module Monitor is to implement it.  *)
(***************************************************************************)
EXTENDS Naturals, Sequences

CONSTANTS W, TAB,      \* columns, distance of the tab stops
          Start,       \* rows of the blank sheet
          Chars, Blank, Colours, White

VARIABLES sheet,       \* sequence of rows; a row maps columns to cells
          row, col,    \* the pen; rows count from 1
          colour

paperVars == <<sheet, row, col, colour>>

Cell(c)  == [char |-> c, colour |-> colour]
BlankRow == [c \in 0 .. W - 1 |-> Cell(Blank)]

PaperInit == /\ colour = White
             /\ sheet = [i \in 1 .. Start |-> BlankRow]
             /\ row = 1 /\ col = 0

\* The pen goes to the start of the next row, a new one when there is none.
FeedTo(paper) == /\ row' = row + 1
                 /\ col' = 0
                 /\ sheet' = IF row = Len(sheet) THEN Append(paper, BlankRow) ELSE paper

Type(c) == LET paper == [sheet EXCEPT ![row][col] = Cell(c)]
           IN  /\ IF col = W - 1
                  THEN FeedTo(paper)
                  ELSE sheet' = paper /\ col' = col + 1 /\ row' = row
               /\ UNCHANGED colour

\* Backspace rubs out the character before the pen, in this row only.
Back == /\ IF col = 0 THEN UNCHANGED <<sheet, col>>
           ELSE /\ sheet' = [sheet EXCEPT ![row][col - 1] = Cell(Blank)]
                /\ col' = col - 1
        /\ UNCHANGED <<row, colour>>

\* The next tab stop, when it is on the paper.
Tab == /\ col' = col + TAB - ((col + TAB) % TAB)
       /\ col' < W
       /\ UNCHANGED <<sheet, row, colour>>

Return == col' = 0 /\ UNCHANGED <<sheet, row, colour>>

Feed == FeedTo(sheet) /\ UNCHANGED colour

Dip == colour' \in Colours /\ UNCHANGED <<sheet, row, col>>

PaperNext == \/ \E c \in Chars : Type(c)
             \/ Back \/ Tab \/ Return \/ Feed \/ Dip
=============================================================================
