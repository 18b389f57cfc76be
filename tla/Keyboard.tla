----------------------------- MODULE Keyboard -----------------------------
(***************************************************************************)
(* A line of input: the keyboard and its controller (external), scanning   *)
(* (src/src/keyboard.c), read_char (syscall.c) and gets on top of it       *)
(* (src/usr/lib/stdio.c).                                                  *)
(*                                                                         *)
(* Nothing reads the controller but read_char: until a program reads,      *)
(* codes pile up in the controller, and when there are none its port gives *)
(* the last one again.  A held key repeats.  Two keys can have one entry   *)
(* in keys[]: the digits of the keypad share those of the main block.      *)
(*                                                                         *)
(* typed, delivered, began, lost and clash are history variables: the       *)
(* characters the presses stand for, those that read_char has returned and *)
(* how many of them when gets was called, whether the controller or the    *)
(* driver has dropped a code, and whether two keys with one entry were     *)
(* down together.                                                          *)
(***************************************************************************)
EXTENDS Naturals, SequencesExt

CONSTANTS
    Keys,           \* the keys of the keyboard
    Code,           \* SCAN_SET: the character that stands for a key
    Shifts,         \* LSHIFT_CODE and RSHIFT_CODE
    Silent,         \* characters that are not valid: the modifiers
    Shifted,        \* translate_code with shift down
    LF, BS, NUL,    \* '\n', '\b' and '\0'
    Garbage,        \* what an array holds that nobody has filled
    Depth,          \* codes the controller holds
    Size,           \* the size given to gets
    MaxEvents       \* bound: presses, repeats and releases

Codes == {Code[k] : k \in Keys}

ASSUME KeyboardAssumption ==
    /\ Shifts \subseteq Silent /\ Size \in Nat \ {0, 1} /\ Depth \in Nat \ {0}
    /\ LF # BS /\ {LF, BS} \intersect Silent = {}
    /\ NUL \in Codes => NUL \in Silent

VARIABLES
    down, events,                   \* the typist: keys held, events so far
    wire, port,                     \* the controller: queued codes, the last one read
    keys, is_scanning,              \* keyboard.c
    mode, buf, i,                   \* gets: "idle" or "reading", buffer and index
    typed, delivered, began, lost, clash

typist == <<down, events>>
device == <<wire, port>>
driver == <<keys, is_scanning>>
gets   == <<mode, buf, i>>

keyboardVars == <<typist, device, driver, gets, typed, delivered, began, lost, clash>>

\* A byte: the press or release of a code, or the answer to a command.
Byte(c, up) == [code |-> c, up |-> up]
Ack == Byte(NUL, TRUE)

KeyboardInit ==
    /\ down = {} /\ events = 0
    /\ wire = <<>> /\ port = Ack
    /\ keys = {} /\ is_scanning = FALSE
    /\ mode = "idle" /\ buf = [n \in 0 .. Size - 1 |-> Garbage] /\ i = 0
    /\ typed = <<>> /\ delivered = <<>> /\ began = 0 /\ lost = FALSE /\ clash = FALSE

-----------------------------------------------------------------------------
(* The typist and the controller. *)

Translated(c, held) == IF held \intersect Shifts # {} THEN Shifted[c] ELSE c

Send(b) == IF Len(wire) < Depth
           THEN wire' = Append(wire, b) /\ UNCHANGED lost
           ELSE lost' = TRUE /\ UNCHANGED wire

Event == events < MaxEvents /\ events' = events + 1
DownCodes(ks) == {Code[k] : k \in ks}

Press(k) == /\ Event
            /\ k \notin down
            /\ down' = down \union {k}
            /\ clash' = (clash \/ Code[k] \in DownCodes(down))
            /\ typed' = IF Code[k] \in Silent THEN typed
                        ELSE Append(typed, Translated(Code[k], DownCodes(down)))
            /\ Send(Byte(Code[k], FALSE))
            /\ UNCHANGED <<port, driver, gets, delivered, began>>

Repeat(k) == /\ Event
             /\ k \in down
             /\ Send(Byte(Code[k], FALSE))
             /\ UNCHANGED <<down, port, driver, gets, typed, delivered, began, clash>>

Release(k) == /\ Event
              /\ k \in down
              /\ down' = down \ {k}
              /\ Send(Byte(Code[k], TRUE))
              /\ UNCHANGED <<port, driver, gets, typed, delivered, began, clash>>

-----------------------------------------------------------------------------
(* gets. *)

CallGets == /\ mode = "idle"
            /\ mode' = "reading"
            /\ buf' = [n \in 0 .. Size - 1 |-> Garbage] /\ i' = 0
            /\ began' = Len(delivered)
            /\ UNCHANGED <<typist, device, driver, typed, delivered, lost, clash>>

\* The loop goes on at n, or ends: then gets returns n.
GoOn(b, n) == IF n < Size - 1
              THEN buf' = b /\ i' = n /\ UNCHANGED mode
              ELSE buf' = [b EXCEPT ![Size - 1] = NUL] /\ i' = n /\ mode' = "returned"

\* Mutant: a backspace puts i back to the start of the line.
HandleRestarts(ch) == CASE ch = LF -> /\ buf' = [buf EXCEPT ![i] = NUL]
                                      /\ mode' = "returned"
                                      /\ UNCHANGED i
                        [] ch = BS -> GoOn(buf, IF i = 0 THEN 1 ELSE 0)
                        [] OTHER   -> GoOn([buf EXCEPT ![i] = ch], i + 1)

\* The i++ of the loop follows a backspace as well.
Handle(ch) == CASE ch = LF -> /\ buf' = [buf EXCEPT ![i] = NUL]
                              /\ mode' = "returned"
                              /\ UNCHANGED i
                [] ch = BS -> GoOn(buf, IF i = 0 THEN 1 ELSE i)
                [] OTHER   -> GoOn([buf EXCEPT ![i] = ch], i + 1)

\* The caller uses the line and may read another.
UseLine == /\ mode = "returned"
           /\ mode' = "idle"
           /\ UNCHANGED <<typist, device, driver, buf, i, typed, delivered, began, lost,
                           clash>>

-----------------------------------------------------------------------------
(* read_char: one step per keyboard_scan. *)

\* The first scan turns scanning on, although it is on from boot: the answer
\* goes to the end of the queue, and what is read in its place is dropped.
Enabled == Tail(Append(wire, Ack))
Eaten   == ~is_scanning /\ wire # <<>>

\* keyboard_scan: the character, NUL when there is none or a key was released.
\* Mutant: a code is reported whether or not it was down.
ScanAgain(b) == [code |-> IF b.up THEN NUL ELSE b.code,
                 keys |-> IF b.up THEN keys \ {b.code} ELSE keys \union {b.code}]

\* Mutant: a release leaves the entry as it is.
ScanStuck(b) == [code |-> IF b.up \/ b.code \in keys THEN NUL ELSE b.code,
                 keys |-> IF b.up THEN keys ELSE keys \union {b.code}]

Scan(b) == [code |-> IF b.up \/ b.code \in keys THEN NUL ELSE b.code,
            keys |-> IF b.up THEN keys \ {b.code} ELSE keys \union {b.code}]

is_code_valid(c) == c # NUL /\ c \notin Silent

Poll ==
    /\ mode = "reading"
    /\ is_scanning' = TRUE
    /\ lost' = (lost \/ Eaten)
    /\ LET queue == IF is_scanning THEN wire ELSE Enabled
           byte  == IF queue = <<>> THEN port ELSE Head(queue)
           scan  == Scan(byte)
           ch    == Translated(scan.code, scan.keys)
       IN  /\ wire' = IF queue = <<>> THEN queue ELSE Tail(queue)
           /\ port' = byte
           /\ keys' = scan.keys
           /\ IF is_code_valid(scan.code)
              THEN Handle(ch) /\ delivered' = Append(delivered, ch)
              ELSE UNCHANGED <<gets, delivered>>
    /\ UNCHANGED <<typist, typed, began, clash>>

KeyboardNext ==
    \/ \E k \in Keys : Press(k) \/ Repeat(k) \/ Release(k)
    \/ CallGets \/ UseLine \/ Poll

KeyboardSpec == KeyboardInit /\ [][KeyboardNext]_keyboardVars
\* The loop of read_char polls with interrupts off; nothing holds it up.
FairSpec == KeyboardSpec /\ WF_keyboardVars(Poll)

-----------------------------------------------------------------------------
Reliable == ~lost /\ ~clash

\* A key is typed once: read_char returns one character for each press, in the
\* order of the presses and shifted as at the press, however long the code
\* waits, whatever repeats in between, and however often the port is read; and
\* when the queue is empty nothing is missing.
OnceEach == Reliable => /\ IsPrefix(delivered, typed)
                        /\ is_scanning /\ wire = <<>> => delivered = typed

\* The characters delivered behind the first f that are text, and where they
\* belong in a line that begins there: hole is 1 if the first character is a
\* backspace, and then the first place of the line is left empty.
Kept(f)           == {m \in f + 1 .. Len(delivered) : delivered[m] \notin {LF, BS}}
Place(f, hole, m) == hole + Cardinality({l \in Kept(f) : l < m})
InLine(f, hole)   == /\ i = hole + Cardinality(Kept(f))
                     /\ hole = 1 <=> f < Len(delivered) /\ delivered[f + 1] = BS
                     /\ hole = 1 => buf[0] = Garbage
                     /\ \A m \in Kept(f) : buf[Place(f, hole, m)] = delivered[m]

\* The newline comes last, and if there is none the buffer is full.
NoNewline(f) == \A m \in f + 1 .. Len(delivered) : delivered[m] # LF
Ended(f)     == /\ \A m \in f + 1 .. Len(delivered) - 1 : delivered[m] # LF
                /\ NoNewline(f) => i = Size - 1

\* The line of gets is every character that was delivered since gets was called, up
\* to the newline or as many as the buffer takes, in order, backspaces left out (they
\* rub out nothing), behind a hole if the first of them was one, and behind them the
\* terminator, within the size that was given: the line never begins anew.
\* stdio.c:92 "make sure that the string is always null terminated".
LineWhole ==
    mode = "returned" =>
        /\ i < Size /\ buf[i] = NUL
        /\ \E hole \in {0, 1} : InLine(began, hole)
        /\ Ended(began)

\* A reader gets what is typed: gets does not sit before a press that nobody
\* has read.
PressesArrive ==
    mode = "reading" /\ Len(delivered) < Len(typed)
        ~> mode # "reading" \/ Len(delivered) = Len(typed) \/ ~Reliable
=============================================================================
