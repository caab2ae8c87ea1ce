-------------------------------- MODULE Terminal -------------------------------
(* The keyboard and the display (devices/kbd.c, devices/vga.c).  The two    *)
(* share nothing: KeyNext are the steps of the one, DisplayNext of the      *)
(* other.  A key event is one interrupt; a character is written with        *)
(* interrupts off, except for the beep, during which others write.          *)
EXTENDS Integers, FiniteSets, Sequences
CONSTANTS
  Key,         \* the keys: each [prefix |-> BOOLEAN, code |-> Nat]
  MaxHeld,     \* keys that are down at once (bound)
  InputSize,   \* keys the input buffer holds
  Chars,       \* printable characters of the display
  Cols, Rows, Tab,  \* of the display and its tab stops
  Half,        \* values of half of the cursor register
  MaxWritten,  \* characters written in a behaviour (bound)
  Blank

\* A code has seven bits, and the places of the display fit its cursor register.
TerminalAssumption ==
  /\ Key \subseteq [prefix : BOOLEAN, code : 0..127]
  /\ {Cols, Rows, Tab, Half} \subseteq Nat \ {0} /\ Cols * Rows <= Half * Half

VARIABLES
  held,        \* keys that are down
  mods,        \* left_shift .. right_ctrl, as a set of the codes of those down
  caps,        \* caps_lock
  capsHeld,    \* whether Caps Lock was pressed an odd number of times
  input,       \* the input buffer
  last,        \* the key just pressed, with what was down, and what it typed
  fb, cx, cy,  \* the frame buffer and the cursor
  cursor,      \* the cursor register, by halves
  beeping,     \* writers in speaker_beep
  paper,       \* what was written, on a roll of paper that does not end (ghost)
  written      \* the number of characters written (ghost)

keyVars == <<held, mods, caps, capsHeld, input, last>>
displayVars == <<fb, cx, cy, cursor, beeping, paper, written>>
-----------------------------------------------------------------------------
(* A scancode, with its prefix.  The keymaps give a character without and   *)
(* with shift; a letter is upper case in both.                              *)
Prefix == 57344          \* 0xe0 in front of the code
\* Mutant: the prefix is dropped.
CodeOnly(k) == k.code
ScanCode(k) == IF k.prefix THEN Prefix + k.code ELSE k.code

LeftShift == 42    RightShift == 54   CapsLock == 58
LeftAlt == 56      RightAlt == Prefix + 56
LeftCtrl == 29     RightCtrl == Prefix + 29
ShiftKeys == {LeftShift, RightShift, LeftAlt, RightAlt, LeftCtrl, RightCtrl}

KeyMap == [c \in {2, 26, 28, 30, 83} |->
  CASE c = 2 -> [plain |-> 49, shifted |-> 33]     \* 1 and !
    [] c = 26 -> [plain |-> 91, shifted |-> 123]   \* [ and {
    [] c = 28 -> [plain |-> 13, shifted |-> 13]    \* Enter
    [] c = 30 -> [plain |-> 65, shifted |-> 65]    \* A
    [] c = 83 -> [plain |-> 127, shifted |-> 127]] \* Delete

ToLower(c) == IF c \in 65..90 THEN c + 32 ELSE c

Shift == {LeftShift, RightShift} \cap mods # {}
Alt == {LeftAlt, RightAlt} \cap mods # {}
Ctrl == {LeftCtrl, RightCtrl} \cap mods # {}

Reboot == -1             \* no character: shutdown_reboot
Typed(code) ==
  LET c == IF Shift THEN KeyMap[code].shifted ELSE KeyMap[code].plain
      d == IF Ctrl /\ c \in 64..95 THEN c - 64 ELSE IF Shift = caps THEN ToLower(c) ELSE c
  IN IF c = 127 /\ Ctrl /\ Alt THEN Reboot ELSE IF Alt THEN d + 128 ELSE d

NoKey == [code |-> 0, down |-> {}, caps |-> FALSE, typed |-> 0]

KeyInit ==
  held = {} /\ mods = {} /\ caps = FALSE /\ capsHeld = FALSE /\ input = <<>> /\ last = NoKey

\* Mutant: Caps Lock toggles when it comes up, too.
ToggleBothWays(release) == ~caps
Toggle(release) == IF release THEN caps ELSE ~caps

\* keyboard_interrupt for a key that goes down or up.
Interpret(code, release) ==
  CASE code = CapsLock -> caps' = Toggle(release) /\ last' = NoKey /\ UNCHANGED <<mods, input>>
    [] code \in DOMAIN KeyMap ->
         /\ IF release THEN last' = NoKey /\ UNCHANGED input
            ELSE /\ last' = [code |-> code, down |-> held, caps |-> capsHeld, typed |-> Typed(code)]
                 /\ input' = IF Len(input) = InputSize \/ Typed(code) = Reboot THEN input
                             ELSE Append(input, Typed(code))
         /\ UNCHANGED <<mods, caps>>
    [] OTHER ->
         /\ mods' = IF code \notin ShiftKeys THEN mods
                    ELSE IF release THEN mods \ {code} ELSE mods \cup {code}
         /\ last' = NoKey /\ UNCHANGED <<caps, input>>

Press(k) ==
  /\ last.typed # Reboot /\ k \notin held /\ Cardinality(held) < MaxHeld
  /\ held' = held \cup {k}
  /\ capsHeld' = IF ScanCode(k) = CapsLock THEN ~capsHeld ELSE capsHeld
  /\ Interpret(ScanCode(k), FALSE)
Lift(k) ==
  /\ last.typed # Reboot /\ k \in held
  /\ held' = held \ {k} /\ UNCHANGED capsHeld
  /\ Interpret(ScanCode(k), TRUE)

\* A reader takes the oldest key (input_getc).
Take ==
  /\ last.typed # Reboot /\ input # <<>>
  /\ input' = Tail(input) /\ last' = NoKey /\ UNCHANGED <<held, mods, caps, capsHeld>>

\* shutdown_reboot: all keys are up before the driver is there again.
Restart ==
  /\ last.typed = Reboot
  /\ held' = {} /\ mods' = {} /\ caps' = FALSE /\ capsHeld' = FALSE /\ input' = <<>> /\ last' = NoKey

KeyNext == (\E k \in Key : Press(k) \/ Lift(k)) \/ Take \/ Restart
-----------------------------------------------------------------------------
BlankRow == [x \in 0..Cols - 1 |-> Blank]

(* A roll of paper: the rows of all that was written since the last form    *)
(* feed, with the column of the next character.                             *)
OnPaper(p, c) ==
  LET n == Len(p.rows)   stop == ((p.x + Tab) \div Tab) * Tab
      At(x) == IF x < Cols THEN [p EXCEPT !.x = x] ELSE [rows |-> Append(p.rows, BlankRow), x |-> 0]
      marked == [p.rows EXCEPT ![n][p.x] = c] IN
  CASE c = "newline" -> At(Cols)
    [] c = "feed" -> [rows |-> <<BlankRow>>, x |-> 0]
    [] c = "back" -> At(IF p.x = 0 THEN 0 ELSE p.x - 1)
    [] c = "return" -> At(0)
    [] c = "tab" -> At(stop)
    [] OTHER -> IF p.x + 1 < Cols THEN [rows |-> marked, x |-> p.x + 1]
                ELSE [rows |-> Append(marked, BlankRow), x |-> 0]

DisplayInit ==
  /\ fb = [y \in 0..Rows - 1 |-> BlankRow]
  /\ cx = 0 /\ cy \in {0, Rows - 1}
  /\ cursor = [high |-> (Cols * cy) \div Half, low |-> (Cols * cy) % Half]
  /\ beeping = 0 /\ written = 0
  /\ paper = [rows |-> [i \in 1..cy + 1 |-> BlankRow], x |-> 0]

\* Mutant: the row that scrolls in keeps its text.
NewlineDirty(f, y) ==
  IF y + 1 < Rows THEN [fb |-> f, cx |-> 0, cy |-> y + 1]
  ELSE [fb |-> [r \in 0..Rows - 1 |-> IF r < Rows - 1 THEN f[r + 1] ELSE f[r]],
        cx |-> 0, cy |-> Rows - 1]
\* newline: the next row, or the screen moves up.
Newline(f, y) ==
  IF y + 1 < Rows THEN [fb |-> f, cx |-> 0, cy |-> y + 1]
  ELSE [fb |-> [r \in 0..Rows - 1 |-> IF r < Rows - 1 THEN f[r + 1] ELSE BlankRow],
        cx |-> 0, cy |-> Rows - 1]

\* The screen after a character.
Shown(c) ==
  LET here == [fb |-> fb, cx |-> cx, cy |-> cy]
      put == [fb EXCEPT ![cy][cx] = c]
      stop == ((cx + Tab) \div Tab) * Tab IN
  CASE c = "newline" -> Newline(fb, cy)
    [] c = "feed" -> [fb |-> [y \in 0..Rows - 1 |-> BlankRow], cx |-> 0, cy |-> 0]
    [] c = "back" -> [here EXCEPT !.cx = IF cx > 0 THEN cx - 1 ELSE 0]
    [] c = "return" -> [here EXCEPT !.cx = 0]
    [] c = "tab" -> IF stop >= Cols THEN Newline(fb, cy) ELSE [here EXCEPT !.cx = stop]
    [] OTHER -> IF cx + 1 >= Cols THEN Newline(put, cy) ELSE [here EXCEPT !.fb = put, !.cx = cx + 1]

\* move_cursor, in two halves.  Mutant: only the lower one.
MoveCursorLow(x, y) == cursor' = [cursor EXCEPT !.low = (x + Cols * y) % Half]
MoveCursor(x, y) ==
  cursor' = [high |-> ((x + Cols * y) \div Half) % Half, low |-> (x + Cols * y) % Half]

Putc(c) ==
  /\ written < MaxWritten
  /\ fb' = Shown(c).fb /\ cx' = Shown(c).cx /\ cy' = Shown(c).cy
  /\ MoveCursor(cx', cy')
  /\ paper' = OnPaper(paper, c) /\ written' = written + 1 /\ UNCHANGED beeping

\* The bell: interrupts are on again while it sounds, and others write.
StartBeep == beeping < 2 /\ beeping' = beeping + 1 /\ UNCHANGED <<fb, cx, cy, cursor, paper, written>>
EndBeep ==
  /\ beeping > 0 /\ beeping' = beeping - 1
  /\ MoveCursor(cx, cy) /\ UNCHANGED <<fb, cx, cy, paper, written>>

Controls == {"newline", "feed", "back", "return", "tab"}
DisplayNext == (\E c \in Chars \cup Controls : Putc(c)) \/ StartBeep \/ EndBeep
-----------------------------------------------------------------------------
(* The shift keys are down as far as the driver knows exactly when they     *)
(* are, in whatever order keys go down and up (the prefixed keys are keys   *)
(* of their own), and so is Caps Lock.                                      *)
Down(codes, keys) == \E k \in keys : ScanCode(k) \in codes
ModifiersExact == mods = {ScanCode(k) : k \in held} \cap ShiftKeys /\ caps = capsHeld

(* A key typed what it should with the keys that were down: a letter is     *)
(* upper case if Shift or Caps Lock but not both, Ctrl takes the bits off   *)
(* that tell letters from control characters, Alt sets the high bit.        *)
TypedRight ==
  LET shift == Down({LeftShift, RightShift}, last.down)
      ctrl == Down({LeftCtrl, RightCtrl}, last.down)
      alt == Down({LeftAlt, RightAlt}, last.down)
      plain == CASE last.code = 30 ->
                      IF ctrl THEN 1 ELSE IF shift # last.caps THEN 65 ELSE 97
                 [] last.code = 26 -> IF shift THEN 123 ELSE IF ctrl THEN 27 ELSE 91
                 [] last.code = 2 -> IF shift THEN 33 ELSE 49
                 [] last.code = 28 -> 13
                 [] OTHER -> 127
  IN last # NoKey =>
       last.typed = IF last.code = 83 /\ ctrl /\ alt THEN Reboot
                    ELSE plain + (IF alt THEN 128 ELSE 0)

KeyboardRight == ModifiersExact /\ TypedRight

(* The screen shows the last rows of what was written, beeps or not, the    *)
(* rows below are blank, and the cursor, also the one the display has, is   *)
(* where the next character goes.                                           *)
DisplayRight ==
  LET rows == paper.rows   above == IF Len(rows) > Rows THEN Len(rows) - Rows ELSE 0 IN
  /\ fb = [y \in 0..Rows - 1 |->
             IF above + y + 1 \in DOMAIN rows THEN rows[above + y + 1] ELSE BlankRow]
  /\ cx = paper.x /\ cy = Len(rows) - above - 1
  /\ cursor.high * Half + cursor.low = cx + Cols * cy
=============================================================================
