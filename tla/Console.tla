-------------------------------- MODULE Console --------------------------------
(***************************************************************************)
(* putc() of lib.c on a whole screen: the cursor over rows and columns,    *)
(* scrolling, and the three memories that a backspace goes by.             *)
(*                                                                         *)
(* One terminal, whose programs print while its user types (Screen has     *)
(* several terminals on one line).  `text' is history: what a reader       *)
(* should see, from the top left corner on.                                *)
(***************************************************************************)
EXTENDS Integers, Sequences, SequencesExt

CONSTANTS
  NUM_COLS,    \* columns, 80 in the code
  NUM_ROWS,    \* rows, 25 in the code
  SPACES_NUM,  \* width of a Tab, 4 in the code
  MaxLine,     \* bound: keys typed and not yet taken, 128 in the code
  MaxCleared   \* bound: what display_buf may hold when the screen is cleared

ASSUME ConsoleAssumption ==
  /\ NUM_ROWS \in Nat \ {0, 1} /\ SPACES_NUM \in Nat \ {0}
  /\ NUM_COLS \in Nat /\ NUM_COLS > SPACES_NUM + 1
  /\ MaxLine \in Nat

VARIABLES
  screen_x, screen_y,
  video_mem,       \* the characters of the screen, row after row
  line_is_full,    \* which rows were left because they were full
  prev_screen_x,   \* where a row was left with Enter
  display_buf,     \* what was put, up to display_buf_index
  keyb_index,      \* keys in the line buffer
  text
con  == [x |-> screen_x, y |-> screen_y, cell |-> video_mem, full |-> line_is_full,
         prev |-> prev_screen_x, buf |-> display_buf]
vars == <<screen_x, screen_y, video_mem, line_is_full, prev_screen_x, display_buf, keyb_index, text>>

Rows  == 0 .. NUM_ROWS - 1
Cells == 0 .. NUM_ROWS * NUM_COLS - 1
Chars == {"letter", "tab", "enter"}

Init ==
  /\ screen_x = 0 /\ screen_y = 0
  /\ video_mem = [i \in Cells |-> "blank"]
  /\ line_is_full = [y \in Rows |-> FALSE]
  /\ prev_screen_x = [y \in Rows |-> 0]
  /\ display_buf = <<>>
  /\ keyb_index = 0
  /\ text = <<>>

-----------------------------------------------------------------------------
(* putc().  `s' is a record of its variables.                               *)
Draw(s, c)   == [s EXCEPT !.cell[NUM_COLS * s.y + s.x] = c]
Store(s, c)  == [s EXCEPT !.buf = Append(@, c)]
Forget(s)    == [s EXCEPT !.buf = Front(@)]

(* The buffer is cleaned when it is full, before anything else.              *)
Clean(s)     == IF Len(s.buf) = NUM_COLS * NUM_ROWS THEN [s EXCEPT !.buf = <<>>] ELSE s

(* Everything moves up a row; the last row is blank and keeps its flag.      *)
Scroll(s) ==
  [s EXCEPT !.cell = [i \in Cells |-> IF i + NUM_COLS \in Cells THEN s.cell[i + NUM_COLS] ELSE "blank"],
            !.full = [y \in Rows |-> IF y + 1 \in Rows THEN s.full[y + 1] ELSE s.full[y]],
            !.prev = [y \in Rows |-> IF y + 1 \in Rows THEN s.prev[y + 1] ELSE s.prev[y]]]

Bug_FlagStays(s) == [s EXCEPT !.x = NUM_COLS - 1, !.y = @ - 1]
IntoFullRow(s)   == [s EXCEPT !.x = NUM_COLS - 1, !.y = @ - 1, !.full[s.y - 1] = FALSE]

Backspace(s) ==
  LET b == Forget(Draw(s, "blank"))
  IN  CASE s.buf # <<>> /\ Last(s.buf) = "tab" -> [b EXCEPT !.x = @ - SPACES_NUM]
        [] OTHER ->
           CASE s.x > 0                -> [b EXCEPT !.x = @ - 1]
             [] s.x = 0 /\ s.y = 0     -> b
             [] s.x = 0 /\ s.y > 0 /\ s.full[s.y - 1]  -> IntoFullRow(b)
             [] s.x = 0 /\ s.y > 0 /\ ~s.full[s.y - 1] -> [b EXCEPT !.x = s.prev[s.y - 1], !.y = @ - 1]

Enter(s) ==
  LET b == [Store(Draw(s, "blank"), "enter") EXCEPT !.prev[s.y] = s.x, !.x = 0]
  IN  IF s.y = NUM_ROWS - 1 THEN Scroll(b) ELSE [b EXCEPT !.y = @ + 1]

Bug_TabToTheEdge(s) == s.x > NUM_COLS - SPACES_NUM
NoRoomForTab(s)     == s.x >= NUM_COLS - SPACES_NUM - 1
Tab(s) ==
  [Store(s, "tab") EXCEPT
     !.cell = [i \in Cells |-> IF i - (NUM_COLS * s.y + s.x) \in 0 .. SPACES_NUM - 1 THEN "blank" ELSE @[i]],
     !.x = @ + SPACES_NUM]

Letter(s) ==
  LET b == [Store(Draw(s, "letter"), "letter") EXCEPT !.x = @ + 1]
  IN  CASE b.x < NUM_COLS -> b
        [] b.x = NUM_COLS /\ s.y < NUM_ROWS - 1 -> [b EXCEPT !.full[s.y] = TRUE, !.y = @ + 1, !.x = 0]
        [] b.x = NUM_COLS /\ s.y = NUM_ROWS - 1 ->
             [Scroll([b EXCEPT !.x = 0]) EXCEPT !.full[NUM_ROWS - 2] = TRUE]

(* What putc() of a character makes of the variables, with the cursor at the  *)
(* end; a Tab without room returns before that.                            *)
Putc(c) ==
  LET s == Clean(con)
      Put == CASE c = "back" -> Draw(Backspace(s), "underscore")
               [] c = "enter" -> Draw(Enter(s), "underscore")
               [] c = "tab" /\ NoRoomForTab(s) -> s
               [] c = "tab" /\ ~NoRoomForTab(s) -> Draw(Tab(s), "underscore")
               [] c = "letter" -> Draw(Letter(s), "underscore")
  IN  \E n \in {Put} :
        /\ screen_x' = n.x /\ screen_y' = n.y /\ video_mem' = n.cell
        /\ line_is_full' = n.full /\ prev_screen_x' = n.prev /\ display_buf' = n.buf

-----------------------------------------------------------------------------
(* Reference, not code.  Where each item of a text begins, counting cells     *)
(* from the top: an Enter goes to the next row, a letter in the last column*)
(* too, a Tab that does not fit is not there.                              *)
Starts(t) ==
  LET Pos[i \in 0 .. Len(t)] ==
        IF i = 0 THEN 0
        ELSE LET p == Pos[i - 1] IN CASE t[i] = "letter" -> p + 1
                                      [] t[i] = "tab"    -> p + SPACES_NUM
                                      [] t[i] = "enter"  -> (p \div NUM_COLS + 1) * NUM_COLS
  IN  Pos
CursorOf(t) == Starts(t)[Len(t)]
Fits(t, c)  == c = "tab" => CursorOf(t) % NUM_COLS < NUM_COLS - SPACES_NUM - 1
(* A text without its first row.                                            *)
Below(t)    == LET first == CHOOSE n \in 0 .. Len(t) : Starts(t)[n] = NUM_COLS
               IN  SubSeq(t, first + 1, Len(t))
Shown(t)    == IF CursorOf(t) < NUM_COLS * NUM_ROWS THEN t ELSE Below(t)
Write(c)    == text' = IF Fits(text, c) THEN Shown(Append(text, c)) ELSE text
Erase       == text' = IF text = <<>> THEN text ELSE Front(text)

-----------------------------------------------------------------------------
(* A program prints, and reads the line.                                    *)
Output(c) == Putc(c) /\ Write(c) /\ UNCHANGED keyb_index
Read ==
  /\ keyb_index > 0 /\ keyb_index' = 0
  /\ UNCHANGED <<screen_x, screen_y, video_mem, line_is_full, prev_screen_x, display_buf, text>>

(* keyb_intr_handler(): a key is echoed and counted, also a Tab that is not   *)
(* shown; Backspace needs a line.                                          *)
Key(c) ==
  /\ keyb_index < MaxLine
  /\ keyb_index' = keyb_index + 1
  /\ Putc(c) /\ Write(c)

(* Left out is a Backspace with nothing in display_buf, or with a Tab there   *)
(* that has left the screen: putc() would then go out of its arrays.       *)
InBuffer == /\ Clean(con).buf # <<>>
            /\ text = <<>> => Last(display_buf) # "tab"
BackspaceKey ==
  /\ keyb_index > 0 /\ InBuffer
  /\ keyb_index' = keyb_index - 1
  /\ Putc("back") /\ Erase

(* Ctrl-L: clear() forgets the screen but not what backspaces go by.  Left out *)
(* is a Ctrl-L while a row is marked full.                                 *)
NoRowFull == \A y \in Rows : ~line_is_full[y]
Clear ==
  /\ NoRowFull /\ Len(display_buf) <= MaxCleared
  /\ video_mem' = [i \in Cells |-> "blank"]
  /\ screen_x' = 0 /\ screen_y' = 0
  /\ text' = <<>>
  /\ UNCHANGED <<line_is_full, prev_screen_x, display_buf, keyb_index>>

Next ==
  \/ \E c \in Chars : Output(c) \/ Key(c)
  \/ Read \/ BackspaceKey \/ Clear
Spec == Init /\ [][Next]_vars

-----------------------------------------------------------------------------
(* The cursor of putc() is on the screen, and its buffers are within their    *)
(* lengths.                                                                *)
TypeOK ==
  /\ screen_x \in 0 .. NUM_COLS - 1 /\ screen_y \in Rows
  /\ video_mem \in [Cells -> {"letter", "blank", "underscore"}]
  /\ line_is_full \in [Rows -> BOOLEAN] /\ prev_screen_x \in [Rows -> 0 .. NUM_COLS - 1]
  /\ display_buf \in Seq(Chars) /\ Len(display_buf) <= NUM_COLS * NUM_ROWS
  /\ keyb_index \in 0 .. MaxLine

(* After any sequence of output, keys and backspaces, over full rows, empty    *)
(* rows, Tabs and scrolling, the screen shows the text that is left of it, *)
(* nothing else, and putc() has its cursor at the end: line_is_full,       *)
(* prev_screen_x and display_buf, which scroll and wrap in their own ways, *)
(* together remember what a backspace has to go back over.                 *)
ScreenShowsText ==
  LET pos    == Starts(text)
      drawn  == {pos[i - 1] : i \in {k \in 1 .. Len(text) : text[k] = "letter"}}
      cursor == CursorOf(text)
  IN  /\ NUM_COLS * screen_y + screen_x = cursor
      /\ \A i \in Cells \ {cursor} : video_mem[i] = IF i \in drawn THEN "letter" ELSE "blank"
      /\ video_mem[cursor] \in {"underscore", "blank"}
=============================================================================
