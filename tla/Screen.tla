------------------------------- MODULE Screen -------------------------------
(***************************************************************************)
(* Who writes on which screen: one VGA frame, one saved page a terminal,    *)
(* and the globals video_mem and screen_x that putc() writes through (lib.c),*)
(* redirected by the keyboard handler (keyboard.c), terminal_switch()       *)
(* (terminal.c) and, on every tick, memory_switch() (execute.c); and the    *)
(* page through which a program that called vidmap() draws (syscall.c).     *)
(*                                                                         *)
(* A character is the terminal it belongs to.  A frame is one line of text   *)
(* that does not scroll; the '_' that marks the cursor is a blank, and what *)
(* a program draws through its map is left out, only where it would go is   *)
(* not.  A write() is one step (cli to sti); a print of the kernel with     *)
(* interrupts on, as in halt(), is three; so is vidmap(); what halt() does  *)
(* about the map is two, and memory_switch() is one.                       *)
(***************************************************************************)
EXTENDS Integers

CONSTANTS
  MAX_TERMINAL_NUM,   \* 3 in the code
  Width,              \* bound: cells of the line
  Windows             \* where a tick may interrupt the keyboard handler

ASSUME ScreenAssumption == /\ MAX_TERMINAL_NUM \in Nat \ {0}
                           /\ Width \in Nat \ {0}
                           /\ Windows \subseteq {"display", "memory", "end"}

Terminals == 0 .. MAX_TERMINAL_NUM - 1
Vga == -1                        \* VIDEO_MEMORY_ADDR
Frames == {Vga} \cup Terminals   \* t stands for terminal_list[t].video_page
Nobody == -1

VARIABLES
  vram,        \* the contents of the frames
  video_mem,   \* the frame putc() writes to
  screen_x,    \* the cell it writes next
  x_cursor,    \* terminal_list[t].x_cursor
  displayed,   \* curr_terminal_num
  scheduled,   \* scheduled_terminal->tid
  vid_map,     \* page_vid_table[0]: the page at 132MB
  vidmap,      \* terminal_list[t].vidmap
  program,     \* the programs of each terminal: where in the kernel the one
               \* that runs is, the display_tid it read there; and, as history,
               \* whether one of them has called vidmap() and no halt() has
               \* taken its map since
  handler,     \* the keyboard handler in progress, on whose stack
  out          \* history: the number of characters the line of a terminal
               \* should have, Lost once an interrupt disturbed its output
vars == <<vram, video_mem, screen_x, x_cursor, displayed, scheduled, vid_map,
          vidmap, program, handler, out>>
cursors == <<video_mem, screen_x, x_cursor>>

Empty == [i \in 1 .. Width |-> Nobody]
Lost == -1
NoHandler == [pc |-> "none", next |-> -1, host |-> -1]

Init ==
  /\ vram = [f \in Frames |-> Empty]
  /\ video_mem = Vga /\ screen_x = 0
  /\ x_cursor = [t \in Terminals |-> 0]
  /\ displayed = 0 /\ scheduled = 0
  /\ vid_map = [frame |-> Vga, present |-> FALSE]
  /\ vidmap = [t \in Terminals |-> FALSE]
  /\ program = [t \in Terminals |-> [pc |-> "user", display |-> -1, mapped |-> FALSE]]
  /\ handler = NoHandler
  /\ out = [t \in Terminals |-> 0]

FrameOf(t) == IF t = displayed THEN Vga ELSE t
NextTerminal(t) == (t + 1) % MAX_TERMINAL_NUM

(* The program of t has the CPU, and no handler on its stack.               *)
Running(t) == scheduled = t /\ handler.host # t
At(t, pc) == Running(t) /\ program[t].pc = pc
Go(t, pc) == program' = [program EXCEPT ![t].pc = pc]

(* Terminal t should now show n characters, and those of S are disturbed.     *)
Expect(t, n, S) == out' = [u \in Terminals |->
  IF u \in S \/ out[u] = Lost THEN Lost ELSE IF u = t THEN n ELSE out[u]]

(* Operators named Bug_... are mutants: slips that the properties below must *)
(* find.  Here the cursor is always stored for the scheduled terminal.     *)
Bug_ForScheduled(t, frame, at) ==
  /\ at < Width
  /\ vram' = [vram EXCEPT ![frame][at + 1] = t]
  /\ screen_x' = at + 1
  /\ x_cursor' = [x_cursor EXCEPT ![scheduled] = at + 1]

(* putc() of a character (lib.c:328-365) of terminal t, which is stored as   *)
(* the owner of the cursor.                                                *)
Putc(t, frame, at) ==
  /\ at < Width
  /\ vram' = [vram EXCEPT ![frame][at + 1] = t]
  /\ screen_x' = at + 1
  /\ x_cursor' = [x_cursor EXCEPT ![t] = at + 1]

-----------------------------------------------------------------------------
(* terminal_write() (terminal.c:105-117), of one character.                 *)
Write(t) ==
  /\ At(t, "user")
  /\ Putc(t, video_mem, screen_x)
  /\ Expect(t, out[t] + 1, {})
  /\ UNCHANGED <<video_mem, displayed, scheduled, vid_map, vidmap, program, handler>>

(* A character printed by the kernel with interrupts on (execute.c:121,       *)
(* terminal.c:21, 82): the same statements, with interrupts in between.    *)
PrintDraw(t) ==
  /\ At(t, "user") /\ screen_x < Width
  /\ vram' = [vram EXCEPT ![video_mem][screen_x + 1] = t]
  /\ Expect(t, out[t] + 1, {})
  /\ Go(t, "advance")
  /\ UNCHANGED <<cursors, displayed, scheduled, vid_map, vidmap, handler>>

PrintAdvance(t) ==
  /\ At(t, "advance") /\ screen_x < Width
  /\ screen_x' = screen_x + 1
  /\ Go(t, "store")
  /\ UNCHANGED <<vram, video_mem, x_cursor, displayed, scheduled, vid_map, vidmap, handler, out>>

PrintStore(t) ==
  /\ At(t, "store")
  /\ x_cursor' = [x_cursor EXCEPT ![t] = screen_x]
  /\ Go(t, "user")
  /\ UNCHANGED <<vram, video_mem, screen_x, displayed, scheduled, vid_map, vidmap, handler, out>>

(* vidmap() (syscall.c:174-199), with interrupts on: set_user_video_map()     *)
(* (page.c:106-119), the look at the display, set_vid_map().               *)
VidmapAll(t) ==
  /\ At(t, "user")
  /\ vid_map' = [frame |-> Vga, present |-> TRUE]
  /\ Go(t, "look")
  /\ UNCHANGED <<vram, cursors, displayed, scheduled, vidmap, handler, out>>

VidmapLook(t) ==
  /\ At(t, "look")
  /\ program' = [program EXCEPT ![t].pc = "set", ![t].display = displayed]
  /\ UNCHANGED <<vram, cursors, displayed, scheduled, vid_map, vidmap, handler, out>>

VidmapSet(t) ==
  /\ At(t, "set")
  /\ vidmap' = [vidmap EXCEPT ![t] = TRUE]
  /\ vid_map' = [frame |-> IF program[t].display = t THEN Vga ELSE t, present |-> TRUE]
  /\ program' = [program EXCEPT ![t] = [pc |-> "user", display |-> -1, mapped |-> TRUE]]
  /\ UNCHANGED <<vram, cursors, displayed, scheduled, handler, out>>

(* The part of halt() about the map, with interrupts on (execute.c:145-150):  *)
(* the look at the display, then, if the flag of the terminal is set, this *)
(* flag and that of the terminal seen are cleared, whichever process ends: *)
(* the one that called vidmap(), or a program it has executed.  (Without a *)
(* map on the terminal nothing happens.)  A program that draws through a   *)
(* map that is not present gets here by a page fault (idt.c:247-253).      *)
HaltLook(t) ==
  /\ At(t, "user") /\ program[t].mapped
  /\ program' = [program EXCEPT ![t].pc = "halt", ![t].display = displayed]
  /\ UNCHANGED <<vram, cursors, displayed, scheduled, vid_map, vidmap, handler, out>>

HaltClear(t) ==
  /\ At(t, "halt")
  /\ vidmap' = IF vidmap[t] THEN [vidmap EXCEPT ![t] = FALSE, ![program[t].display] = FALSE]
               ELSE vidmap
  /\ program' = [u \in Terminals |->
       CASE u = t -> [pc |-> "user", display |-> -1, mapped |-> FALSE]
         [] u # t /\ u = program[t].display /\ program[t].mapped -> [program[u] EXCEPT !.mapped = FALSE]
         [] OTHER -> program[u]]
  /\ UNCHANGED <<vram, cursors, displayed, scheduled, vid_map, handler, out>>

-----------------------------------------------------------------------------
(* The map never follows a terminal that comes on display.                  *)
Bug_MapThePage(t) ==
  /\ screen_x' = x_cursor[t]
  /\ video_mem' = FrameOf(t)
  /\ vid_map' = [frame |-> t, present |-> vidmap[t]]

(* memory_switch() for the terminal that is next (execute.c:332-350).        *)
MemorySwitch(t) ==
  /\ screen_x' = x_cursor[t]
  /\ video_mem' = FrameOf(t)
  /\ vid_map' = [frame |-> FrameOf(t), present |-> vidmap[t]]

MidPrint == {t \in Terminals : program[t].pc \in {"advance", "store"}}

(* A tick: memory_switch(), then scheduler() (pit.c:28-33).                 *)
Tick ==
  /\ handler.host = scheduled => handler.pc \in Windows
  /\ MemorySwitch(NextTerminal(scheduled))
  /\ scheduled' = NextTerminal(scheduled)
  /\ Expect(displayed, out[displayed], MidPrint)
  /\ UNCHANGED <<vram, x_cursor, displayed, vidmap, program, handler>>

-----------------------------------------------------------------------------
(* keyb_intr_handler(), keyboard.c:110-233: every key goes to the terminal on *)
(* display.  What it disturbs is the program it interrupted, if that one is *)
(* printing, or not on display: the cursor is not put back at the end.     *)
KeyComes == handler.pc = "none"
Disturbed == MidPrint \cup ({scheduled} \ {displayed})

ToEnd == handler' = [pc |-> "end", next |-> -1, host |-> scheduled]

(* A character, its echo with keyb_pressed set (214-217).                   *)
Echo ==
  /\ KeyComes
  /\ video_mem' = Vga
  /\ Putc(displayed, Vga, x_cursor[displayed])
  /\ ToEnd
  /\ Expect(displayed, out[displayed] + 1, Disturbed)
  /\ UNCHANGED <<displayed, scheduled, vid_map, vidmap, program>>

(* Nothing is special about the upper left corner.                          *)
Bug_BackspaceAtZero ==
  /\ KeyComes
  /\ LET x == x_cursor[displayed] IN
       /\ vram' = [vram EXCEPT ![Vga] = [i \in 1 .. Width |-> IF i = x THEN Nobody ELSE @[i]]]
       /\ screen_x' = x - 1
       /\ x_cursor' = [x_cursor EXCEPT ![displayed] = x - 1]
       /\ Expect(displayed, out[displayed] - 1, Disturbed)
  /\ video_mem' = Vga
  /\ ToEnd
  /\ UNCHANGED <<displayed, scheduled, vid_map, vidmap, program>>

(* Backspace (202-212; lib.c:244-282).                                      *)
Backspace ==
  /\ KeyComes
  /\ LET x == x_cursor[displayed] IN
       IF x = 0 THEN /\ screen_x' = x /\ UNCHANGED <<vram, x_cursor>>
                     /\ Expect(displayed, out[displayed], Disturbed)
       ELSE /\ vram' = [vram EXCEPT ![Vga][x] = Nobody]
            /\ screen_x' = x - 1
            /\ x_cursor' = [x_cursor EXCEPT ![displayed] = x - 1]
            /\ Expect(displayed, out[displayed] - 1, Disturbed)
  /\ video_mem' = Vga
  /\ ToEnd
  /\ UNCHANGED <<displayed, scheduled, vid_map, vidmap, program>>

(* Ctrl-L (159-162): clear() (lib.c:25-36).                                 *)
Clear ==
  /\ KeyComes
  /\ vram' = [vram EXCEPT ![Vga] = Empty]
  /\ video_mem' = Vga /\ screen_x' = 0
  /\ x_cursor' = [x_cursor EXCEPT ![displayed] = 0]
  /\ Expect(displayed, 0, Disturbed)
  /\ ToEnd
  /\ UNCHANGED <<displayed, scheduled, vid_map, vidmap, program>>

(* The release of a key, or a key that is not mapped (154-156, 182).         *)
OtherKey ==
  /\ KeyComes
  /\ video_mem' = Vga /\ screen_x' = x_cursor[displayed]
  /\ ToEnd
  /\ Expect(displayed, out[displayed], Disturbed)
  /\ UNCHANGED <<vram, x_cursor, displayed, scheduled, vid_map, vidmap, program>>

(* The new screen is copied in before the old one is saved.                  *)
Bug_LoadThenSave(n) ==
  /\ KeyComes /\ n # displayed
  /\ vram' = [vram EXCEPT ![displayed] = vram[n], ![Vga] = vram[n]]
  /\ video_mem' = Vga /\ screen_x' = x_cursor[n]
  /\ handler' = [pc |-> "display", next |-> n, host |-> scheduled]
  /\ Expect(displayed, out[displayed], MidPrint \cup {scheduled})
  /\ UNCHANGED <<x_cursor, displayed, scheduled, vid_map, vidmap, program>>

(* terminal_switch(n) up to its first sti() (terminal.c:159-173): the screens *)
(* are copied and the cursor changed; the lines are in Input.              *)
SwitchCopy(n) ==
  /\ KeyComes /\ n # displayed
  /\ vram' = [vram EXCEPT ![displayed] = vram[Vga], ![Vga] = vram[n]]
  /\ video_mem' = Vga /\ screen_x' = x_cursor[n]
  /\ handler' = [pc |-> "display", next |-> n, host |-> scheduled]
  /\ Expect(displayed, out[displayed], MidPrint \cup {scheduled})
  /\ UNCHANGED <<x_cursor, displayed, scheduled, vid_map, vidmap, program>>

(* curr_terminal_num (175) and then memory_switch() (176), which is about the *)
(* terminal after the scheduled one.                                       *)
SwitchDisplay ==
  /\ handler.pc = "display" /\ scheduled = handler.host
  /\ displayed' = handler.next
  /\ handler' = [handler EXCEPT !.pc = "memory", !.next = -1]
  /\ UNCHANGED <<vram, cursors, scheduled, vid_map, vidmap, program, out>>

SwitchMemory ==
  /\ handler.pc = "memory" /\ scheduled = handler.host
  /\ MemorySwitch(NextTerminal(scheduled))
  /\ handler' = [handler EXCEPT !.pc = "end"]
  /\ UNCHANGED <<vram, x_cursor, displayed, scheduled, vidmap, program, out>>

(* video_mem is left at the terminal on display.                            *)
Bug_LeftAtVga ==
  /\ handler.pc = "end" /\ scheduled = handler.host
  /\ video_mem' = Vga
  /\ handler' = NoHandler
  /\ UNCHANGED <<vram, screen_x, x_cursor, displayed, scheduled, vid_map, vidmap, program, out>>

(* The end of the handler, after its sti() (223-232).                       *)
RestoreVideo ==
  /\ handler.pc = "end" /\ scheduled = handler.host
  /\ video_mem' = FrameOf(scheduled)
  /\ handler' = NoHandler
  /\ UNCHANGED <<vram, screen_x, x_cursor, displayed, scheduled, vid_map, vidmap, program, out>>

-----------------------------------------------------------------------------
Program(t) == \/ Write(t) \/ PrintDraw(t) \/ PrintAdvance(t) \/ PrintStore(t)
              \/ VidmapAll(t) \/ VidmapLook(t) \/ VidmapSet(t)
              \/ HaltLook(t) \/ HaltClear(t)

Keyboard == \/ Echo \/ Backspace \/ Clear \/ OtherKey
            \/ \E n \in Terminals : SwitchCopy(n)
            \/ SwitchDisplay \/ SwitchMemory \/ RestoreVideo

Next == (\E t \in Terminals : Program(t)) \/ Keyboard \/ Tick

Spec == Init /\ [][Next]_vars

-----------------------------------------------------------------------------
Cells == Terminals \cup {Nobody}

(* Type invariant: the cursors stay on the screen and every redirection ends  *)
(* in a frame.                                                             *)
TypeOK ==
  /\ vram \in [Frames -> [1 .. Width -> Cells]]
  /\ video_mem \in Frames /\ screen_x \in 0 .. Width
  /\ x_cursor \in [Terminals -> 0 .. Width]
  /\ displayed \in Terminals /\ scheduled \in Terminals
  /\ vid_map \in [frame : Frames, present : BOOLEAN]
  /\ vidmap \in [Terminals -> BOOLEAN]
  /\ program \in [Terminals -> [pc : {"user", "advance", "store", "look", "set", "halt"},
                                display : Terminals \cup {-1}, mapped : BOOLEAN]]
  /\ \/ handler = NoHandler
     \/ handler \in [pc : {"display", "memory", "end"}, next : Terminals \cup {-1},
                     host : Terminals]
  /\ out \in [Terminals -> (0 .. Width) \cup {Lost}]

(* What terminal t shows, or would show: terminal_switch() has exchanged the  *)
(* frames before it changes curr_terminal_num.                             *)
Shown == IF handler.pc = "display" THEN handler.next ELSE displayed
ScreenOf(t) == vram[IF t = Shown THEN Vga ELSE t]

(* Whichever program is interrupted where, and by which key, no character of  *)
(* one terminal gets on the screen of another: video_mem is right again    *)
(* before the program goes on.                                             *)
TextNotMixed == \A t \in Terminals : \A i \in 1 .. Width :
  ScreenOf(t)[i] \in {t, Nobody}

(* The line of a terminal is its output, every character of it in order, as   *)
(* long as no key has come in its program's turn while another terminal    *)
(* was on display, no switch in its turn, and nothing in the middle of a   *)
(* print with interrupts on.                                               *)
OutputShown == \A t \in Terminals : out[t] # Lost =>
  ScreenOf(t) = [i \in 1 .. Width |-> IF i <= out[t] THEN t ELSE Nobody]

(* A screen changes under its own program or under a key for the terminal on  *)
(* display, and is otherwise kept over every switch and tick.              *)
ScreensKept == [][\A t \in Terminals :
  ScreenOf(t)' # ScreenOf(t) =>
    \/ Running(t) /\ UNCHANGED <<displayed, scheduled, handler>>
    \/ t = displayed /\ handler.pc = "none" /\ handler'.pc = "end"]_vars

(* However a key left the cursor, video_mem and the map, the next turn of a   *)
(* terminal starts with its own: memory_switch() on every tick, with the   *)
(* flag that vidmap() set and halt() cleared.  The map is there if a       *)
(* program of the terminal has called vidmap(), and since then no process  *)
(* of the terminal has ended (execute.c:148), and none of another terminal *)
(* with a map while this one was on display (149); otherwise there is none.*)
TurnStartsRight == [][\A t \in Terminals :
  scheduled # t /\ scheduled' = t =>
    /\ video_mem' = FrameOf(t) /\ screen_x' = x_cursor[t]
    /\ vid_map' = [frame |-> FrameOf(t), present |-> program[t].mapped]]_vars

(* vidmap(): "map the video memory to the virtual memory" (syscall.c:170): a  *)
(* terminal keeps its map until one of its own processes ends.  The code   *)
(* does not keep this (execute.c:149).                                     *)
MapIsKept == [][\A t \in Terminals :
  program[t].mapped /\ ~program'[t].mapped => scheduled = t]_vars

(* And while the program runs, its own screen is there.  The code does not    *)
(* keep this either: a terminal switch maps the next terminal's            *)
(* (terminal.c:176).                                                       *)
MappedWhileRunning == \A t \in Terminals :
  At(t, "user") /\ program[t].mapped => vid_map = [frame |-> FrameOf(t), present |-> TRUE]
=============================================================================
