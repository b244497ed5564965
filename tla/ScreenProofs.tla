----------------------------- MODULE ScreenProofs -----------------------------
(***************************************************************************)
(* No text on another terminal's screen, and none lost but where Screen     *)
(* says so, for every number of terminals and every width of the line.      *)
(*                                                                         *)
(* A tick at the first sti() of terminal_switch() breaks this (terminal.c:   *)
(* 173), so "display" is not in Windows; a tick may come anywhere else.     *)
(***************************************************************************)
EXTENDS Screen, TLAPS

PcSet == {"user", "advance", "store", "look", "set", "halt"}

(* The parts of TypeOK that need no other invariant.                        *)
Types ==
  /\ vram \in [Frames -> [1 .. Width -> Cells]]
  /\ video_mem \in Frames /\ screen_x \in 0 .. Width
  /\ x_cursor \in [Terminals -> 0 .. Width]
  /\ displayed \in Terminals /\ scheduled \in Terminals
  /\ vid_map \in [frame : Frames, present : BOOLEAN]
  /\ vidmap \in [Terminals -> BOOLEAN]
  /\ program \in [Terminals -> [pc : PcSet, display : Terminals \cup {-1}, mapped : BOOLEAN]]
  /\ \/ handler = NoHandler
     \/ handler \in [pc : {"display", "memory", "end"}, next : Terminals \cup {-1},
                     host : Terminals]
  /\ out \in [Terminals -> (0 .. Width) \cup {Lost}]

(* Whoever runs has video_mem at its own screen; a terminal_switch() that     *)
(* has not changed curr_terminal_num yet has the processor.                *)
VideoRight ==
  /\ handler.host # scheduled => video_mem = FrameOf(scheduled)
  /\ handler.pc = "display" => handler.host = scheduled /\ handler.next \in Terminals

(* A line of n characters of terminal t.                                    *)
Line(t, n) == [i \in 1 .. Width |-> IF i <= n THEN t ELSE Nobody]

(* Where the cursor of terminal t has to be for the rest of its line to come  *)
(* out right: stored, or in screen_x as soon as its program has the        *)
(* processor, with a print that was not interrupted on its way.            *)
CursorRight(t) ==
  /\ program[t].pc \in {"user", "look", "set", "halt"} =>
       /\ x_cursor[t] = out[t]
       /\ scheduled = t /\ (handler.host # t \/ handler.pc = "end") => screen_x = out[t]
  /\ program[t].pc \in {"advance", "store"} =>
       /\ scheduled = t /\ handler.host # t
       /\ screen_x = IF program[t].pc = "store" THEN out[t] ELSE out[t] - 1

LinesRight == \A t \in Terminals : out[t] # Lost => ScreenOf(t) = Line(t, out[t]) /\ CursorRight(t)

(* terminal_switch() gives up the cursor of the program that it interrupts.  *)
SwitchLoses == handler.pc \in {"display", "memory"} => out[handler.host] = Lost

SInv == Types /\ VideoRight /\ TextNotMixed /\ LinesRight /\ SwitchLoses

-----------------------------------------------------------------------------
(* The terminals are numbers, and -1 is none of them.                       *)
LEMMA Ranges ==
  /\ Terminals \subseteq Nat /\ 0 \in Terminals /\ -1 \notin Terminals
  /\ Width \in Nat \ {0}
  /\ \A t \in Terminals : NextTerminal(t) \in Terminals /\ FrameOf(t) \in Frames
  BY ScreenAssumption DEF Terminals, NextTerminal, FrameOf, Frames, Vga

(* What Expect() says of a line that is not lost.                           *)
LEMMA Expected ==
  ASSUME Types, NEW t \in Terminals, NEW n, NEW S, Expect(t, n, S),
         out[t] # Lost /\ t \notin S => n \in 0 .. Width
  PROVE  /\ out' \in [Terminals -> (0 .. Width) \cup {Lost}]
         /\ \A u \in Terminals : out[u] = Lost \/ u \in S => out'[u] = Lost
         /\ \A u \in Terminals : out'[u] # Lost =>
              /\ out[u] # Lost /\ u \notin S
              /\ out'[u] = IF u = t THEN n ELSE out[u]
  <1>1. \A u \in Terminals : out'[u] = IF u \in S \/ out[u] = Lost THEN Lost
                                      ELSE IF u = t THEN n ELSE out[u]
    BY DEF Expect
  <1>2. \A u \in Terminals : out[u] \in (0 .. Width) \cup {Lost}
    BY DEF Types
  <1>3. \A u \in Terminals : out'[u] \in (0 .. Width) \cup {Lost}
    BY <1>1, <1>2
  <1>4. out' = [u \in Terminals |-> out'[u]]
    BY DEF Expect
  <1> QED BY <1>1, <1>3, <1>4

(* A line with one more character, or one less.                             *)
LEMMA LineGrows ==
  ASSUME NEW t, NEW n \in 0 .. Width - 1, Width \in Nat
  PROVE  [Line(t, n) EXCEPT ![n + 1] = t] = Line(t, n + 1)
  <1> DEFINE f == [Line(t, n) EXCEPT ![n + 1] = t]
  <1>1. f = [i \in 1 .. Width |-> f[i]]
    BY DEF Line
  <1>2. \A i \in 1 .. Width : f[i] = IF i <= n + 1 THEN t ELSE Nobody
    BY DEF Line
  <1> QED BY <1>1, <1>2 DEF Line

LEMMA LineShrinks ==
  ASSUME NEW t, NEW n \in 1 .. Width, Width \in Nat
  PROVE  [Line(t, n) EXCEPT ![n] = Nobody] = Line(t, n - 1)
  <1> DEFINE f == [Line(t, n) EXCEPT ![n] = Nobody]
  <1>1. f = [i \in 1 .. Width |-> f[i]]
    BY DEF Line
  <1>2. \A i \in 1 .. Width : f[i] = IF i <= n - 1 THEN t ELSE Nobody
    BY DEF Line
  <1> QED BY <1>1, <1>2 DEF Line

LEMMA InitSInv == Init => SInv
  <1> SUFFICES ASSUME Init PROVE SInv
    OBVIOUS
  <1> USE DEF Init
  <1>1. Types
    <2>1. Empty \in [1 .. Width -> Cells] /\ Vga \in Frames
      BY DEF Empty, Cells, Frames
    <2> QED BY <2>1, Ranges DEF Types, PcSet, Frames
  <1>2. VideoRight
    BY Ranges DEF VideoRight, FrameOf, NoHandler
  <1>3. \A t \in Terminals : ScreenOf(t) = Empty
    BY DEF ScreenOf, Shown, Frames, NoHandler
  <1>4. TextNotMixed
    BY <1>3 DEF TextNotMixed, Empty
  <1>5. LinesRight
    <2>1. \A t \in Terminals : Empty = Line(t, 0)
      BY Ranges DEF Empty, Line
    <2> QED BY <1>3, <2>1 DEF LinesRight, CursorRight
  <1>6. SwitchLoses
    BY DEF SwitchLoses, NoHandler
  <1> QED BY <1>1, <1>2, <1>4, <1>5, <1>6 DEF SInv

(* A program that runs runs alone: no switch is on the way, and what it draws  *)
(* goes to its own screen, at the place for it.                            *)
LEMMA RunningFacts ==
  ASSUME SInv, NEW t \in Terminals, Running(t)
  PROVE  /\ scheduled = t /\ handler.host # t /\ handler.pc # "display"
         /\ Shown = displayed /\ video_mem = FrameOf(t) /\ ScreenOf(t) = vram[video_mem]
         /\ \A u \in Terminals : ScreenOf(u) = vram[FrameOf(u)]
         /\ out[t] # Lost => ScreenOf(t) = Line(t, out[t])
         /\ out[t] # Lost /\ program[t].pc \in {"user", "look", "set", "halt"} =>
              x_cursor[t] = out[t] /\ screen_x = out[t]
  BY DEF Running, SInv, VideoRight, Shown, ScreenOf, FrameOf, LinesRight, CursorRight

(* One cell drawn in the frame of terminal t, with no switch on the way.     *)
LEMMA Drawn ==
  ASSUME SInv, NEW t \in Terminals, NEW i \in 1 .. Width, NEW c \in {t, Nobody},
         vram' = [vram EXCEPT ![FrameOf(t)][i] = c],
         Shown = displayed, Shown' = displayed, displayed' = displayed
  PROVE  /\ vram' \in [Frames -> [1 .. Width -> Cells]]
         /\ ScreenOf(t)' = [ScreenOf(t) EXCEPT ![i] = c]
         /\ \A u \in Terminals : u # t => ScreenOf(u)' = ScreenOf(u)
         /\ TextNotMixed'
  <1>1. FrameOf(t) \in Frames /\ c \in Cells /\ vram \in [Frames -> [1 .. Width -> Cells]]
    BY Ranges DEF SInv, Types, Cells
  <1>2. vram' \in [Frames -> [1 .. Width -> Cells]]
    BY <1>1
  <1>3. \A u \in Terminals : FrameOf(u) \in Frames /\ (u # t => FrameOf(u) # FrameOf(t))
    BY Ranges DEF FrameOf, Vga
  <1>4. \A u \in Terminals : ScreenOf(u) = vram[FrameOf(u)] /\ ScreenOf(u)' = vram'[FrameOf(u)]
    BY DEF ScreenOf, FrameOf
  <1>5. ScreenOf(t)' = [ScreenOf(t) EXCEPT ![i] = c]
    BY <1>1, <1>4
  <1>6. \A u \in Terminals : u # t => ScreenOf(u)' = ScreenOf(u)
    BY <1>1, <1>3, <1>4
  <1>7. ScreenOf(t) \in [1 .. Width -> Cells]
    BY <1>1, <1>4
  <1>8. \A j \in 1 .. Width : ScreenOf(t)'[j] = IF j = i THEN c ELSE ScreenOf(t)[j]
    BY <1>5, <1>7
  <1>9. TextNotMixed'
    BY <1>6, <1>8 DEF SInv, TextNotMixed
  <1> QED BY <1>2, <1>5, <1>6, <1>9

(* The two parts about the keyboard handler where it does not move.           *)
LEMMA HandlerStays ==
  ASSUME SInv, UNCHANGED <<handler, displayed, scheduled, video_mem>>,
         \A u \in Terminals : out[u] = Lost => out'[u] = Lost
  PROVE  VideoRight' /\ SwitchLoses'
  <1>1. handler.pc \in {"display", "memory"} => handler.host \in Terminals
    BY DEF SInv, Types, NoHandler
  <1>2. VideoRight'
    BY DEF SInv, VideoRight, FrameOf
  <1>3. SwitchLoses'
    BY <1>1 DEF SInv, SwitchLoses
  <1> QED BY <1>2, <1>3

-----------------------------------------------------------------------------
(* terminal_write().                                                        *)
LEMMA WriteStep == ASSUME SInv, NEW t \in Terminals, Write(t) PROVE SInv'
  <1> USE DEF Write, At
  <1>1. /\ Running(t) /\ program[t].pc = "user" /\ screen_x \in 0 .. Width - 1
        /\ vram' = [vram EXCEPT ![video_mem][screen_x + 1] = t]
        /\ screen_x' = screen_x + 1 /\ x_cursor' = [x_cursor EXCEPT ![t] = screen_x + 1]
        /\ Expect(t, out[t] + 1, {})
        /\ UNCHANGED <<video_mem, displayed, scheduled, vid_map, vidmap, program, handler>>
    BY Ranges DEF Putc, SInv, Types
  <1> HIDE DEF Write, At
  <1>2. /\ scheduled = t /\ handler.pc # "display" /\ video_mem = FrameOf(t)
        /\ Shown = displayed /\ Shown' = displayed
        /\ out[t] # Lost => ScreenOf(t) = Line(t, screen_x) /\ screen_x = out[t]
    BY <1>1, RunningFacts DEF Shown
  <1>3. /\ vram' \in [Frames -> [1 .. Width -> Cells]] /\ TextNotMixed'
        /\ ScreenOf(t)' = [ScreenOf(t) EXCEPT ![screen_x + 1] = t]
        /\ \A u \in Terminals : u # t => ScreenOf(u)' = ScreenOf(u)
    <2>1. screen_x + 1 \in 1 .. Width
      BY <1>1, Ranges
    <2> QED BY <1>1, <1>2, <2>1, Drawn
  <1>4. out[t] # Lost => out[t] + 1 \in 0 .. Width
    BY <1>1, <1>2, Ranges
  <1>5. /\ out' \in [Terminals -> (0 .. Width) \cup {Lost}]
        /\ \A u \in Terminals : out'[u] # Lost =>
             out[u] # Lost /\ out'[u] = IF u = t THEN out[t] + 1 ELSE out[u]
        /\ \A u \in Terminals : out[u] = Lost => out'[u] = Lost
    BY <1>1, <1>4, Expected DEF SInv
  <1>6. Types'
    <2>1. screen_x + 1 \in 0 .. Width
      BY <1>1, Ranges
    <2> QED BY <1>1, <1>3, <1>5, <2>1 DEF SInv, Types
  <1>7. VideoRight' /\ SwitchLoses'
    BY <1>1, <1>5, HandlerStays
  <1>8. ASSUME NEW u \in Terminals, out'[u] # Lost
        PROVE  ScreenOf(u)' = Line(u, out'[u]) /\ CursorRight(u)'
    <2>1. CASE u = t
      <3>1. ScreenOf(u)' = Line(u, out'[u])
        BY <1>1, <1>2, <1>3, <1>5, <1>8, <2>1, LineGrows, Ranges
      <3>2. CursorRight(u)'
        BY <1>1, <1>2, <1>5, <1>8, <2>1, Ranges DEF CursorRight, SInv, Types
      <3> QED BY <3>1, <3>2
    <2>2. CASE u # t
      BY <1>1, <1>2, <1>3, <1>5, <1>8, <2>2 DEF SInv, LinesRight, CursorRight, Types
    <2> QED BY <2>1, <2>2
  <1>9. LinesRight'
    BY <1>8 DEF LinesRight
  <1> QED BY <1>3, <1>6, <1>7, <1>9 DEF SInv

(* A program that goes on in the kernel.                                    *)
LEMMA Goes ==
  ASSUME Types, NEW t \in Terminals, NEW pc \in PcSet, Go(t, pc)
  PROVE  /\ program' \in [Terminals -> [pc : PcSet, display : Terminals \cup {-1}, mapped : BOOLEAN]]
         /\ program'[t].pc = pc
         /\ \A u \in Terminals : u # t => program'[u].pc = program[u].pc
  <1>1. program[t] \in [pc : PcSet, display : Terminals \cup {-1}, mapped : BOOLEAN]
    BY DEF Types
  <1>2. \A r \in [pc : PcSet, display : Terminals \cup {-1}, mapped : BOOLEAN] :
          /\ [r EXCEPT !.pc = pc] \in [pc : PcSet, display : Terminals \cup {-1}, mapped : BOOLEAN]
          /\ [r EXCEPT !.pc = pc].pc = pc
    OBVIOUS
  <1>3. /\ program' = [program EXCEPT ![t] = [program[t] EXCEPT !.pc = pc]]
    BY DEF Go
  <1> QED BY <1>1, <1>2, <1>3 DEF Types

(* A print of the kernel with interrupts on: the character is drawn, ...     *)
LEMMA PrintDrawStep == ASSUME SInv, NEW t \in Terminals, PrintDraw(t) PROVE SInv'
  <1>1. /\ Running(t) /\ program[t].pc = "user" /\ screen_x \in 0 .. Width - 1
        /\ vram' = [vram EXCEPT ![video_mem][screen_x + 1] = t]
        /\ Expect(t, out[t] + 1, {})
        /\ Go(t, "advance")
        /\ UNCHANGED <<video_mem, screen_x, x_cursor, displayed, scheduled, vid_map, vidmap, handler>>
    BY Ranges DEF PrintDraw, At, cursors, SInv, Types
  <1>2. /\ scheduled = t /\ handler.host # t /\ handler.pc # "display" /\ video_mem = FrameOf(t)
        /\ Shown = displayed /\ Shown' = displayed
        /\ out[t] # Lost => ScreenOf(t) = Line(t, screen_x) /\ screen_x = out[t]
    BY <1>1, RunningFacts DEF Shown
  <1>3. /\ vram' \in [Frames -> [1 .. Width -> Cells]] /\ TextNotMixed'
        /\ ScreenOf(t)' = [ScreenOf(t) EXCEPT ![screen_x + 1] = t]
        /\ \A u \in Terminals : u # t => ScreenOf(u)' = ScreenOf(u)
    <2>1. screen_x + 1 \in 1 .. Width
      BY <1>1, Ranges
    <2> QED BY <1>1, <1>2, <2>1, Drawn
  <1>4. out[t] # Lost => out[t] + 1 \in 0 .. Width
    BY <1>1, <1>2, Ranges
  <1>5. /\ out' \in [Terminals -> (0 .. Width) \cup {Lost}]
        /\ \A u \in Terminals : out'[u] # Lost =>
             out[u] # Lost /\ out'[u] = IF u = t THEN out[t] + 1 ELSE out[u]
        /\ \A u \in Terminals : out[u] = Lost => out'[u] = Lost
    BY <1>1, <1>4, Expected DEF SInv
  <1>6. /\ program' \in [Terminals -> [pc : PcSet, display : Terminals \cup {-1}, mapped : BOOLEAN]]
        /\ program'[t].pc = "advance"
        /\ \A u \in Terminals : u # t => program'[u].pc = program[u].pc
    BY <1>1, Goes DEF SInv, PcSet
  <1>7. Types'
    BY <1>1, <1>3, <1>5, <1>6 DEF SInv, Types
  <1>8. VideoRight' /\ SwitchLoses'
    BY <1>1, <1>5, HandlerStays
  <1>9. ASSUME NEW u \in Terminals, out'[u] # Lost
        PROVE  ScreenOf(u)' = Line(u, out'[u]) /\ CursorRight(u)'
    <2>1. CASE u = t
      <3>1. ScreenOf(u)' = Line(u, out'[u])
        BY <1>1, <1>2, <1>3, <1>5, <1>9, <2>1, LineGrows, Ranges
      <3>2. CursorRight(u)'
        BY <1>1, <1>2, <1>5, <1>6, <1>9, <2>1, Ranges DEF CursorRight, SInv, Types
      <3> QED BY <3>1, <3>2
    <2>2. CASE u # t
      BY <1>1, <1>2, <1>3, <1>5, <1>6, <1>9, <2>2 DEF SInv, LinesRight, CursorRight
    <2> QED BY <2>1, <2>2
  <1>10. LinesRight'
    BY <1>9 DEF LinesRight
  <1> QED BY <1>3, <1>7, <1>8, <1>10 DEF SInv

(* ... screen_x moves on, and is stored.                                    *)
LEMMA PrintMoveStep ==
  ASSUME SInv, NEW t \in Terminals, PrintAdvance(t) \/ PrintStore(t)
  PROVE  SInv'
  <1>1. /\ Running(t)
        /\ UNCHANGED <<vram, video_mem, displayed, scheduled, vid_map, vidmap, handler, out>>
        /\ \/ /\ program[t].pc = "advance" /\ screen_x \in 0 .. Width - 1
              /\ screen_x' = screen_x + 1 /\ x_cursor' = x_cursor /\ Go(t, "store")
           \/ /\ program[t].pc = "store"
              /\ screen_x' = screen_x /\ x_cursor' = [x_cursor EXCEPT ![t] = screen_x]
              /\ Go(t, "user")
    BY Ranges DEF PrintAdvance, PrintStore, At, SInv, Types
  <1>2. /\ scheduled = t /\ handler.host # t
        /\ \A u \in Terminals : ScreenOf(u)' = ScreenOf(u)
    BY <1>1, RunningFacts DEF ScreenOf, Shown
  <1>3. /\ program' \in [Terminals -> [pc : PcSet, display : Terminals \cup {-1}, mapped : BOOLEAN]]
        /\ program'[t].pc = IF program[t].pc = "advance" THEN "store" ELSE "user"
        /\ \A u \in Terminals : u # t => program'[u].pc = program[u].pc
    BY <1>1, Goes DEF SInv, PcSet
  <1>4. screen_x' \in 0 .. Width /\ x_cursor' \in [Terminals -> 0 .. Width]
    BY <1>1, Ranges DEF SInv, Types
  <1>5. Types'
    BY <1>1, <1>3, <1>4 DEF SInv, Types
  <1>6. VideoRight' /\ SwitchLoses'
    BY <1>1, HandlerStays
  <1>7. TextNotMixed'
    BY <1>2 DEF SInv, TextNotMixed
  <1>8. ASSUME NEW u \in Terminals, out[u] # Lost
        PROVE  CursorRight(u)'
    <2>1. CursorRight(u)
      BY <1>8 DEF SInv, LinesRight
    <2>2. CASE u = t
      <3>1. screen_x = IF program[t].pc = "store" THEN out[t] ELSE out[t] - 1
        BY <1>1, <2>1, <2>2 DEF CursorRight
      <3>2. out[t] \in Int
        BY <1>8, <2>2, Ranges DEF SInv, Types
      <3>3. CASE program[t].pc = "advance"
        BY <1>1, <1>2, <1>3, <2>2, <3>1, <3>2, <3>3 DEF CursorRight
      <3>4. CASE program[t].pc = "store"
        <4>1. x_cursor'[t] = screen_x
          BY <1>1, <3>4 DEF SInv, Types
        <4> QED BY <1>1, <1>2, <1>3, <2>2, <3>1, <3>2, <3>4, <4>1 DEF CursorRight
      <3> QED BY <1>1, <3>3, <3>4
    <2>3. CASE u # t
      <3>1. x_cursor'[u] = x_cursor[u]
        BY <1>1, <2>3 DEF SInv, Types
      <3> QED BY <1>1, <1>2, <1>3, <2>1, <2>3, <3>1 DEF CursorRight
    <2> QED BY <2>2, <2>3
  <1>9. LinesRight'
    BY <1>1, <1>2, <1>8 DEF SInv, LinesRight
  <1> QED BY <1>5, <1>6, <1>7, <1>9 DEF SInv

(* vidmap() and halt() touch no screen and no cursor.                       *)
LEMMA MapStep ==
  ASSUME SInv, NEW t \in Terminals, VidmapAll(t) \/ VidmapLook(t) \/ VidmapSet(t) \/ HaltLook(t) \/ HaltClear(t)
  PROVE  SInv'
  <1> DEFINE Progs == [pc : PcSet, display : Terminals \cup {-1}, mapped : BOOLEAN]
             Calm  == {"user", "look", "set", "halt"}
  <1>1. /\ Running(t) /\ program[t].pc \in Calm
        /\ UNCHANGED <<vram, video_mem, screen_x, x_cursor, displayed, scheduled, handler, out>>
    BY DEF VidmapAll, VidmapLook, VidmapSet, HaltLook, HaltClear, At, cursors
  <1>2. /\ program' \in [Terminals -> Progs]
        /\ program'[t].pc \in Calm
        /\ \A u \in Terminals : u # t => program'[u].pc = program[u].pc
    <2>1. program[t] \in Progs /\ program \in [Terminals -> Progs] /\ displayed \in Terminals
      BY DEF SInv, Types
    <2>2. CASE ~HaltClear(t)
     <3> SUFFICES \E e \in Progs : program' = [program EXCEPT ![t] = e] /\ e.pc \in Calm
       BY <2>1
      <3>1. CASE VidmapAll(t)
        <4>1. [program[t] EXCEPT !.pc = "look"] \in Progs
          BY <2>1, Zenon DEF PcSet
        <4> QED BY <3>1, <4>1, <2>1 DEF VidmapAll, Go
      <3>2. CASE VidmapLook(t)
        <4> DEFINE e == [[program[t] EXCEPT !.pc = "set"] EXCEPT !.display = displayed]
        <4>1. e \in Progs /\ e.pc = "set"
          <5>1. \A r \in Progs : [[r EXCEPT !.pc = "set"] EXCEPT !.display = displayed] \in Progs
            BY <2>1 DEF PcSet
          <5>2. e.pc = "set"
            BY <2>1
          <5> QED BY <2>1, <5>1, <5>2
        <4>2. program' = [program EXCEPT ![t] = e]
          BY <3>2, <2>1 DEF VidmapLook
        <4> QED BY <4>1, <4>2
      <3>3. CASE VidmapSet(t)
        <4>1. [pc |-> "user", display |-> -1, mapped |-> TRUE] \in Progs
          BY DEF PcSet
        <4> QED BY <3>3, <4>1 DEF VidmapSet
      <3>4. CASE HaltLook(t)
        <4> DEFINE e == [[program[t] EXCEPT !.pc = "halt"] EXCEPT !.display = displayed]
        <4>1. e \in Progs /\ e.pc = "halt"
          <5>1. \A r \in Progs : [[r EXCEPT !.pc = "halt"] EXCEPT !.display = displayed] \in Progs
            BY <2>1 DEF PcSet
          <5>2. e.pc = "halt"
            BY <2>1
          <5> QED BY <2>1, <5>1, <5>2
        <4>2. program' = [program EXCEPT ![t] = e]
          BY <3>4, <2>1 DEF HaltLook
        <4> QED BY <4>1, <4>2
      <3> QED BY <2>2, <3>1, <3>2, <3>3, <3>4
    <2>3. CASE HaltClear(t)
      <3>1. [pc |-> "user", display |-> -1, mapped |-> FALSE] \in Progs
        BY DEF PcSet
      <3>2. \A r \in Progs : [r EXCEPT !.mapped = FALSE] \in Progs /\ [r EXCEPT !.mapped = FALSE].pc = r.pc
        OBVIOUS
      <3>3. program' = [u \in Terminals |->
              CASE u = t -> [pc |-> "user", display |-> -1, mapped |-> FALSE]
                [] u # t /\ u = program[t].display /\ program[t].mapped -> [program[u] EXCEPT !.mapped = FALSE]
                [] OTHER -> program[u]]
        BY <2>3 DEF HaltClear
      <3>4. program'[t] = [pc |-> "user", display |-> -1, mapped |-> FALSE]
        BY <3>3
      <3>5. \A u \in Terminals : u # t => program'[u] \in {program[u], [program[u] EXCEPT !.mapped = FALSE]}
        BY <3>3
      <3>6. \A u \in Terminals : program[u] \in Progs
        BY <2>1
      <3>7. \A u \in Terminals : u # t => program'[u] \in Progs /\ program'[u].pc = program[u].pc
        BY <3>2, <3>5, <3>6
      <3>8. program' \in [Terminals -> Progs]
        BY <3>1, <3>3, <3>4, <3>7
      <3> QED BY <3>4, <3>7, <3>8
    <2> QED BY <2>2, <2>3
  <1>3. vid_map' \in [frame : Frames, present : BOOLEAN]
    <2>1. vid_map \in [frame : Frames, present : BOOLEAN] /\ t \in Frames /\ Vga \in Frames
      BY DEF SInv, Types, Frames
    <2>2. CASE VidmapAll(t)
      BY <2>1, <2>2 DEF VidmapAll
    <2>3. CASE VidmapSet(t)
      <3>1. PICK f \in Frames : vid_map' = [frame |-> f, present |-> TRUE]
        BY <2>1, <2>3 DEF VidmapSet
      <3> QED BY <3>1
    <2>4. CASE VidmapLook(t) \/ HaltLook(t) \/ HaltClear(t)
      BY <2>1, <2>4 DEF VidmapLook, HaltLook, HaltClear
    <2> QED BY <2>2, <2>3, <2>4
  <1>4. vidmap' \in [Terminals -> BOOLEAN]
    <2>1. vidmap \in [Terminals -> BOOLEAN]
      BY DEF SInv, Types
    <2> QED BY <2>1 DEF VidmapAll, VidmapLook, VidmapSet, HaltLook, HaltClear
  <1>5. Types'
    BY <1>1, <1>2, <1>3, <1>4 DEF SInv, Types
  <1>6. VideoRight' /\ SwitchLoses'
    BY <1>1, HandlerStays
  <1>7. \A u \in Terminals : ScreenOf(u)' = ScreenOf(u)
    BY <1>1 DEF ScreenOf, Shown
  <1>8. TextNotMixed'
    BY <1>7 DEF SInv, TextNotMixed
  <1>9. LinesRight'
    BY <1>1, <1>2, <1>7, RunningFacts DEF SInv, LinesRight, CursorRight
  <1> QED BY <1>5, <1>6, <1>8, <1>9 DEF SInv

-----------------------------------------------------------------------------
(* A tick: whoever is next gets its own frame and cursor; a print that it     *)
(* interrupts is lost.                                                      *)
LEMMA TickStep == ASSUME SInv, Tick, "display" \notin Windows PROVE SInv'
  <1> DEFINE n == NextTerminal(scheduled)
  <1>1. /\ scheduled' = n /\ n \in Terminals
        /\ screen_x' = x_cursor[n] /\ video_mem' = FrameOf(n)
        /\ vid_map' = [frame |-> FrameOf(n), present |-> vidmap[n]]
        /\ Expect(displayed, out[displayed], MidPrint)
        /\ UNCHANGED <<vram, x_cursor, displayed, vidmap, program, handler>>
    BY Ranges DEF Tick, MemorySwitch, SInv, Types
  <1>2. handler.pc # "display"
    BY DEF Tick, SInv, VideoRight
  <1>3. /\ out' \in [Terminals -> (0 .. Width) \cup {Lost}]
        /\ \A u \in Terminals : out[u] = Lost => out'[u] = Lost
        /\ \A u \in Terminals : out'[u] # Lost =>
             out[u] # Lost /\ u \notin MidPrint /\ out'[u] = out[u]
    <2>1. displayed \in Terminals /\ out[displayed] \in (0 .. Width) \cup {Lost}
      BY DEF SInv, Types
    <2> QED BY <1>1, <2>1, Expected DEF SInv
  <1>4. Types'
    <2>1. screen_x' \in 0 .. Width /\ video_mem' \in Frames /\ vidmap[n] \in BOOLEAN
      BY <1>1, Ranges DEF SInv, Types
    <2>2. vid_map' \in [frame : Frames, present : BOOLEAN]
      BY <1>1, <2>1
    <2> QED BY <1>1, <1>3, <2>1, <2>2 DEF SInv, Types
  <1>5. VideoRight'
    BY <1>1, <1>2 DEF VideoRight, FrameOf
  <1>6. \A u \in Terminals : ScreenOf(u)' = ScreenOf(u)
    BY <1>1 DEF ScreenOf, Shown
  <1>7. TextNotMixed'
    BY <1>6 DEF SInv, TextNotMixed
  <1>8. ASSUME NEW u \in Terminals, out'[u] # Lost
        PROVE  ScreenOf(u)' = Line(u, out'[u]) /\ CursorRight(u)'
    <2>1. /\ out[u] # Lost /\ out'[u] = out[u] /\ program'[u].pc = program[u].pc
          /\ program[u].pc \notin {"advance", "store"}
      BY <1>1, <1>3, <1>8 DEF MidPrint
    <2>2. program[u].pc \in PcSet
      BY DEF SInv, Types
    <2>3. x_cursor[u] = out[u]
      BY <2>1, <2>2 DEF SInv, LinesRight, CursorRight, PcSet
    <2> QED BY <1>1, <1>6, <2>1, <2>3 DEF SInv, LinesRight, CursorRight
  <1>9. LinesRight'
    BY <1>8 DEF LinesRight
  <1>10. SwitchLoses'
    <2>1. handler.pc \in {"display", "memory"} => handler.host \in Terminals
      BY DEF SInv, Types, NoHandler
    <2> QED BY <1>1, <1>3, <2>1 DEF SInv, SwitchLoses
  <1> QED BY <1>4, <1>5, <1>7, <1>9, <1>10 DEF SInv

-----------------------------------------------------------------------------
(* What a key finds.                                                        *)
LEMMA KeyFacts ==
  ASSUME SInv, KeyComes
  PROVE  /\ handler = NoHandler /\ Shown = displayed /\ FrameOf(displayed) = Vga
         /\ displayed \in Terminals /\ scheduled \in Terminals
         /\ x_cursor[displayed] \in 0 .. Width
         /\ out[displayed] # Lost /\ displayed \notin Disturbed =>
              /\ ScreenOf(displayed) = Line(displayed, out[displayed])
              /\ x_cursor[displayed] = out[displayed]
  <1>1. handler = NoHandler /\ displayed \in Terminals /\ scheduled \in Terminals
    BY DEF KeyComes, SInv, Types
  <1>2. program[displayed].pc \in PcSet /\ x_cursor[displayed] \in 0 .. Width
    BY <1>1 DEF SInv, Types
  <1> QED BY <1>1, <1>2 DEF Shown, FrameOf, NoHandler, Disturbed, MidPrint, PcSet, SInv,
                            LinesRight, CursorRight

(* A key that leaves the line of the terminal on display with n characters    *)
(* and its cursor at x.                                                    *)
LEMMA KeyDone ==
  ASSUME SInv, KeyComes, ToEnd, NEW n, NEW x \in 0 .. Width, NEW d \in Terminals, d = displayed,
         UNCHANGED <<displayed, scheduled, vid_map, vidmap, program>>,
         video_mem' = Vga, screen_x' = x,
         x_cursor' \in [Terminals -> 0 .. Width], x_cursor'[d] = x,
         \A u \in Terminals \ {d} : x_cursor'[u] = x_cursor[u],
         Expect(displayed, n, Disturbed),
         vram' \in [Frames -> [1 .. Width -> Cells]],
         \A u \in Terminals \ {d} : ScreenOf(u)' = ScreenOf(u),
         TextNotMixed',
         out[d] # Lost /\ d \notin Disturbed =>
           n = x /\ ScreenOf(d)' = Line(d, n)
  PROVE  SInv'
  <1>1. /\ handler = NoHandler /\ displayed \in Terminals /\ scheduled \in Terminals
        /\ handler' = [pc |-> "end", next |-> -1, host |-> scheduled]
    BY KeyFacts DEF ToEnd
  <1>2. /\ out' \in [Terminals -> (0 .. Width) \cup {Lost}]
        /\ \A u \in Terminals : out'[u] # Lost =>
             /\ out[u] # Lost /\ u \notin Disturbed
             /\ out'[u] = IF u = displayed THEN n ELSE out[u]
    <2>1. out[displayed] # Lost /\ displayed \notin Disturbed => n \in 0 .. Width
      OBVIOUS
    <2> QED BY <1>1, <2>1, Expected DEF SInv
  <1>3. Types'
    <2>1. handler' \in [pc : {"display", "memory", "end"}, next : Terminals \cup {-1}, host : Terminals]
      BY <1>1
    <2>2. Vga \in Frames
      BY DEF Frames
    <2> QED BY <1>2, <2>1, <2>2 DEF SInv, Types
  <1>4. VideoRight' /\ SwitchLoses'
    BY <1>1 DEF VideoRight, SwitchLoses
  <1>5. ASSUME NEW u \in Terminals, out'[u] # Lost
        PROVE  ScreenOf(u)' = Line(u, out'[u]) /\ CursorRight(u)'
    <2>1. /\ out[u] # Lost /\ program[u].pc \in {"user", "look", "set", "halt"}
          /\ u # displayed => u # scheduled
      <3>1. program[u].pc \in PcSet
        BY DEF SInv, Types
      <3> QED BY <1>2, <1>5, <3>1 DEF Disturbed, MidPrint, PcSet
    <2>2. CASE u = displayed
      BY <1>1, <1>2, <1>5, <2>1, <2>2 DEF CursorRight
    <2>3. CASE u # displayed
      BY <1>1, <1>2, <1>5, <2>1, <2>3 DEF SInv, LinesRight, CursorRight
    <2> QED BY <2>2, <2>3
  <1>6. LinesRight'
    BY <1>5 DEF LinesRight
  <1> QED BY <1>3, <1>4, <1>6 DEF SInv

LEMMA EchoStep == ASSUME SInv, Echo PROVE SInv'
  <1>1. PICK d \in Terminals : d = displayed
    BY KeyFacts DEF Echo
  <1>2. PICK x \in 0 .. Width : x = x_cursor[d]
    BY <1>1 DEF SInv, Types
  <1>3. /\ KeyComes /\ ToEnd /\ video_mem' = Vga
        /\ x < Width /\ vram' = [vram EXCEPT ![Vga][x + 1] = d]
        /\ screen_x' = x + 1 /\ x_cursor' = [x_cursor EXCEPT ![d] = x + 1]
        /\ Expect(displayed, out[d] + 1, Disturbed)
        /\ UNCHANGED <<displayed, scheduled, vid_map, vidmap, program>>
    BY <1>1, <1>2 DEF Echo, Putc
  <1>4. /\ Shown = displayed /\ Shown' = displayed /\ FrameOf(d) = Vga
        /\ out[d] # Lost /\ d \notin Disturbed => ScreenOf(d) = Line(d, x) /\ x = out[d]
    BY <1>1, <1>2, <1>3, KeyFacts DEF Shown, ToEnd
  <1>5. x + 1 \in 1 .. Width /\ x \in 0 .. Width - 1 /\ x + 1 \in 0 .. Width /\ Width \in Nat
    BY <1>3, Ranges
  <1>6. /\ vram' \in [Frames -> [1 .. Width -> Cells]] /\ TextNotMixed'
        /\ ScreenOf(d)' = [ScreenOf(d) EXCEPT ![x + 1] = d]
        /\ \A u \in Terminals : u # d => ScreenOf(u)' = ScreenOf(u)
    BY <1>3, <1>4, <1>5, Drawn
  <1>7. /\ x_cursor' \in [Terminals -> 0 .. Width] /\ x_cursor'[d] = x + 1
        /\ \A u \in Terminals \ {d} : x_cursor'[u] = x_cursor[u]
    BY <1>3, <1>5 DEF SInv, Types
  <1>8. out[d] # Lost /\ d \notin Disturbed =>
          out[d] + 1 = x + 1 /\ ScreenOf(d)' = Line(d, out[d] + 1)
    BY <1>4, <1>5, <1>6, LineGrows
  <1> QED BY <1>1, <1>3, <1>5, <1>6, <1>7, <1>8, KeyDone

LEMMA BackspaceStep == ASSUME SInv, Backspace PROVE SInv'
  <1>1. PICK d \in Terminals : d = displayed
    BY KeyFacts DEF Backspace
  <1>2. PICK x \in 0 .. Width : x = x_cursor[d]
    BY <1>1 DEF SInv, Types
  <1>3. /\ KeyComes /\ ToEnd /\ video_mem' = Vga
        /\ UNCHANGED <<displayed, scheduled, vid_map, vidmap, program>>
    BY DEF Backspace
  <1>4. /\ Shown = displayed /\ Shown' = displayed /\ FrameOf(d) = Vga
        /\ out[d] # Lost /\ d \notin Disturbed => ScreenOf(d) = Line(d, x) /\ x = out[d]
    BY <1>1, <1>2, <1>3, KeyFacts DEF Shown, ToEnd
  <1>5. CASE x = 0
    <2>1. /\ screen_x' = x /\ UNCHANGED <<vram, x_cursor>>
          /\ Expect(displayed, out[d], Disturbed)
      BY <1>1, <1>2, <1>5 DEF Backspace
    <2>2. \A u \in Terminals : ScreenOf(u)' = ScreenOf(u)
      BY <1>3, <1>4, <2>1 DEF ScreenOf
    <2>3. TextNotMixed'
      BY <2>2 DEF SInv, TextNotMixed
    <2>4. vram' \in [Frames -> [1 .. Width -> Cells]] /\ x_cursor' \in [Terminals -> 0 .. Width]
      BY <2>1 DEF SInv, Types
    <2> QED BY <1>1, <1>2, <1>3, <1>4, <2>1, <2>2, <2>3, <2>4, KeyDone
  <1>6. CASE x # 0
    <2>1. /\ screen_x' = x - 1 /\ vram' = [vram EXCEPT ![Vga][x] = Nobody]
          /\ x_cursor' = [x_cursor EXCEPT ![d] = x - 1]
          /\ Expect(displayed, out[d] - 1, Disturbed)
      BY <1>1, <1>2, <1>6 DEF Backspace
    <2>2. x \in 1 .. Width /\ x - 1 \in 0 .. Width /\ Width \in Nat
      BY <1>6, Ranges
    <2>3. /\ vram' \in [Frames -> [1 .. Width -> Cells]] /\ TextNotMixed'
          /\ ScreenOf(d)' = [ScreenOf(d) EXCEPT ![x] = Nobody]
          /\ \A u \in Terminals : u # d => ScreenOf(u)' = ScreenOf(u)
      BY <1>3, <1>4, <2>1, <2>2, Drawn
    <2>4. /\ x_cursor' \in [Terminals -> 0 .. Width] /\ x_cursor'[d] = x - 1
          /\ \A u \in Terminals \ {d} : x_cursor'[u] = x_cursor[u]
      BY <2>1, <2>2 DEF SInv, Types
    <2>5. out[d] # Lost /\ d \notin Disturbed =>
            out[d] - 1 = x - 1 /\ ScreenOf(d)' = Line(d, out[d] - 1)
      BY <1>4, <2>2, <2>3, LineShrinks
    <2> QED BY <1>1, <1>3, <2>1, <2>2, <2>3, <2>4, <2>5, KeyDone
  <1> QED BY <1>5, <1>6

(* clear() blanks the whole frame.                                          *)
LEMMA ClearStep == ASSUME SInv, Clear PROVE SInv'
  <1>1. PICK d \in Terminals : d = displayed
    BY KeyFacts DEF Clear
  <1>2. /\ KeyComes /\ ToEnd /\ video_mem' = Vga /\ screen_x' = 0
        /\ vram' = [vram EXCEPT ![Vga] = Empty]
        /\ x_cursor' = [x_cursor EXCEPT ![d] = 0]
        /\ Expect(displayed, 0, Disturbed)
        /\ UNCHANGED <<displayed, scheduled, vid_map, vidmap, program>>
    BY <1>1 DEF Clear
  <1>3. /\ Shown = d /\ Shown' = d /\ 0 \in 0 .. Width
        /\ vram \in [Frames -> [1 .. Width -> Cells]] /\ Vga \in Frames
        /\ Empty \in [1 .. Width -> Cells]
    BY <1>1, <1>2, KeyFacts, Ranges DEF Shown, ToEnd, SInv, Types, Frames, Empty, Cells
  <1>4. /\ vram' \in [Frames -> [1 .. Width -> Cells]] /\ ScreenOf(d)' = Empty
        /\ \A u \in Terminals \ {d} : ScreenOf(u)' = ScreenOf(u)
    BY <1>2, <1>3, Ranges DEF ScreenOf, Vga, Frames
  <1>5. TextNotMixed'
    BY <1>4 DEF SInv, TextNotMixed, Empty
  <1>6. Empty = Line(d, 0)
    BY Ranges DEF Empty, Line
  <1>7. /\ x_cursor' \in [Terminals -> 0 .. Width] /\ x_cursor'[d] = 0
        /\ \A u \in Terminals \ {d} : x_cursor'[u] = x_cursor[u]
    BY <1>2, <1>3 DEF SInv, Types
  <1> QED BY <1>1, <1>2, <1>3, <1>4, <1>5, <1>6, <1>7, KeyDone

LEMMA OtherKeyStep == ASSUME SInv, OtherKey PROVE SInv'
  <1>1. PICK d \in Terminals : d = displayed
    BY KeyFacts DEF OtherKey
  <1>2. PICK x \in 0 .. Width : x = x_cursor[d]
    BY <1>1 DEF SInv, Types
  <1>3. /\ KeyComes /\ ToEnd /\ video_mem' = Vga /\ screen_x' = x
        /\ Expect(displayed, out[d], Disturbed)
        /\ UNCHANGED <<vram, x_cursor, displayed, scheduled, vid_map, vidmap, program>>
    BY <1>1, <1>2 DEF OtherKey
  <1>4. /\ Shown = displayed /\ Shown' = displayed
        /\ out[d] # Lost /\ d \notin Disturbed => ScreenOf(d) = Line(d, x) /\ x = out[d]
    BY <1>1, <1>2, <1>3, KeyFacts DEF Shown, ToEnd
  <1>5. \A u \in Terminals : ScreenOf(u)' = ScreenOf(u)
    BY <1>3, <1>4 DEF ScreenOf
  <1>6. TextNotMixed'
    BY <1>5 DEF SInv, TextNotMixed
  <1>7. vram' \in [Frames -> [1 .. Width -> Cells]] /\ x_cursor' \in [Terminals -> 0 .. Width]
    BY <1>3 DEF SInv, Types
  <1> QED BY <1>1, <1>2, <1>3, <1>4, <1>5, <1>6, <1>7, KeyDone

-----------------------------------------------------------------------------
(* terminal_switch(): the frames are exchanged, ...                         *)
LEMMA SwitchCopyStep == ASSUME SInv, NEW n \in Terminals, SwitchCopy(n) PROVE SInv'
  <1>1. PICK d \in Terminals : d = displayed
    BY KeyFacts DEF SwitchCopy
  <1>2. /\ KeyComes /\ n # d /\ video_mem' = Vga /\ screen_x' = x_cursor[n]
        /\ vram' = [vram EXCEPT ![d] = vram[Vga], ![Vga] = vram[n]]
        /\ handler' = [pc |-> "display", next |-> n, host |-> scheduled]
        /\ Expect(displayed, out[displayed], MidPrint \cup {scheduled})
        /\ UNCHANGED <<x_cursor, displayed, scheduled, vid_map, vidmap, program>>
    BY <1>1 DEF SwitchCopy
  <1>3. /\ Shown = d /\ Shown' = n /\ scheduled \in Terminals
        /\ vram \in [Frames -> [1 .. Width -> Cells]] /\ {Vga, d, n} \subseteq Frames
    BY <1>1, <1>2, KeyFacts DEF Shown, SInv, Types, Frames
  <1>4. /\ vram' \in [Frames -> [1 .. Width -> Cells]]
        /\ \A u \in Terminals : ScreenOf(u)' = ScreenOf(u)
    BY <1>2, <1>3, Ranges DEF ScreenOf, Vga, Frames
  <1>5. TextNotMixed'
    BY <1>4 DEF SInv, TextNotMixed
  <1>6. /\ out' \in [Terminals -> (0 .. Width) \cup {Lost}]
        /\ out'[scheduled] = Lost
        /\ \A u \in Terminals : out'[u] # Lost =>
             out[u] # Lost /\ u \notin MidPrint /\ u # scheduled /\ out'[u] = out[u]
    <2>1. out[d] \in (0 .. Width) \cup {Lost}
      BY DEF SInv, Types
    <2> QED BY <1>1, <1>2, <1>3, <2>1, Expected DEF SInv
  <1>7. Types'
    <2>1. handler' \in [pc : {"display", "memory", "end"}, next : Terminals \cup {-1}, host : Terminals]
      BY <1>2, <1>3
    <2>2. screen_x' \in 0 .. Width
      BY <1>2 DEF SInv, Types
    <2> QED BY <1>2, <1>3, <1>4, <1>6, <2>1, <2>2 DEF SInv, Types
  <1>8. VideoRight' /\ SwitchLoses'
    BY <1>2, <1>6 DEF VideoRight, SwitchLoses
  <1>9. ASSUME NEW u \in Terminals, out'[u] # Lost
        PROVE  ScreenOf(u)' = Line(u, out'[u]) /\ CursorRight(u)'
    <2>1. program[u].pc \in {"user", "look", "set", "halt"}
      <3>1. program[u].pc \in PcSet
        BY DEF SInv, Types
      <3> QED BY <1>6, <1>9, <3>1 DEF MidPrint, PcSet
    <2> QED BY <1>2, <1>4, <1>6, <1>9, <2>1 DEF SInv, LinesRight, CursorRight
  <1>10. LinesRight'
    BY <1>9 DEF LinesRight
  <1> QED BY <1>5, <1>7, <1>8, <1>10 DEF SInv

(* ... then curr_terminal_num changes, and memory_switch() looks at the       *)
(* terminal that is next; the end of the handler puts video_mem right.     *)
LEMMA HandlerStep ==
  ASSUME SInv, SwitchDisplay \/ SwitchMemory \/ RestoreVideo
  PROVE  SInv'
  <1>1. /\ handler \in [pc : {"display", "memory", "end"}, next : Terminals \cup {-1}, host : Terminals]
        /\ scheduled = handler.host /\ scheduled \in Terminals
        /\ UNCHANGED <<vram, x_cursor, scheduled, vidmap, program, out>>
    BY DEF SwitchDisplay, SwitchMemory, RestoreVideo, SInv, Types, NoHandler, cursors
  <1>2. \A u \in Terminals : out[u] # Lost =>
          program[u].pc \in {"user", "look", "set", "halt"} /\ x_cursor[u] = out[u]
    <2>1. \A u \in Terminals : program[u].pc \in PcSet
      BY DEF SInv, Types
    <2> QED BY <1>1, <2>1 DEF SInv, LinesRight, CursorRight, PcSet
  <1>3. CASE SwitchDisplay
    <2>1. /\ handler.pc = "display" /\ displayed' = handler.next /\ displayed' \in Terminals
          /\ handler' = [handler EXCEPT !.pc = "memory", !.next = -1]
          /\ UNCHANGED <<video_mem, screen_x, vid_map>>
      BY <1>3 DEF SwitchDisplay, SInv, VideoRight, cursors
    <2>2. /\ handler' \in [pc : {"display", "memory", "end"}, next : Terminals \cup {-1}, host : Terminals]
          /\ handler'.pc = "memory" /\ handler'.host = handler.host
      BY <1>1, <2>1
    <2>3. Types'
      BY <1>1, <2>1, <2>2 DEF SInv, Types
    <2>4. VideoRight'
      BY <1>1, <2>2 DEF VideoRight
    <2>5. \A u \in Terminals : ScreenOf(u)' = ScreenOf(u)
      BY <1>1, <2>1, <2>2 DEF ScreenOf, Shown
    <2>6. TextNotMixed'
      BY <2>5 DEF SInv, TextNotMixed
    <2>7. LinesRight'
      BY <1>1, <1>2, <2>1, <2>2, <2>5 DEF SInv, LinesRight, CursorRight
    <2>8. SwitchLoses'
      BY <1>1, <2>1, <2>2 DEF SInv, SwitchLoses
    <2> QED BY <2>3, <2>4, <2>6, <2>7, <2>8 DEF SInv
  <1>4. CASE SwitchMemory
    <2> DEFINE n == NextTerminal(scheduled)
    <2>1. /\ handler.pc = "memory" /\ handler' = [handler EXCEPT !.pc = "end"]
          /\ n \in Terminals /\ screen_x' = x_cursor[n] /\ video_mem' = FrameOf(n)
          /\ vid_map' = [frame |-> FrameOf(n), present |-> vidmap[n]]
          /\ UNCHANGED displayed
      BY <1>1, <1>4, Ranges DEF SwitchMemory, MemorySwitch
    <2>2. /\ handler' \in [pc : {"display", "memory", "end"}, next : Terminals \cup {-1}, host : Terminals]
          /\ handler'.pc = "end" /\ handler'.host = handler.host
      BY <1>1, <2>1
    <2>3. Types'
      <3>1. screen_x' \in 0 .. Width /\ video_mem' \in Frames /\ vidmap[n] \in BOOLEAN
        BY <2>1, Ranges DEF SInv, Types
      <3>2. vid_map' \in [frame : Frames, present : BOOLEAN]
        BY <2>1, <3>1
      <3> QED BY <1>1, <2>1, <2>2, <3>1, <3>2 DEF SInv, Types
    <2>4. VideoRight'
      BY <1>1, <2>2 DEF VideoRight
    <2>5. \A u \in Terminals : ScreenOf(u)' = ScreenOf(u)
      BY <1>1, <2>1, <2>2 DEF ScreenOf, Shown
    <2>6. TextNotMixed'
      BY <2>5 DEF SInv, TextNotMixed
    <2>7. out[scheduled] = Lost
      BY <1>1, <2>1 DEF SInv, SwitchLoses
    <2>8. LinesRight'
      BY <1>1, <1>2, <2>2, <2>5, <2>7 DEF SInv, LinesRight, CursorRight
    <2>9. SwitchLoses'
      BY <2>2 DEF SwitchLoses
    <2> QED BY <2>3, <2>4, <2>6, <2>8, <2>9 DEF SInv
  <1>5. CASE RestoreVideo
    <2>1. /\ handler.pc = "end" /\ handler' = NoHandler /\ video_mem' = FrameOf(scheduled)
          /\ UNCHANGED <<screen_x, displayed, vid_map>>
      BY <1>5 DEF RestoreVideo
    <2>2. Types'
      BY <1>1, <2>1, Ranges DEF SInv, Types
    <2>3. VideoRight' /\ SwitchLoses'
      BY <1>1, <2>1 DEF VideoRight, SwitchLoses, FrameOf, NoHandler
    <2>4. \A u \in Terminals : ScreenOf(u)' = ScreenOf(u)
      BY <1>1, <2>1 DEF ScreenOf, Shown, NoHandler
    <2>5. TextNotMixed'
      BY <2>4 DEF SInv, TextNotMixed
    <2>6. LinesRight'
      BY <1>1, <1>2, <2>1, <2>4 DEF SInv, LinesRight, CursorRight
    <2> QED BY <2>2, <2>3, <2>5, <2>6 DEF SInv
  <1> QED BY <1>3, <1>4, <1>5

LEMMA NextSInv == ASSUME "display" \notin Windows PROVE SInv /\ [Next]_vars => SInv'
  <1> SUFFICES ASSUME SInv, [Next]_vars PROVE SInv'
    OBVIOUS
  <1>1. ASSUME NEW t \in Terminals, Program(t) PROVE SInv'
    BY <1>1, WriteStep, PrintDrawStep, PrintMoveStep, MapStep DEF Program
  <1>2. CASE Keyboard
    BY <1>2, EchoStep, BackspaceStep, ClearStep, OtherKeyStep, SwitchCopyStep, HandlerStep
       DEF Keyboard
  <1>3. CASE Tick
    BY <1>3, TickStep
  <1>4. CASE UNCHANGED vars
    BY <1>4 DEF vars, cursors, SInv, Types, VideoRight, FrameOf, TextNotMixed, ScreenOf, Shown,
                LinesRight, CursorRight, SwitchLoses
  <1> QED BY <1>1, <1>2, <1>3, <1>4 DEF Next

LEMMA ScreenInductive == ASSUME "display" \notin Windows PROVE Spec => []SInv
  BY InitSInv, NextSInv, PTL DEF Spec

-----------------------------------------------------------------------------
(* Who changes a screen.                                                    *)
LEMMA KeptStep ==
  ASSUME SInv, [Next]_vars, NEW t \in Terminals, ScreenOf(t)' # ScreenOf(t)
  PROVE  \/ Running(t) /\ UNCHANGED <<displayed, scheduled, handler>>
         \/ t = displayed /\ handler.pc = "none" /\ handler'.pc = "end"
  <1>1. ASSUME NEW p \in Terminals, Program(p)
        PROVE  Running(t) /\ UNCHANGED <<displayed, scheduled, handler>>
    <2>1. Running(p) /\ UNCHANGED <<displayed, scheduled, handler>>
      BY <1>1 DEF Program, Write, PrintDraw, PrintAdvance, PrintStore, VidmapAll, VidmapLook,
                  VidmapSet, HaltLook, HaltClear, At, cursors
    <2>2. /\ \A u \in Terminals : ScreenOf(u) = vram[FrameOf(u)] /\ ScreenOf(u)' = vram'[FrameOf(u)]
          /\ video_mem = FrameOf(p)
      BY <2>1, RunningFacts DEF ScreenOf, FrameOf, Shown
    <2>3. vram' = vram \/ \E i \in 1 .. Width : vram' = [vram EXCEPT ![video_mem][i] = p]
      <3>1. CASE Write(p) \/ PrintDraw(p)
        <4>1. screen_x + 1 \in 1 .. Width /\ vram' = [vram EXCEPT ![video_mem][screen_x + 1] = p]
          BY <3>1, Ranges DEF Write, PrintDraw, Putc, SInv, Types
        <4> QED BY <4>1
      <3> QED BY <1>1, <3>1 DEF Program, PrintAdvance, PrintStore, VidmapAll, VidmapLook,
                                VidmapSet, HaltLook, HaltClear
    <2>4. p # t => FrameOf(p) # FrameOf(t)
      BY Ranges DEF FrameOf, Vga
    <2>5. p = t
      BY <2>2, <2>3, <2>4, Ranges DEF SInv, Types
    <2> QED BY <2>1, <2>5
  <1>2. CASE Echo \/ Backspace \/ Clear \/ OtherKey
    <2>1. /\ KeyComes /\ handler' = [pc |-> "end", next |-> -1, host |-> scheduled]
          /\ displayed' = displayed
          /\ vram' = vram \/ \E l : vram' = [vram EXCEPT ![Vga] = l]
      BY <1>2 DEF Echo, Backspace, Clear, OtherKey, Putc, ToEnd
    <2>2. Shown = displayed /\ Shown' = displayed
      BY <2>1, KeyFacts DEF Shown
    <2>3. t = displayed
      <3>1. vram \in [Frames -> [1 .. Width -> Cells]] /\ {Vga, t} \subseteq Frames
        BY DEF SInv, Types, Frames
      <3>2. t # displayed => ScreenOf(t) = vram[t] /\ ScreenOf(t)' = vram'[t] /\ t # Vga
        BY <2>1, <2>2, Ranges DEF ScreenOf, Vga
      <3> QED BY <2>1, <3>1, <3>2
    <2> QED BY <2>1, <2>3 DEF KeyComes
  <1>3. ASSUME NEW n \in Terminals, SwitchCopy(n) PROVE FALSE
    <2>1. /\ KeyComes /\ n # displayed
          /\ vram' = [vram EXCEPT ![displayed] = vram[Vga], ![Vga] = vram[n]]
          /\ handler' = [pc |-> "display", next |-> n, host |-> scheduled]
          /\ displayed' = displayed
      BY <1>3 DEF SwitchCopy
    <2>2. Shown = displayed /\ Shown' = n /\ displayed \in Terminals
      BY <2>1, KeyFacts DEF Shown
    <2>3. /\ vram \in [Frames -> [1 .. Width -> Cells]]
          /\ {Vga, n, displayed, t} \subseteq Frames
      BY <2>2 DEF SInv, Types, Frames
    <2> QED BY <2>1, <2>2, <2>3, Ranges DEF ScreenOf, Vga
  <1>4. CASE SwitchDisplay \/ SwitchMemory \/ RestoreVideo \/ Tick
    <2>1. vram' = vram
      BY <1>4 DEF SwitchDisplay, SwitchMemory, RestoreVideo, Tick
    <2>2. Shown' = Shown
      <3>1. CASE SwitchDisplay
        <4>1. handler \in [pc : {"display", "memory", "end"}, next : Terminals \cup {-1}, host : Terminals]
          BY <3>1 DEF SwitchDisplay, SInv, Types, NoHandler
        <4> QED BY <3>1, <4>1 DEF SwitchDisplay, Shown
      <3>2. CASE SwitchMemory
        <4>1. handler \in [pc : {"display", "memory", "end"}, next : Terminals \cup {-1}, host : Terminals]
          BY <3>2 DEF SwitchMemory, SInv, Types, NoHandler
        <4> QED BY <3>2, <4>1 DEF SwitchMemory, Shown
      <3>3. CASE RestoreVideo
        BY <3>3 DEF RestoreVideo, Shown, NoHandler
      <3>4. CASE Tick
        BY <3>4 DEF Tick, Shown
      <3> QED BY <1>4, <3>1, <3>2, <3>3, <3>4
    <2> QED BY <2>1, <2>2 DEF ScreenOf
  <1>5. CASE UNCHANGED vars
    BY <1>5 DEF vars, ScreenOf, Shown
  <1> QED BY <1>1, <1>2, <1>3, <1>4, <1>5 DEF Next, Keyboard

-----------------------------------------------------------------------------
(* The flag of a terminal says whether it has a map.                        *)
FlagTells == \A t \in Terminals : program[t].mapped = vidmap[t]

LEMMA FlagStep ==
  ASSUME Types, FlagTells, [Next]_vars
  PROVE  FlagTells'
  <1>1. ASSUME NEW t \in Terminals, Program(t) PROVE FlagTells'
    <2>1. CASE VidmapSet(t)
      <3>1. /\ program'[t].mapped /\ \A u \in Terminals : u # t => program'[u] = program[u]
            /\ vidmap'[t] /\ \A u \in Terminals : u # t => vidmap'[u] = vidmap[u]
        BY <2>1 DEF VidmapSet, Types
      <3>2. vidmap'[t] = TRUE /\ program'[t].mapped = TRUE
        BY <2>1 DEF VidmapSet, Types
      <3> QED BY <3>1, <3>2 DEF FlagTells
    <2>2. CASE HaltClear(t)
      <3> DEFINE d == program[t].display
      <3>1. \A u \in Terminals : vidmap'[u] = IF vidmap[t] /\ u \in {t, d} THEN FALSE ELSE vidmap[u]
        BY <2>2 DEF HaltClear, Types
      <3>2. program'[t].mapped = FALSE
        BY <2>2 DEF HaltClear
      <3>3. \A u \in Terminals : u # t =>
              program'[u] = IF u = d /\ program[t].mapped THEN [program[u] EXCEPT !.mapped = FALSE] ELSE program[u]
        BY <2>2 DEF HaltClear
      <3>4. \A u \in Terminals : [program[u] EXCEPT !.mapped = FALSE].mapped = FALSE
        BY DEF Types
      <3>5. vidmap'[t] = FALSE
        BY <3>1 DEF Types
      <3>6. ASSUME NEW u \in Terminals, u # t PROVE program'[u].mapped = vidmap'[u]
        <4>1. CASE u = d /\ program[t].mapped
          BY <3>1, <3>3, <3>4, <3>6, <4>1 DEF FlagTells
        <4>2. CASE ~(u = d /\ program[t].mapped)
          <5>1. program'[u] = program[u]
            BY <3>3, <3>6, <4>2
          <5>2. ~(vidmap[t] /\ u \in {t, d})
            BY <3>6, <4>2 DEF FlagTells
          <5> QED BY <3>1, <5>1, <5>2 DEF FlagTells
        <4> QED BY <4>1, <4>2
      <3> QED BY <3>2, <3>5, <3>6 DEF FlagTells
    <2>3. CASE ~VidmapSet(t) /\ ~HaltClear(t)
      <3>1. vidmap' = vidmap
        BY <1>1, <2>3 DEF Program, Write, PrintDraw, PrintAdvance, PrintStore, VidmapAll, VidmapLook, HaltLook
      <3>2. \A u \in Terminals : program'[u].mapped = program[u].mapped
        <4>1. \A u \in Terminals : u # t => program'[u] = program[u]
          BY <1>1, <2>3 DEF Program, Write, PrintDraw, PrintAdvance, PrintStore, VidmapAll, VidmapLook,
                            HaltLook, Go, Types
        <4>2. program'[t].mapped = program[t].mapped
          <5>1. CASE Write(t)
            BY <5>1 DEF Write
          <5>2. CASE PrintDraw(t) \/ PrintAdvance(t) \/ PrintStore(t) \/ VidmapAll(t)
            BY <5>2 DEF PrintDraw, PrintAdvance, PrintStore, VidmapAll, Go, Types
          <5>3. CASE VidmapLook(t) \/ HaltLook(t)
            BY <5>3 DEF VidmapLook, HaltLook, Types
          <5> QED BY <1>1, <2>3, <5>1, <5>2, <5>3 DEF Program
        <4> QED BY <4>1, <4>2
      <3> QED BY <3>1, <3>2 DEF FlagTells
    <2> QED BY <2>1, <2>2, <2>3
  <1>2. CASE Keyboard \/ Tick \/ UNCHANGED vars
    <2>1. UNCHANGED <<program, vidmap>>
      BY <1>2 DEF Keyboard, Echo, Backspace, Clear, OtherKey, SwitchCopy, SwitchDisplay,
                  SwitchMemory, RestoreVideo, Tick, vars
    <2> QED BY <2>1 DEF FlagTells
  <1> QED BY <1>1, <1>2 DEF Next

(* The processor goes to another terminal by a tick only.                   *)
LEMMA TurnStep ==
  ASSUME FlagTells, [Next]_vars, NEW t \in Terminals, scheduled # t, scheduled' = t
  PROVE  /\ video_mem' = FrameOf(t) /\ screen_x' = x_cursor[t]
         /\ vid_map' = [frame |-> FrameOf(t), present |-> program[t].mapped]
  <1>1. Tick
    BY DEF Next, vars, Program, Write, PrintDraw, PrintAdvance, PrintStore, VidmapAll, VidmapLook,
           VidmapSet, HaltLook, HaltClear, Keyboard, Echo, Backspace, Clear, OtherKey, SwitchCopy,
           SwitchDisplay, SwitchMemory, RestoreVideo
  <1>2. /\ screen_x' = x_cursor[t] /\ video_mem' = FrameOf(t)
        /\ vid_map' = [frame |-> FrameOf(t), present |-> vidmap[t]]
    BY <1>1 DEF Tick, MemorySwitch
  <1> QED BY <1>2 DEF FlagTells

-----------------------------------------------------------------------------
(* The cursors stay on the screen and every redirection ends in a frame.    *)
THEOREM ScreenTypeCorrect == ASSUME "display" \notin Windows PROVE Spec => []TypeOK
  <1>1. SInv => TypeOK
    BY DEF SInv, Types, TypeOK, PcSet
  <1> QED BY <1>1, ScreenInductive, PTL

(* No character of one terminal gets on the screen of another (lib.c:328-365,  *)
(* keyboard.c:110-233, execute.c:332-350), for any number of terminals.    *)
THEOREM TextCorrect == ASSUME "display" \notin Windows PROVE Spec => []TextNotMixed
  <1>1. SInv => TextNotMixed
    BY DEF SInv
  <1> QED BY <1>1, ScreenInductive, PTL

(* A line that no interrupt has disturbed is the whole output, in order.    *)
THEOREM OutputCorrect == ASSUME "display" \notin Windows PROVE Spec => []OutputShown
  <1>1. SInv => OutputShown
    BY DEF SInv, LinesRight, OutputShown, Line
  <1> QED BY <1>1, ScreenInductive, PTL

(* Only its own program, or a key while it is on display, changes a screen;   *)
(* terminal_switch() (terminal.c:159-176) and ticks keep all of them.      *)
THEOREM KeptCorrect == ASSUME "display" \notin Windows PROVE Spec => ScreensKept
  <1>1. SInv /\ [Next]_vars =>
          [\A t \in Terminals : ScreenOf(t)' # ScreenOf(t) =>
             \/ Running(t) /\ UNCHANGED <<displayed, scheduled, handler>>
             \/ t = displayed /\ handler.pc = "none" /\ handler'.pc = "end"]_vars
    BY KeptStep
  <1> QED BY <1>1, ScreenInductive, PTL DEF Spec, ScreensKept

(* A turn starts with the terminal's own frame and cursor (execute.c:332-350), *)
(* and with its map if a program has called vidmap() and no halt() has     *)
(* taken it since (execute.c:145-150).                                     *)
THEOREM TurnCorrect == ASSUME "display" \notin Windows PROVE Spec => TurnStartsRight
  <1>1. Init => FlagTells
    <2> SUFFICES ASSUME Init, NEW t \in Terminals PROVE program[t].mapped = vidmap[t]
      BY DEF FlagTells
    <2>1. program[t] = [pc |-> "user", display |-> -1, mapped |-> FALSE] /\ vidmap[t] = FALSE
      BY DEF Init
    <2>2. program[t].mapped = FALSE
      BY <2>1
    <2> QED BY <2>1, <2>2
  <1>2. SInv /\ FlagTells /\ [Next]_vars => FlagTells'
    BY FlagStep DEF SInv
  <1>3. FlagTells /\ [Next]_vars =>
          [\A t \in Terminals : scheduled # t /\ scheduled' = t =>
             /\ video_mem' = FrameOf(t) /\ screen_x' = x_cursor[t]
             /\ vid_map' = [frame |-> FrameOf(t), present |-> program[t].mapped]]_vars
    BY TurnStep
  <1> QED BY <1>1, <1>2, <1>3, ScreenInductive, PTL DEF Spec, TurnStartsRight
=============================================================================
