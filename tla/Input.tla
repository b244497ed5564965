-------------------------------- MODULE Input --------------------------------
(***************************************************************************)
(* The way of a key from the keyboard to a program: the keyboard handler    *)
(* (keyboard.c), terminal_switch() and terminal_read() (terminal.c), with   *)
(* one line buffer and one read signal for all terminals.                   *)
(*                                                                         *)
(* Ticks move the CPU from the program of one terminal to that of the next. *)
(* They, and keys, come between any two steps of terminal_read(), which     *)
(* runs with interrupts on.  The keyboard handler runs with interrupts off  *)
(* except that terminal_switch() turns them on twice before it is done; a   *)
(* tick there leaves the handler suspended on the stack of the program it   *)
(* interrupted, and no key comes until it ends, for want of an EOI.         *)
(*                                                                         *)
(* terminal_list[t].keyb_buffer points into a local array of                *)
(* terminal_init() (128, 139) that is gone: boot.S starts that stack at     *)
(* 0x800000, and the kernel stack of process 0, the base shell of terminal *)
(* 0, begins at the same address (execute.c:207).  So what happens on that *)
(* stack may overwrite a saved line (Spoil), and saving a line may         *)
(* overwrite what is live on that stack (SwitchOverwrites).                *)
(*                                                                         *)
(* A key in a buffer is tagged with the terminal on display when it was     *)
(* pressed (history).  Left out: which letter it is, the modifier keys, the *)
(* screen.  The copy loop of terminal_read() is one step.                   *)
(***************************************************************************)
EXTENDS Integers, Sequences

CONSTANTS
  MAX_TERMINAL_NUM,   \* 3 in the code
  KEYB_BUFFER_SIZE,   \* length of key_buffer, 128 in the code
  MaxLine,            \* bound: keys typed into one line
  Patient             \* does the user wait, before the next key, until the
                      \* program shown asks for input and no line is pending?

ASSUME InputAssumption == /\ MAX_TERMINAL_NUM \in Nat \ {0}
                          /\ KEYB_BUFFER_SIZE \in Nat \ {0}
                          /\ MaxLine \in Nat
                          /\ Patient \in BOOLEAN

Terminals == 0 .. MAX_TERMINAL_NUM - 1

VARIABLES
  key_buffer,   \* key_buffer[0 .. keyb_index - 1]
  signal,       \* terminal_read_enable_signal
  displayed,    \* curr_terminal_num
  scheduled,    \* scheduled_terminal_num
  saved_line,   \* terminal_list[t].keyb_buffer, up to keyb_buffer_index, empty
                \* once it is loaded: it is saved anew before the next load
  reader,       \* the program of each terminal, in or out of terminal_read()
  switch,       \* the terminal_switch() in progress
  got,          \* the line each program read last
  lost          \* has a frame of process 0 been overwritten?
vars == <<key_buffer, signal, displayed, scheduled, saved_line, reader, switch, got, lost>>

(* What is found where a key was overwritten.                               *)
Nowhere == -1
Junk    == [on |-> Nowhere, key |-> "junk"]

InUser == [pc |-> "user", copy |-> << >>]
NoSwitch == [pc |-> "none", next |-> -1, host |-> -1]

Init ==
  /\ key_buffer = << >> /\ signal = FALSE
  /\ displayed = 0 /\ scheduled = 0
  /\ saved_line = [t \in Terminals |-> << >>]
  /\ reader = [t \in Terminals |-> InUser]
  /\ switch = NoSwitch
  /\ got = [t \in Terminals |-> << >>]
  /\ lost = FALSE

(* The program of terminal t has the CPU, and no handler on its stack.       *)
Running(t) == ~lost /\ scheduled = t /\ switch.host # t

To(t, pc) == reader' = [reader EXCEPT ![t].pc = pc]

-----------------------------------------------------------------------------
(* terminal_read(), terminal.c:73-97.                                       *)
Read(t) ==
  /\ Running(t) /\ reader[t].pc = "user"
  /\ To(t, "signal?")
  /\ UNCHANGED <<key_buffer, signal, displayed, scheduled, saved_line, switch, got, lost>>

(* The two conditions of the wait loop (77), one after the other.           *)
SeeSignal(t) ==
  /\ Running(t) /\ reader[t].pc = "signal?"
  /\ signal
  /\ To(t, "shown?")
  /\ UNCHANGED <<key_buffer, signal, displayed, scheduled, saved_line, switch, got, lost>>

(* Operators named Bug_... are mutants: slips that the properties below must *)
(* find.  Here any terminal's program takes the line.                      *)
Bug_NotShown(t) ==
  /\ Running(t) /\ reader[t].pc = "shown?"
  /\ To(t, "take")
  /\ UNCHANGED <<key_buffer, signal, displayed, scheduled, saved_line, switch, got, lost>>

SeeDisplay(t) ==
  /\ Running(t) /\ reader[t].pc = "shown?"
  /\ To(t, IF scheduled = displayed THEN "take" ELSE "signal?")
  /\ UNCHANGED <<key_buffer, signal, displayed, scheduled, saved_line, switch, got, lost>>

TakeSignal(t) ==
  /\ Running(t) /\ reader[t].pc = "take"
  /\ signal' = FALSE
  /\ To(t, "check")
  /\ UNCHANGED <<key_buffer, displayed, scheduled, saved_line, switch, got, lost>>

(* A full buffer is thrown away and 0 returned (81-85).                      *)
TooMuch(t) ==
  /\ Running(t) /\ reader[t].pc = "check"
  /\ Len(key_buffer) >= KEYB_BUFFER_SIZE
  /\ key_buffer' = << >>
  /\ reader' = [reader EXCEPT ![t] = InUser]
  /\ UNCHANGED <<signal, displayed, scheduled, saved_line, switch, got, lost>>

NotTooMuch(t) ==
  /\ Running(t) /\ reader[t].pc = "check"
  /\ Len(key_buffer) < KEYB_BUFFER_SIZE
  /\ To(t, "copy")
  /\ UNCHANGED <<key_buffer, signal, displayed, scheduled, saved_line, switch, got, lost>>

(* The whole buffer is copied, whatever nbytes is (87-94).                   *)
Copy(t) ==
  /\ Running(t) /\ reader[t].pc = "copy"
  /\ reader' = [reader EXCEPT ![t].pc = "clean", ![t].copy = key_buffer]
  /\ UNCHANGED <<key_buffer, signal, displayed, scheduled, saved_line, switch, got, lost>>

(* The buffer is not cleaned.                                               *)
Bug_LineStays(t) ==
  /\ Running(t) /\ reader[t].pc = "clean"
  /\ got' = [got EXCEPT ![t] = reader[t].copy]
  /\ reader' = [reader EXCEPT ![t] = InUser]
  /\ UNCHANGED <<key_buffer, signal, displayed, scheduled, saved_line, switch, lost>>

(* clean_keyb_buffer() and the return (95-96).                              *)
Clean(t) ==
  /\ Running(t) /\ reader[t].pc = "clean"
  /\ key_buffer' = << >>
  /\ got' = [got EXCEPT ![t] = reader[t].copy]
  /\ reader' = [reader EXCEPT ![t] = InUser]
  /\ UNCHANGED <<signal, displayed, scheduled, saved_line, switch, lost>>

-----------------------------------------------------------------------------
(* The keyboard interrupts: interrupts are on at every step of the model,    *)
(* and the last key has had its EOI.                                       *)
KeyComes == /\ ~lost
            /\ switch.pc = "none"
            /\ Patient => /\ ~signal
                          /\ \A t \in Terminals : reader[t].pc \in {"user", "signal?"}
                          /\ reader[displayed].pc = "signal?"

(* A letter or Enter (keyboard.c:215-220).                                  *)
Key(c) ==
  /\ KeyComes
  /\ Len(key_buffer) < MaxLine
  /\ key_buffer' = Append(key_buffer, [on |-> displayed, key |-> c])
  /\ signal' = (signal \/ c = "enter")
  /\ UNCHANGED <<displayed, scheduled, saved_line, reader, switch, got, lost>>

(* Backspace (203-212).                                                     *)
Backspace ==
  /\ KeyComes
  /\ key_buffer # << >>
  /\ key_buffer' = SubSeq(key_buffer, 1, Len(key_buffer) - 1)
  /\ UNCHANGED <<signal, displayed, scheduled, saved_line, reader, switch, got, lost>>

(* Alt-F1, F2, F3: terminal_switch() up to its sti() (terminal.c:159-173);    *)
(* update_keyb_buf(), which ends in sti() (174); the rest (175).           *)
SwitchSave(n) ==
  /\ KeyComes
  /\ n # displayed
  /\ saved_line' = [saved_line EXCEPT ![displayed] = key_buffer]
  /\ switch' = [pc |-> "load", next |-> n, host |-> scheduled]
  /\ UNCHANGED <<key_buffer, signal, displayed, scheduled, reader, got, lost>>

(* The same, when a key is written over something of process 0 that is still   *)
(* needed: what follows is not modelled.                                   *)
SwitchOverwrites(n) ==
  /\ KeyComes
  /\ n # displayed
  /\ key_buffer # << >>
  /\ lost' = TRUE
  /\ UNCHANGED <<key_buffer, signal, displayed, scheduled, saved_line, reader, switch, got>>

(* The saved line is put behind what is in the buffer; an empty one is not    *)
(* loaded.                                                                 *)
Bug_LoadAppends ==
  /\ ~lost /\ switch.pc = "load" /\ scheduled = switch.host
  /\ key_buffer' = key_buffer \o saved_line[switch.next]
  /\ saved_line' = [saved_line EXCEPT ![switch.next] = << >>]
  /\ switch' = [switch EXCEPT !.pc = "display"]
  /\ UNCHANGED <<signal, displayed, scheduled, reader, got, lost>>

Bug_EmptyNotLoaded ==
  /\ ~lost /\ switch.pc = "load" /\ scheduled = switch.host
  /\ key_buffer' = IF saved_line[switch.next] = << >> THEN key_buffer
                   ELSE saved_line[switch.next]
  /\ saved_line' = [saved_line EXCEPT ![switch.next] = << >>]
  /\ switch' = [switch EXCEPT !.pc = "display"]
  /\ UNCHANGED <<signal, displayed, scheduled, reader, got, lost>>

SwitchLoad ==
  /\ ~lost /\ switch.pc = "load" /\ scheduled = switch.host
  /\ key_buffer' = saved_line[switch.next]
  /\ saved_line' = [saved_line EXCEPT ![switch.next] = << >>]
  /\ switch' = [switch EXCEPT !.pc = "display"]
  /\ UNCHANGED <<signal, displayed, scheduled, reader, got, lost>>

SwitchDisplay ==
  /\ ~lost /\ switch.pc = "display" /\ scheduled = switch.host
  /\ displayed' = switch.next
  /\ switch' = NoSwitch
  /\ UNCHANGED <<key_buffer, signal, scheduled, saved_line, reader, got, lost>>

(* scheduler(): the next terminal's program gets the CPU.                   *)
Tick ==
  /\ ~lost
  /\ scheduled' = (scheduled + 1) % MAX_TERMINAL_NUM
  /\ UNCHANGED <<key_buffer, signal, displayed, saved_line, reader, switch, got, lost>>

(* A system call or an interrupt of process 0 writes over a saved key.       *)
Spoil(t) ==
  /\ ~lost /\ scheduled = 0
  /\ \E i \in DOMAIN saved_line[t] : saved_line' = [saved_line EXCEPT ![t][i] = Junk]
  /\ UNCHANGED <<key_buffer, signal, displayed, scheduled, reader, switch, got, lost>>

-----------------------------------------------------------------------------
Reader(t) == \/ SeeSignal(t) \/ SeeDisplay(t) \/ TakeSignal(t)
             \/ TooMuch(t) \/ NotTooMuch(t) \/ Copy(t) \/ Clean(t)

Switching == SwitchLoad \/ SwitchDisplay

Next == \/ \E t \in Terminals : Read(t) \/ Reader(t)
        \/ \E c \in {"letter", "enter"} : Key(c)
        \/ Backspace
        \/ \E n \in Terminals : SwitchSave(n) \/ SwitchOverwrites(n)
        \/ Switching
        \/ Tick
        \/ \E t \in Terminals : Spoil(t)

(* Ticks never stop, and between two of them the program or handler that     *)
(* has the CPU gets on: what can go on in every one of its turns does.     *)
Spec == /\ Init /\ [][Next]_vars
        /\ WF_vars(Tick)
        /\ SF_vars(Switching)
        /\ \A t \in Terminals : SF_vars(Reader(t))

-----------------------------------------------------------------------------
Keys == [on : Terminals, key : {"letter", "enter"}] \cup {Junk}

(* Type invariant.                                                          *)
IsLine(s) == Len(s) <= MaxLine /\ \A i \in DOMAIN s : s[i] \in Keys

TypeOK ==
  /\ IsLine(key_buffer)
  /\ signal \in BOOLEAN /\ lost \in BOOLEAN
  /\ displayed \in Terminals /\ scheduled \in Terminals
  /\ \A t \in Terminals :
       /\ IsLine(saved_line[t]) /\ IsLine(got[t]) /\ IsLine(reader[t].copy)
       /\ reader[t].pc \in {"user", "signal?", "shown?", "take", "check", "copy", "clean"}
  /\ \/ switch = NoSwitch
     \/ switch \in [pc : {"load", "display"}, next : Terminals, host : Terminals]

(* The terminal whose line is in key_buffer.                                *)
Shown == IF switch.pc = "display" THEN switch.next ELSE displayed

(* No key ends up in the line of another terminal: terminal_switch() moves     *)
(* lines in and out of the one key_buffer whole, also with ticks and reads *)
(* between its steps; a key may be junk by then, but never another         *)
(* terminal's.  (The run has a patient user; LinesCorrect is proved for    *)
(* any user, however fast he types and switches.)                          *)
OfTerminal(k, t) == k = Junk \/ k.on = t

LinesNotMixed ==
  /\ \A i \in DOMAIN key_buffer : OfTerminal(key_buffer[i], Shown)
  /\ \A t \in Terminals : \A i \in DOMAIN saved_line[t] : OfTerminal(saved_line[t][i], t)

(* One buffer and one signal do for all terminals, if the user is patient:    *)
(* every line is edited and delivered as LineInput says, a full buffer     *)
(* thrown away whole (81-85), at whichever step of a read or a switch the  *)
(* ticks come.  A line keeps its length over switches, but what LineInput  *)
(* says of it there is as little as the storage allows: any of its keys may*)
(* be junk, and the machine may be lost.                                   *)
Lines == INSTANCE LineInput WITH
  Longest <- KEYB_BUFFER_SIZE - 1,
  shown   <- Shown,
  line    <- [t \in Terminals |-> IF t = Shown THEN key_buffer ELSE saved_line[t]],
  entered <- [t \in Terminals |->
                t = Shown /\ (signal \/ reader[t].pc \in {"check", "copy", "clean"})],
  got     <- got,
  lost    <- lost

ImplementsLines == Lines!Spec

(* A line is kept over switches, and keeping it harms nothing.  The code does   *)
(* not do so, for the place it keeps lines in (README, section 5).         *)
LinesKept == ~lost /\ \A t \in Terminals : \A i \in DOMAIN saved_line[t] : saved_line[t][i] # Junk

(* "waiting for keyboard enter signal" (log/buglog.txt:48): what a read       *)
(* returns was typed at the reader's own terminal and ends with the Enter. *)
(* ImplementsLines has it for a patient user; any other user breaks it     *)
(* (Patient = FALSE, with keys after the Enter).                           *)
ReturnsOwnLine == \A t \in Terminals :
  got[t] # << >> => /\ \A i \in DOMAIN got[t] : got[t][i].on = t
                    /\ got[t][Len(got[t])].key = "enter"
=============================================================================
