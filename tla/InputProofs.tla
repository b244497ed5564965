----------------------------- MODULE InputProofs -----------------------------
(***************************************************************************)
(* Input proved about, for every number of terminals and every buffer size: *)
(* no key ends up in the line of another terminal, whatever the user does   *)
(* (IInv), and every step is one of LineInput or none if the user is        *)
(* patient (PInv).                                                          *)
(***************************************************************************)
EXTENDS Input, TLAPS

LineSet == {s \in Seq(Keys) : Len(s) <= MaxLine}

Readers == [pc   : {"user", "signal?", "shown?", "take", "check", "copy", "clean"},
            copy : LineSet]

(* TypeOK, with lines that are sequences.                                   *)
Types ==
  /\ key_buffer \in LineSet
  /\ signal \in BOOLEAN /\ lost \in BOOLEAN
  /\ displayed \in Terminals /\ scheduled \in Terminals
  /\ saved_line \in [Terminals -> LineSet]
  /\ reader \in [Terminals -> Readers]
  /\ got \in [Terminals -> LineSet]
  /\ \/ switch = NoSwitch
     \/ switch \in [pc : {"load", "display"}, next : Terminals, host : Terminals]

IInv == Types /\ LinesNotMixed

-----------------------------------------------------------------------------
LEMMA InitIInv == Init => IInv
  <1> SUFFICES ASSUME Init PROVE IInv
    OBVIOUS
  <1> USE DEF Init
  <1>1. << >> \in LineSet /\ 0 \in Terminals
    BY InputAssumption DEF LineSet, Terminals
  <1>2. InUser \in Readers
    BY <1>1 DEF InUser, Readers
  <1>3. Types
    BY <1>1, <1>2 DEF Types
  <1>4. LinesNotMixed
    BY DEF LinesNotMixed
  <1> QED BY <1>3, <1>4 DEF IInv

(* A step of terminal_read() changes the reader, and at most throws the      *)
(* buffer away.                                                            *)
LEMMA ReaderStep == ASSUME IInv, NEW t \in Terminals, Read(t) \/ Reader(t) PROVE IInv'
  <1>1. << >> \in LineSet
    BY InputAssumption DEF LineSet
  <1>2. reader[t] \in Readers /\ reader[t].copy \in LineSet
    BY DEF IInv, Types, Readers
  <1>3. /\ key_buffer' = key_buffer \/ key_buffer' = << >>
        /\ UNCHANGED <<displayed, scheduled, saved_line, switch, lost>>
    BY DEF Read, Reader, SeeSignal, SeeDisplay, TakeSignal, TooMuch, NotTooMuch, Copy, Clean
  <1>4. signal' \in BOOLEAN
    BY DEF IInv, Types, Read, Reader, SeeSignal, SeeDisplay, TakeSignal, TooMuch, NotTooMuch,
           Copy, Clean
  <1>5. got' \in [Terminals -> LineSet]
    <2>1. got' = got \/ got' = [got EXCEPT ![t] = reader[t].copy]
      BY DEF Read, Reader, SeeSignal, SeeDisplay, TakeSignal, TooMuch, NotTooMuch, Copy, Clean
    <2> QED BY <1>2, <2>1 DEF IInv, Types
  <1>6. reader' \in [Terminals -> Readers]
    <2>1. ASSUME NEW pc \in {"user", "signal?", "shown?", "take", "check", "copy", "clean"}, To(t, pc)
          PROVE  reader' \in [Terminals -> Readers]
      <3>1. [reader[t] EXCEPT !.pc = pc] \in Readers
        BY <1>2 DEF Readers
      <3> QED BY <2>1, <3>1 DEF To, IInv, Types
    <2>2. InUser \in Readers
      BY <1>1 DEF InUser, Readers
    <2>3. CASE Copy(t)
      <3>1. [[reader[t] EXCEPT !.pc = "clean"] EXCEPT !.copy = key_buffer] \in Readers
        BY <1>2 DEF IInv, Types, Readers
      <3> QED BY <2>3, <3>1 DEF Copy, IInv, Types
    <2>4. CASE TooMuch(t) \/ Clean(t)
      BY <2>2, <2>4 DEF TooMuch, Clean, IInv, Types
    <2>5. CASE Read(t) \/ SeeSignal(t) \/ SeeDisplay(t) \/ TakeSignal(t) \/ NotTooMuch(t)
      BY <2>1, <2>5 DEF Read, SeeSignal, SeeDisplay, TakeSignal, NotTooMuch
    <2> QED BY <2>3, <2>4, <2>5 DEF Reader
  <1>7. Types'
    BY <1>1, <1>3, <1>4, <1>5, <1>6 DEF IInv, Types
  <1>8. LinesNotMixed'
    BY <1>3 DEF IInv, LinesNotMixed, Shown
  <1> QED BY <1>7, <1>8 DEF IInv

(* A key is tagged with the terminal on display; one less is as good.        *)
LEMMA KeyStep ==
  ASSUME IInv, (\E c \in {"letter", "enter"} : Key(c)) \/ Backspace
  PROVE  IInv'
  <1>1. /\ switch.pc = "none" /\ key_buffer \in Seq(Keys) /\ Len(key_buffer) <= MaxLine
        /\ displayed \in Terminals
    BY DEF Key, Backspace, KeyComes, IInv, Types, LineSet
  <1>2. Shown = displayed /\ Shown' = displayed
    BY <1>1 DEF Shown, Key, Backspace
  <1>3. /\ key_buffer' \in LineSet
        /\ \A i \in DOMAIN key_buffer' : OfTerminal(key_buffer'[i], displayed)
    <2>1. ASSUME NEW c \in {"letter", "enter"}, Key(c)
          PROVE  /\ key_buffer' \in LineSet
                 /\ \A i \in DOMAIN key_buffer' : OfTerminal(key_buffer'[i], displayed)
      <3> DEFINE k == [on |-> displayed, key |-> c]
      <3>1. k \in Keys
        BY <1>1 DEF Keys
      <3>2. key_buffer' = Append(key_buffer, k) /\ Len(key_buffer) < MaxLine
        BY <2>1 DEF Key
      <3>3. key_buffer' \in LineSet
        BY <1>1, <3>1, <3>2, InputAssumption DEF LineSet
      <3>4. \A i \in DOMAIN key_buffer' : key_buffer'[i] = IF i <= Len(key_buffer) THEN key_buffer[i] ELSE k
        BY <1>1, <3>1, <3>2
      <3>5. \A i \in DOMAIN key_buffer' : i <= Len(key_buffer) => i \in DOMAIN key_buffer
        BY <1>1, <3>1, <3>2
      <3>6. OfTerminal(k, displayed)
        BY DEF OfTerminal
      <3> QED BY <1>2, <3>3, <3>4, <3>5, <3>6 DEF IInv, LinesNotMixed
    <2>2. CASE Backspace
      <3>1. key_buffer' = SubSeq(key_buffer, 1, Len(key_buffer) - 1) /\ key_buffer # << >>
        BY <2>2 DEF Backspace
      <3>2. Len(key_buffer) \in Nat \ {0}
        BY <1>1, <3>1
      <3>3. key_buffer' \in LineSet
        BY <1>1, <3>1, <3>2, InputAssumption DEF LineSet
      <3>4. \A i \in DOMAIN key_buffer' : i \in DOMAIN key_buffer /\ key_buffer'[i] = key_buffer[i]
        BY <1>1, <3>1, <3>2
      <3> QED BY <1>2, <3>3, <3>4 DEF IInv, LinesNotMixed
    <2> QED BY <2>1, <2>2
  <1>4. signal' \in BOOLEAN
    BY DEF IInv, Types, Key, Backspace
  <1>5. UNCHANGED <<displayed, scheduled, saved_line, reader, switch, got, lost>>
    BY DEF Key, Backspace
  <1>6. Types'
    BY <1>3, <1>4, <1>5 DEF IInv, Types
  <1>7. LinesNotMixed'
    BY <1>2, <1>3, <1>5 DEF IInv, LinesNotMixed
  <1> QED BY <1>6, <1>7 DEF IInv

(* The three steps of terminal_switch(): the line on display goes out whole,  *)
(* the other comes in whole, and only then the displayed terminal changes. *)
LEMMA SwitchStep ==
  ASSUME IInv, (\E n \in Terminals : SwitchSave(n)) \/ Switching
  PROVE  IInv'
  <1>1. ASSUME NEW n \in Terminals, SwitchSave(n) PROVE IInv'
    <2>1. /\ switch.pc = "none" /\ displayed \in Terminals
          /\ saved_line' = [saved_line EXCEPT ![displayed] = key_buffer]
          /\ switch' = [pc |-> "load", next |-> n, host |-> scheduled]
          /\ UNCHANGED <<key_buffer, signal, displayed, scheduled, reader, got, lost>>
      BY <1>1 DEF SwitchSave, KeyComes, IInv, Types
    <2>2. Types'
      BY <2>1 DEF IInv, Types
    <2>3. Shown = displayed /\ Shown' = displayed
      BY <2>1 DEF Shown
    <2>4. \A t \in Terminals : saved_line'[t] = IF t = displayed THEN key_buffer ELSE saved_line[t]
      BY <2>1 DEF IInv, Types
    <2>5. LinesNotMixed'
      BY <2>1, <2>3, <2>4 DEF IInv, LinesNotMixed
    <2> QED BY <2>2, <2>5 DEF IInv
  <1>2. ASSUME switch.pc \in {"load", "display"}
        PROVE  /\ switch \in [pc : {"load", "display"}, next : Terminals, host : Terminals]
               /\ switch.next \in Terminals
    BY <1>2 DEF IInv, Types, NoSwitch
  <1>3. CASE SwitchLoad
    <2>1. /\ switch.pc = "load"
          /\ key_buffer' = saved_line[switch.next]
          /\ saved_line' = [saved_line EXCEPT ![switch.next] = << >>]
          /\ switch' = [switch EXCEPT !.pc = "display"]
          /\ UNCHANGED <<signal, displayed, scheduled, reader, got, lost>>
      BY <1>3 DEF SwitchLoad
    <2>2. /\ switch' \in [pc : {"load", "display"}, next : Terminals, host : Terminals]
          /\ switch'.pc = "display" /\ switch'.next = switch.next
      BY <1>2, <2>1
    <2>6. << >> \in LineSet
      BY InputAssumption DEF LineSet
    <2>3. Types'
      BY <1>2, <2>1, <2>2, <2>6 DEF IInv, Types
    <2>4. Shown' = switch.next
      BY <2>2 DEF Shown
    <2>7. \A t \in Terminals : saved_line'[t] = IF t = switch.next THEN << >> ELSE saved_line[t]
      BY <2>1 DEF IInv, Types
    <2>5. LinesNotMixed'
      BY <1>2, <2>1, <2>4, <2>7 DEF IInv, LinesNotMixed
    <2> QED BY <2>3, <2>5 DEF IInv
  <1>4. CASE SwitchDisplay
    <2>1. /\ switch.pc = "display"
          /\ displayed' = switch.next /\ switch' = NoSwitch
          /\ UNCHANGED <<key_buffer, signal, scheduled, saved_line, reader, got, lost>>
      BY <1>4 DEF SwitchDisplay
    <2>2. Shown = switch.next /\ Shown' = switch.next
      BY <2>1 DEF Shown, NoSwitch
    <2>3. Types'
      BY <1>2, <2>1 DEF IInv, Types
    <2>4. LinesNotMixed'
      BY <2>1, <2>2 DEF IInv, LinesNotMixed
    <2> QED BY <2>3, <2>4 DEF IInv
  <1> QED BY <1>1, <1>3, <1>4 DEF Switching

(* A saved line of which a key is overwritten is a line, with more junk.     *)
LEMMA SpoiltLine ==
  ASSUME NEW s \in LineSet, NEW i \in DOMAIN s
  PROVE  [s EXCEPT ![i] = Junk] \in LineSet
  <1>1. s \in Seq(Keys) /\ Junk \in Keys
    BY DEF LineSet, Keys
  <1>2. [s EXCEPT ![i] = Junk] \in Seq(Keys) /\ Len([s EXCEPT ![i] = Junk]) = Len(s)
    BY <1>1
  <1> QED BY <1>2 DEF LineSet

LEMMA SpoilStep ==
  ASSUME IInv, NEW t \in Terminals, Spoil(t)
  PROVE  IInv'
  <1>1. PICK i \in DOMAIN saved_line[t] : saved_line' = [saved_line EXCEPT ![t][i] = Junk]
    BY DEF Spoil
  <1>2. PICK s \in LineSet : s = saved_line[t]
    BY DEF IInv, Types
  <1>3. PICK r \in LineSet : r = [s EXCEPT ![i] = Junk]
    BY <1>1, <1>2, SpoiltLine
  <1>4. saved_line' = [saved_line EXCEPT ![t] = r]
    BY <1>1, <1>2, <1>3
  <1>5. UNCHANGED <<key_buffer, signal, displayed, scheduled, reader, switch, got, lost>>
    BY DEF Spoil
  <1>6. Types'
    BY <1>3, <1>4, <1>5 DEF IInv, Types
  <1>7. \A u \in Terminals : saved_line'[u] = IF u = t THEN r ELSE saved_line[u]
    BY <1>4 DEF IInv, Types
  <1>8. \A k \in DOMAIN r : OfTerminal(r[k], t)
    <2>1. \A k \in DOMAIN s : OfTerminal(s[k], t)
      BY <1>2 DEF IInv, LinesNotMixed
    <2>2. \A k \in DOMAIN r : k \in DOMAIN s /\ (r[k] = s[k] \/ r[k] = Junk)
      BY <1>3 DEF LineSet
    <2>3. OfTerminal(Junk, t)
      BY DEF OfTerminal
    <2> QED BY <2>1, <2>2, <2>3
  <1>9. LinesNotMixed'
    BY <1>5, <1>7, <1>8 DEF IInv, LinesNotMixed, Shown
  <1> QED BY <1>6, <1>9 DEF IInv

(* A switch that overwrites something of process 0 changes nothing else.     *)
LEMMA OverwriteStep ==
  ASSUME IInv, NEW n \in Terminals, SwitchOverwrites(n)
  PROVE  IInv'
  <1>1. lost' = TRUE /\ UNCHANGED <<key_buffer, signal, displayed, scheduled, saved_line, reader, switch, got>>
    BY DEF SwitchOverwrites
  <1> QED BY <1>1 DEF IInv, Types, LinesNotMixed, Shown

LEMMA NextIInv == IInv /\ [Next]_vars => IInv'
  <1> SUFFICES ASSUME IInv, [Next]_vars PROVE IInv'
    OBVIOUS
  <1>1. CASE Tick
    <2>1. scheduled' \in Terminals
      BY <1>1, InputAssumption DEF Tick, Terminals, IInv, Types
    <2> QED BY <1>1, <2>1 DEF Tick, IInv, Types, LinesNotMixed, Shown
  <1>2. CASE UNCHANGED vars
    BY <1>2 DEF vars, IInv, Types, LinesNotMixed, Shown
  <1> QED BY <1>1, <1>2, ReaderStep, KeyStep, SwitchStep, SpoilStep, OverwriteStep DEF Next

-----------------------------------------------------------------------------
(* Types stay as they are, and the buffer within its bound.                 *)
THEOREM InputTypeCorrect == Spec => []TypeOK
  <1>1. ASSUME NEW s \in LineSet PROVE IsLine(s)
    BY DEF LineSet, IsLine
  <1>2. ASSUME IInv PROVE TypeOK
    <2>1. Types
      BY <1>2 DEF IInv
    <2>2. \A t \in Terminals : /\ IsLine(saved_line[t]) /\ IsLine(got[t]) /\ IsLine(reader[t].copy)
                               /\ reader[t].pc \in {"user", "signal?", "shown?", "take", "check", "copy", "clean"}
      BY <1>1, <2>1 DEF Types, Readers
    <2> QED BY <1>1, <2>1, <2>2 DEF Types, TypeOK
  <1> QED BY <1>2, InitIInv, NextIInv, PTL DEF Spec

(* terminal_switch() moves the one key_buffer in and out whole (terminal.c:    *)
(* 159-175): no key ends up in the line of another terminal, for any number*)
(* of terminals and any user, whichever steps of reads, keys and ticks come*)
(* between, and wherever process 0 writes over the lines that are saved on *)
(* its stack: what it leaves there is junk, and of no terminal.            *)
THEOREM LinesCorrect == Spec => []LinesNotMixed
  <1>1. IInv => LinesNotMixed
    BY DEF IInv
  <1> QED BY <1>1, InitIInv, NextIInv, PTL DEF Spec

-----------------------------------------------------------------------------
(* A patient user: while a line is entered, taken or moved, no key comes and   *)
(* no switch begins.  An entered line waits for the reader of the terminal *)
(* on display, which finds it as it was entered.                           *)
SignalWaits == signal =>
  switch = NoSwitch /\ reader[displayed].pc \in {"signal?", "shown?", "take"}

OneReader == \A t \in Terminals :
  /\ reader[t].pc = "shown?" => switch = NoSwitch /\ (t = displayed => signal)
  /\ reader[t].pc = "take"   => signal /\ t = displayed
  /\ reader[t].pc \in {"check", "copy", "clean"} => ~signal /\ switch = NoSwitch /\ t = displayed
  /\ reader[t].pc \in {"copy", "clean"} => Len(key_buffer) < KEYB_BUFFER_SIZE
  /\ reader[t].pc = "clean" => reader[t].copy = key_buffer

QuietSwitch == switch.pc # "none" =>
  /\ ~signal /\ \A t \in Terminals : reader[t].pc \in {"user", "signal?"}
  /\ switch.next \in Terminals /\ switch.next # displayed
  /\ switch.pc = "load" => saved_line[displayed] \in Lines!Spoilt(key_buffer)

PInv == IInv /\ SignalWaits /\ OneReader /\ QuietSwitch

(* A line is one with no junk, or one key more of it.                        *)
LEMMA SpoiltIs ==
  ASSUME NEW s \in LineSet
  PROVE  /\ s \in Lines!Spoilt(s)
         /\ \A r \in Lines!Spoilt(s) : \A i \in DOMAIN r :
              DOMAIN r = DOMAIN s /\ [r EXCEPT ![i] = Junk] \in Lines!Spoilt(s)
  <1> DEFINE With(J) == [i \in DOMAIN s |-> IF i \in J THEN Junk ELSE s[i]]
  <1>1. \A J \in SUBSET DOMAIN s : With(J) \in Lines!Spoilt(s)
    BY DEF Lines!Spoilt
  <1>2. With({}) = s
    BY DEF LineSet
  <1>3. ASSUME NEW r \in Lines!Spoilt(s), NEW i \in DOMAIN r
        PROVE  DOMAIN r = DOMAIN s /\ [r EXCEPT ![i] = Junk] \in Lines!Spoilt(s)
    <2>1. PICK J \in SUBSET DOMAIN s : r = With(J)
      BY DEF Lines!Spoilt
    <2>2. DOMAIN r = DOMAIN s
      BY <2>1
    <2>3. [r EXCEPT ![i] = Junk] = With(J \cup {i})
      BY <2>1, <2>2
    <2> HIDE DEF With
    <2> QED BY <1>1, <2>2, <2>3
  <1>4. {} \in SUBSET DOMAIN s
    OBVIOUS
  <1> HIDE DEF With
  <1> QED BY <1>1, <1>2, <1>3, <1>4

(* The safety part of ImplementsLines.                                      *)
LinesSafe == Lines!Init /\ [][Lines!Next]_(Lines!vars)

LEMMA InitPInv == Init => PInv
  <1> SUFFICES ASSUME Init PROVE PInv
    OBVIOUS
  <1>1. \A t \in Terminals : reader[t].pc = "user"
    BY DEF Init, InUser
  <1>2. ~signal /\ switch.pc = "none"
    BY DEF Init, NoSwitch
  <1> QED BY <1>1, <1>2, InitIInv DEF PInv, SignalWaits, OneReader, QuietSwitch

(* A step of terminal_read() moves one reader.                              *)
LEMMA OneMoves ==
  ASSUME IInv, NEW t \in Terminals, Read(t) \/ Reader(t)
  PROVE  /\ \A u \in Terminals \ {t} : reader'[u] = reader[u]
         /\ UNCHANGED <<displayed, scheduled, saved_line, switch, lost>>
         /\ scheduled = t /\ ~lost
  <1>1. reader \in [Terminals -> Readers]
    BY DEF IInv, Types
  <1> QED BY <1>1 DEF Read, Reader, SeeSignal, SeeDisplay, TakeSignal, TooMuch, NotTooMuch, Copy, Clean,
                      To, Running

(* Where the step leaves that reader.                                       *)
LEMMA Moves ==
  ASSUME IInv, NEW t \in Terminals
  PROVE  /\ Read(t) => reader'[t].pc = "signal?"
         /\ SeeSignal(t) => reader'[t].pc = "shown?"
         /\ SeeDisplay(t) => reader'[t].pc = IF scheduled = displayed THEN "take" ELSE "signal?"
         /\ TakeSignal(t) => reader'[t].pc = "check"
         /\ TooMuch(t) \/ Clean(t) => reader'[t].pc = "user"
         /\ NotTooMuch(t) => reader'[t].pc = "copy"
         /\ Copy(t) => reader'[t].pc = "clean" /\ reader'[t].copy = key_buffer
  <1>1. reader \in [Terminals -> Readers] /\ reader[t] \in Readers
    BY DEF IInv, Types
  <1>2. ASSUME NEW pc, To(t, pc) PROVE reader'[t].pc = pc
    BY <1>1, <1>2 DEF To, Readers
  <1> QED BY <1>1, <1>2 DEF Read, SeeSignal, SeeDisplay, TakeSignal, TooMuch, NotTooMuch, Copy, Clean,
                            InUser, Readers

LEMMA ReaderPatient ==
  ASSUME PInv, NEW t \in Terminals, Read(t) \/ Reader(t)
  PROVE  (SignalWaits /\ OneReader /\ QuietSwitch)'
  <1>0. IInv /\ displayed \in Terminals /\ switch = NoSwitch => switch.pc = "none"
    BY DEF PInv, IInv, Types, NoSwitch
  <1>1. /\ \A u \in Terminals \ {t} : reader'[u] = reader[u]
        /\ UNCHANGED <<displayed, scheduled, saved_line, switch>>
        /\ scheduled = t
    BY OneMoves DEF PInv
  <1>2. IInv /\ displayed \in Terminals
    BY DEF PInv, IInv, Types
  <1> USE DEF PInv, SignalWaits, OneReader, QuietSwitch
  <1>3. CASE Read(t)
    <2>1. reader[t].pc = "user" /\ UNCHANGED <<signal, key_buffer>>
      BY <1>3 DEF Read
    <2> QED BY <1>1, <1>2, <1>3, <2>1, Moves
  <1>4. CASE SeeSignal(t)
    <2>1. reader[t].pc = "signal?" /\ signal /\ UNCHANGED <<signal, key_buffer>>
      BY <1>4 DEF SeeSignal
    <2>2. switch.pc = "none"
      BY <2>1 DEF NoSwitch
    <2> QED BY <1>1, <1>2, <1>4, <2>1, <2>2, Moves
  <1>5. CASE SeeDisplay(t)
    <2>1. reader[t].pc = "shown?" /\ UNCHANGED <<signal, key_buffer>>
      BY <1>5 DEF SeeDisplay
    <2>2. switch = NoSwitch /\ switch.pc = "none"
      BY <2>1 DEF NoSwitch
    <2> QED BY <1>1, <1>2, <1>5, <2>1, <2>2, Moves
  <1>6. CASE TakeSignal(t)
    <2>1. reader[t].pc = "take" /\ ~signal' /\ UNCHANGED key_buffer
      BY <1>6 DEF TakeSignal
    <2>2. signal /\ t = displayed /\ switch = NoSwitch /\ switch.pc = "none"
      BY <2>1 DEF NoSwitch
    <2> QED BY <1>1, <1>2, <1>6, <2>1, <2>2, Moves
  <1>7. CASE TooMuch(t) \/ Clean(t)
    <2>1. reader[t].pc \in {"check", "clean"} /\ UNCHANGED signal
      BY <1>7 DEF TooMuch, Clean
    <2>2. ~signal /\ t = displayed /\ switch = NoSwitch /\ switch.pc = "none"
      BY <2>1 DEF NoSwitch
    <2> QED BY <1>1, <1>2, <1>7, <2>1, <2>2, Moves
  <1>8. CASE NotTooMuch(t) \/ Copy(t)
    <2>1. reader[t].pc \in {"check", "copy"} /\ UNCHANGED <<signal, key_buffer>>
      BY <1>8 DEF NotTooMuch, Copy
    <2>2. ~signal /\ t = displayed /\ switch = NoSwitch /\ switch.pc = "none"
      BY <2>1 DEF NoSwitch
    <2>3. Len(key_buffer) < KEYB_BUFFER_SIZE
      BY <1>8, <2>1 DEF NotTooMuch, Copy
    <2> QED BY <1>1, <1>2, <1>8, <2>1, <2>2, <2>3, Moves
  <1> QED BY <1>3, <1>4, <1>5, <1>6, <1>7, <1>8 DEF Reader

LEMMA KeyboardPatient ==
  ASSUME Patient, PInv,
         \/ \E c \in {"letter", "enter"} : Key(c)
         \/ Backspace
         \/ \E n \in Terminals : SwitchSave(n)
  PROVE  (SignalWaits /\ OneReader /\ QuietSwitch)'
  <1>1. /\ KeyComes /\ displayed \in Terminals
        /\ UNCHANGED <<displayed, reader>>
    BY DEF Key, Backspace, SwitchSave, PInv, IInv, Types
  <1>2. /\ switch.pc = "none" /\ ~signal
        /\ \A t \in Terminals : reader[t].pc \in {"user", "signal?"}
        /\ reader[displayed].pc = "signal?"
    BY <1>1 DEF KeyComes
  <1>3. switch = NoSwitch
    BY <1>2 DEF PInv, IInv, Types
  <1>4. CASE (\E c \in {"letter", "enter"} : Key(c)) \/ Backspace
    <2>1. UNCHANGED switch
      BY <1>4 DEF Key, Backspace
    <2> QED BY <1>1, <1>2, <1>3, <2>1 DEF SignalWaits, OneReader, QuietSwitch
  <1>5. ASSUME NEW n \in Terminals, SwitchSave(n)
        PROVE  (SignalWaits /\ OneReader /\ QuietSwitch)'
    <2>1. /\ ~signal' /\ switch'.next = n /\ n # displayed
          /\ saved_line'[displayed] = key_buffer /\ key_buffer' = key_buffer
      BY <1>1, <1>2, <1>5 DEF SwitchSave, PInv, IInv, Types
    <2>2. key_buffer \in Lines!Spoilt(key_buffer)
      BY SpoiltIs DEF PInv, IInv, Types
    <2>3. (saved_line[displayed] \in Lines!Spoilt(key_buffer))'
      <3>1. saved_line'[displayed'] \in Lines!Spoilt(key_buffer')
        BY <1>1, <2>1, <2>2
      <3> QED BY <3>1 DEF Lines!Spoilt
    <2> QED BY <1>1, <1>2, <2>1, <2>3 DEF SignalWaits, OneReader, QuietSwitch
  <1> QED BY <1>4, <1>5

LEMMA SwitchPatient ==
  ASSUME PInv, Switching
  PROVE  (SignalWaits /\ OneReader /\ QuietSwitch)'
  <1>1. /\ switch.pc # "none" /\ UNCHANGED <<signal, reader>>
        /\ ~signal /\ \A t \in Terminals : reader[t].pc \in {"user", "signal?"}
        /\ switch.next \in Terminals /\ switch.next # displayed
    BY DEF Switching, SwitchLoad, SwitchDisplay, PInv, QuietSwitch
  <1>2. SignalWaits' /\ OneReader'
    BY <1>1 DEF SignalWaits, OneReader
  <1>3. CASE SwitchLoad
    <2>1. switch'.pc = "display" /\ switch'.next = switch.next /\ UNCHANGED displayed
      BY <1>3 DEF SwitchLoad, PInv, IInv, Types, NoSwitch
    <2> QED BY <1>1, <1>2, <2>1 DEF QuietSwitch
  <1>4. CASE SwitchDisplay
    BY <1>2, <1>4 DEF SwitchDisplay, NoSwitch, QuietSwitch
  <1> QED BY <1>3, <1>4 DEF Switching

(* A saved line gets more junk; that of the terminal on display, while a      *)
(* switch begins, is no other than key_buffer but for that.                *)
LEMMA SpoilPatient ==
  ASSUME PInv, NEW t \in Terminals, Spoil(t)
  PROVE  (SignalWaits /\ OneReader /\ QuietSwitch)'
  <1>1. UNCHANGED <<key_buffer, signal, displayed, scheduled, reader, switch, got, lost>>
    BY DEF Spoil
  <1>2. PICK i \in DOMAIN saved_line[t] : saved_line' = [saved_line EXCEPT ![t][i] = Junk]
    BY DEF Spoil
  <1>3. PICK s \in LineSet : s = saved_line[t]
    BY DEF PInv, IInv, Types
  <1>4. key_buffer \in LineSet /\ displayed \in Terminals
    BY DEF PInv, IInv, Types
  <1>5. \A u \in Terminals : saved_line'[u] = IF u = t THEN [s EXCEPT ![i] = Junk] ELSE saved_line[u]
    BY <1>2, <1>3 DEF PInv, IInv, Types
  <1>6. (switch.pc = "load" => saved_line[displayed] \in Lines!Spoilt(key_buffer))'
    <2>1. saved_line[displayed] \in Lines!Spoilt(key_buffer) =>
            saved_line'[displayed] \in Lines!Spoilt(key_buffer)
      BY <1>2, <1>3, <1>4, <1>5, SpoiltIs
    <2>2. switch.pc = "load" => saved_line'[displayed'] \in Lines!Spoilt(key_buffer')
      BY <1>1, <2>1 DEF PInv, QuietSwitch
    <2> QED BY <1>1, <2>2 DEF Lines!Spoilt
  <1>7. SignalWaits' /\ OneReader'
    BY <1>1 DEF PInv, SignalWaits, OneReader
  <1>8. switch.pc # "none" =>
          /\ ~signal /\ \A u \in Terminals : reader[u].pc \in {"user", "signal?"}
          /\ switch.next \in Terminals /\ switch.next # displayed
    BY DEF PInv, QuietSwitch
  <1>9. QuietSwitch'
    BY <1>1, <1>6, <1>8 DEF QuietSwitch
  <1> QED BY <1>7, <1>9

LEMMA OverwritePatient ==
  ASSUME PInv, NEW n \in Terminals, SwitchOverwrites(n)
  PROVE  (SignalWaits /\ OneReader /\ QuietSwitch)'
  <1>1. UNCHANGED <<key_buffer, signal, displayed, scheduled, saved_line, reader, switch, got>>
    BY DEF SwitchOverwrites
  <1>2. (switch.pc = "load" => saved_line[displayed] \in Lines!Spoilt(key_buffer))'
    <2>1. switch.pc = "load" => saved_line'[displayed'] \in Lines!Spoilt(key_buffer')
      BY <1>1 DEF PInv, QuietSwitch
    <2> QED BY <1>1, <2>1 DEF Lines!Spoilt
  <1>3. SignalWaits' /\ OneReader'
    BY <1>1 DEF PInv, SignalWaits, OneReader
  <1>4. switch.pc # "none" =>
          /\ ~signal /\ \A u \in Terminals : reader[u].pc \in {"user", "signal?"}
          /\ switch.next \in Terminals /\ switch.next # displayed
    BY DEF PInv, QuietSwitch
  <1>5. QuietSwitch'
    BY <1>1, <1>2, <1>4 DEF QuietSwitch
  <1> QED BY <1>3, <1>5

LEMMA NextPInv == ASSUME Patient PROVE PInv /\ [Next]_vars => PInv'
  <1> SUFFICES ASSUME PInv, [Next]_vars PROVE PInv'
    OBVIOUS
  <1>1. IInv'
    BY NextIInv DEF PInv
  <1>2. CASE Tick \/ UNCHANGED vars
    BY <1>1, <1>2 DEF Tick, vars, PInv, SignalWaits, OneReader, QuietSwitch
  <1> QED BY <1>1, <1>2, ReaderPatient, KeyboardPatient, SwitchPatient, SpoilPatient, OverwritePatient
      DEF Next, PInv

-----------------------------------------------------------------------------
(* The line of each terminal, and whether it has been entered, as the         *)
(* refinement mapping of Lines gives them.                                 *)
LineOf == [t \in Terminals |-> IF t = Shown THEN key_buffer ELSE saved_line[t]]

EnteredOf == [t \in Terminals |->
                t = Shown /\ (signal \/ reader[t].pc \in {"check", "copy", "clean"})]

LEMMA ShownType == IInv => Shown \in Terminals
  BY DEF IInv, Types, NoSwitch, Shown

(* Nothing of LineInput changes while a reader goes from one test to the next. *)
LEMMA ReaderWaits ==
  ASSUME PInv, NEW t \in Terminals,
         Read(t) \/ SeeSignal(t) \/ SeeDisplay(t) \/ TakeSignal(t) \/ NotTooMuch(t) \/ Copy(t)
  PROVE  UNCHANGED Lines!vars
  <1>1. /\ \A u \in Terminals \ {t} : reader'[u] = reader[u]
        /\ UNCHANGED <<displayed, scheduled, saved_line, switch, lost>> /\ ~lost
    BY OneMoves DEF PInv, Reader
  <1>2. UNCHANGED <<key_buffer, got>>
    BY DEF Read, SeeSignal, SeeDisplay, TakeSignal, NotTooMuch, Copy
  <1>3. UNCHANGED <<Shown, LineOf>>
    BY <1>1, <1>2 DEF Shown, LineOf
  <1>4. \A u \in Terminals : EnteredOf'[u] = EnteredOf[u]
    <2>1. CASE TakeSignal(t)
      <3>1. reader[t].pc = "take" /\ ~signal'
        BY <2>1 DEF TakeSignal
      <3>2. signal /\ t = displayed /\ Shown = t /\ Shown' = t
        BY <1>1, <3>1 DEF PInv, OneReader, SignalWaits, Shown, NoSwitch
      <3>3. reader'[t].pc = "check"
        BY <2>1, Moves DEF PInv
      <3> QED BY <3>1, <3>2, <3>3 DEF EnteredOf
    <2>2. CASE ~TakeSignal(t)
      <3>1. UNCHANGED signal
        BY <2>2 DEF Read, SeeSignal, SeeDisplay, TakeSignal, NotTooMuch, Copy
      <3>2. reader[t].pc \in {"check", "copy", "clean"} <=> reader'[t].pc \in {"check", "copy", "clean"}
        BY <2>2, Moves DEF PInv, Read, SeeSignal, SeeDisplay, NotTooMuch, Copy
      <3> QED BY <1>1, <1>3, <3>1, <3>2 DEF EnteredOf
    <2> QED BY <2>1, <2>2
  <1>5. UNCHANGED EnteredOf
    BY <1>4 DEF EnteredOf
  <1> QED BY <1>1, <1>2, <1>3, <1>5 DEF Lines!vars, LineOf, EnteredOf

(* A reader ends with the line that was entered, or with none if it is too    *)
(* long.                                                                   *)
LEMMA ReaderDelivers ==
  ASSUME PInv, NEW t \in Terminals, TooMuch(t) \/ Clean(t)
  PROVE  Lines!Deliver(t)
  <1>1. /\ \A u \in Terminals \ {t} : reader'[u] = reader[u]
        /\ UNCHANGED <<displayed, scheduled, saved_line, switch, lost>> /\ ~lost
    BY OneMoves DEF PInv, Reader
  <1>2. /\ reader[t].pc \in {"check", "clean"} /\ reader'[t].pc = "user"
        /\ key_buffer' = << >> /\ signal' = signal
    BY Moves DEF PInv, TooMuch, Clean
  <1>3. ~signal /\ t = displayed /\ Shown = t /\ Shown' = t
    BY <1>1, <1>2 DEF PInv, OneReader, Shown, NoSwitch
  <1>4. EnteredOf[t]
    BY <1>2, <1>3 DEF EnteredOf
  <1>5. LineOf[t] = key_buffer
    BY <1>3 DEF LineOf
  <1>6. LineOf' = [LineOf EXCEPT ![t] = << >>]
    BY <1>1, <1>2, <1>3 DEF LineOf
  <1>7. EnteredOf' = [EnteredOf EXCEPT ![t] = FALSE]
    BY <1>1, <1>2, <1>3 DEF EnteredOf
  <1>8. got' = IF Len(LineOf[t]) > KEYB_BUFFER_SIZE - 1 THEN got ELSE [got EXCEPT ![t] = LineOf[t]]
    <2>1. key_buffer \in Seq(Keys) /\ Len(key_buffer) \in Nat
      BY DEF PInv, IInv, Types, LineSet
    <2>2. CASE TooMuch(t)
      BY <1>5, <2>1, <2>2, InputAssumption DEF TooMuch
    <2>3. CASE Clean(t)
      <3>1. reader[t].copy = key_buffer /\ Len(key_buffer) < KEYB_BUFFER_SIZE
        BY <2>3 DEF Clean, PInv, OneReader
      <3> QED BY <1>5, <2>1, <2>3, <3>1, InputAssumption DEF Clean
    <2> QED BY <2>2, <2>3
  <1>9. UNCHANGED <<Shown, lost>> /\ ~lost
    BY <1>1, <1>3
  <1> QED BY <1>4, <1>6, <1>7, <1>8, <1>9 DEF Lines!Deliver, LineOf, EnteredOf

(* A key finds no line entered and edits the line on display.               *)
LEMMA KeyEdits ==
  ASSUME Patient, PInv, (\E c \in {"letter", "enter"} : Key(c)) \/ Backspace
  PROVE  Lines!Next
  <1>1. /\ KeyComes /\ displayed \in Terminals
        /\ UNCHANGED <<displayed, scheduled, saved_line, reader, switch, got, lost>> /\ ~lost
    BY DEF Key, KeyComes, Backspace, PInv, IInv, Types
  <1>2. /\ Shown = displayed /\ Shown' = displayed
        /\ ~signal /\ \A t \in Terminals : reader[t].pc \in {"user", "signal?"}
    BY <1>1 DEF KeyComes, Shown
  <1>3. ~EnteredOf[Shown] /\ LineOf[Shown] = key_buffer
    BY <1>1, <1>2 DEF EnteredOf, LineOf
  <1>4. LineOf' = [LineOf EXCEPT ![Shown] = key_buffer']
    BY <1>1, <1>2 DEF LineOf
  <1>5. EnteredOf' = [EnteredOf EXCEPT ![Shown] = signal']
    <2>1. CASE signal' = TRUE
      <3>1. EnteredOf' = [EnteredOf EXCEPT ![Shown] = TRUE]
        BY <1>1, <1>2, <2>1 DEF EnteredOf
      <3> QED BY <2>1, <3>1
    <2>2. CASE signal' = FALSE
      <3>1. EnteredOf' = [EnteredOf EXCEPT ![Shown] = FALSE]
        BY <1>1, <1>2, <2>2 DEF EnteredOf
      <3> QED BY <2>2, <3>1
    <2>3. signal' \in BOOLEAN
      BY DEF Key, Backspace, PInv, IInv, Types
    <2> QED BY <2>1, <2>2, <2>3
  <1>6. ASSUME NEW c \in {"letter", "enter"}, Key(c) PROVE Lines!Press(c)
    <2>1. key_buffer' = Append(LineOf[Shown], [on |-> Shown, key |-> c]) /\ Len(LineOf[Shown]) < MaxLine
      BY <1>2, <1>3, <1>6 DEF Key
    <2>2. signal' = (c = "enter")
      BY <1>2, <1>6 DEF Key
    <2>3. UNCHANGED <<Shown, got, lost>> /\ ~lost
      BY <1>1, <1>2
    <2>4. LineOf' = [LineOf EXCEPT ![Shown] = Append(@, Lines!Key(c))]
      BY <1>1, <1>4, <2>1 DEF Lines!Key, LineOf
    <2>5. EnteredOf' = [EnteredOf EXCEPT ![Shown] = c = "enter"]
      BY <1>5, <2>2
    <2> QED BY <1>3, <2>1, <2>3, <2>4, <2>5 DEF Lines!Press, LineOf, EnteredOf
  <1>7. ASSUME Backspace PROVE Lines!Erase
    <2>1. /\ key_buffer' = SubSeq(LineOf[Shown], 1, Len(LineOf[Shown]) - 1)
          /\ LineOf[Shown] # << >> /\ UNCHANGED signal
      BY <1>3, <1>7 DEF Backspace
    <2>2. UNCHANGED <<Shown, got, lost>> /\ ~lost
      BY <1>1, <1>2
    <2>3. LineOf' = [LineOf EXCEPT ![Shown] = SubSeq(@, 1, Len(@) - 1)]
      BY <1>1, <1>4, <2>1 DEF LineOf
    <2>4. UNCHANGED EnteredOf
      BY <1>1, <1>2, <2>1 DEF EnteredOf
    <2> QED BY <1>3, <2>1, <2>2, <2>3, <2>4 DEF Lines!Erase, LineOf, EnteredOf
  <1> QED BY <1>6, <1>7 DEF Lines!Next

(* Of the three steps of a switch, the one that loads the buffer shows the    *)
(* other terminal: the line that was on display is then the saved one.     *)
LEMMA SwitchShows ==
  ASSUME Patient, PInv, (\E n \in Terminals : SwitchSave(n)) \/ Switching
  PROVE  Lines!Next \/ UNCHANGED Lines!vars
  <1>1. ASSUME NEW n \in Terminals, SwitchSave(n) PROVE UNCHANGED Lines!vars
    <2>1. /\ switch.pc = "none" /\ switch'.pc = "load" /\ displayed \in Terminals
          /\ \A t \in Terminals \ {displayed} : saved_line'[t] = saved_line[t]
          /\ UNCHANGED <<key_buffer, signal, displayed, reader, got, lost>>
      BY <1>1 DEF SwitchSave, KeyComes, PInv, IInv, Types
    <2>2. Shown = displayed /\ Shown' = displayed
      BY <2>1 DEF Shown
    <2>3. UNCHANGED <<LineOf, EnteredOf>>
      BY <2>1, <2>2 DEF LineOf, EnteredOf
    <2> QED BY <2>1, <2>2, <2>3 DEF Lines!vars, LineOf, EnteredOf
  <1>2. CASE Switching
    <2>1. /\ ~signal /\ \A t \in Terminals : reader[t].pc \in {"user", "signal?"}
          /\ UNCHANGED <<signal, reader, got, lost>> /\ ~lost
          /\ switch.next \in Terminals /\ switch.next # displayed
      BY <1>2 DEF Switching, SwitchLoad, SwitchDisplay, PInv, QuietSwitch
    <2>2. UNCHANGED EnteredOf
      BY <2>1 DEF EnteredOf
    <2>3. CASE SwitchLoad
      <3>1. /\ switch.pc = "load" /\ key_buffer' = saved_line[switch.next]
            /\ switch'.pc = "display" /\ switch'.next = switch.next
            /\ saved_line[displayed] \in Lines!Spoilt(key_buffer)
            /\ saved_line' = [saved_line EXCEPT ![switch.next] = << >>]
        BY <2>3 DEF SwitchLoad, PInv, QuietSwitch, IInv, Types, NoSwitch
      <3>2. Shown = displayed /\ Shown' = switch.next
        BY <3>1 DEF Shown
      <3>6. PICK r : r = saved_line[displayed]
        OBVIOUS
      <3>3. LineOf' = [LineOf EXCEPT ![Shown] = r]
        <4>1. \A t \in Terminals \ {switch.next} : saved_line'[t] = saved_line[t]
          BY <3>1 DEF PInv, IInv, Types
        <4> QED BY <2>1, <3>1, <3>2, <3>6, <4>1 DEF LineOf
      <3>7. r \in Lines!Spoilt(LineOf[Shown])
        <4>1. LineOf[Shown] = key_buffer
          BY <3>2 DEF LineOf, PInv, IInv, Types
        <4> QED BY <3>1, <3>6, <4>1
      <3>4. PICK n \in Terminals : n = switch.next
        BY <2>1
      <3>5. Lines!Show(n)
        BY <2>1, <2>2, <3>2, <3>3, <3>4, <3>7 DEF Lines!Show, LineOf, EnteredOf
      <3> QED BY <3>5 DEF Lines!Next
    <2>4. CASE SwitchDisplay
      <3>1. UNCHANGED <<Shown, key_buffer, saved_line>>
        BY <2>4 DEF SwitchDisplay, Shown, NoSwitch
      <3>2. UNCHANGED LineOf
        BY <2>1, <3>1 DEF LineOf
      <3> QED BY <2>1, <2>2, <3>1, <3>2 DEF Lines!vars, LineOf, EnteredOf
    <2> QED BY <1>2, <2>3, <2>4 DEF Switching
  <1> QED BY <1>1, <1>2

(* A key overwritten in a saved line is one in a line that waits, or in no     *)
(* line that is ever shown.                                                *)
LEMMA SpoilSpoils ==
  ASSUME PInv, NEW t \in Terminals, Spoil(t)
  PROVE  Lines!Next \/ UNCHANGED Lines!vars
  <1>1. UNCHANGED <<key_buffer, signal, displayed, scheduled, reader, switch, got, lost>> /\ ~lost
    BY DEF Spoil
  <1>2. PICK i \in DOMAIN saved_line[t] : saved_line' = [saved_line EXCEPT ![t][i] = Junk]
    BY DEF Spoil
  <1>3. PICK s \in LineSet : s = saved_line[t]
    BY DEF PInv, IInv, Types
  <1>4. PICK r : r = [s EXCEPT ![i] = Junk]
    OBVIOUS
  <1>5. \A u \in Terminals : saved_line'[u] = IF u = t THEN r ELSE saved_line[u]
    BY <1>2, <1>3, <1>4 DEF PInv, IInv, Types
  <1>6. UNCHANGED Shown
    BY <1>1 DEF Shown
  <1>7. UNCHANGED EnteredOf
    BY <1>1, <1>6 DEF EnteredOf
  <1>8. CASE t = Shown
    <2>1. UNCHANGED LineOf
      BY <1>1, <1>5, <1>6, <1>8 DEF LineOf
    <2> QED BY <1>1, <1>6, <1>7, <2>1 DEF Lines!vars, LineOf, EnteredOf
  <1>9. CASE t # Shown
    <2>1. LineOf' = [LineOf EXCEPT ![t] = r] /\ LineOf[t] = s
      BY <1>1, <1>3, <1>5, <1>6, <1>9 DEF LineOf
    <2>2. r \in Lines!Spoilt(s)
      BY <1>2, <1>3, <1>4, SpoiltIs
    <2>3. Lines!Spoil(t)
      BY <1>1, <1>6, <1>7, <1>9, <2>1, <2>2 DEF Lines!Spoil, LineOf, EnteredOf
    <2> QED BY <2>3 DEF Lines!Next
  <1> QED BY <1>8, <1>9

(* To put a line aside that is not empty may be the end.                     *)
LEMMA OverwriteLoses ==
  ASSUME PInv, NEW n \in Terminals, SwitchOverwrites(n)
  PROVE  Lines!Next
  <1>1. /\ UNCHANGED <<key_buffer, signal, displayed, scheduled, saved_line, reader, switch, got>>
        /\ lost' = TRUE /\ key_buffer # << >> /\ switch.pc = "none" /\ displayed \in Terminals
    BY DEF SwitchOverwrites, KeyComes, PInv, IInv, Types
  <1>2. Shown = displayed /\ UNCHANGED Shown
    BY <1>1 DEF Shown
  <1>3. UNCHANGED <<LineOf, EnteredOf>> /\ LineOf[Shown] = key_buffer
    BY <1>1, <1>2 DEF LineOf, EnteredOf
  <1>4. Lines!Lose
    BY <1>1, <1>2, <1>3 DEF Lines!Lose, LineOf, EnteredOf
  <1> QED BY <1>4 DEF Lines!Next

LEMMA LinesStep == ASSUME Patient PROVE PInv /\ [Next]_vars => [Lines!Next]_(Lines!vars)
  <1> SUFFICES ASSUME PInv, [Next]_vars PROVE Lines!Next \/ UNCHANGED Lines!vars
    OBVIOUS
  <1>1. CASE Tick \/ UNCHANGED vars
    BY <1>1 DEF Tick, vars, Lines!vars, Shown
  <1>2. ASSUME NEW t \in Terminals, Read(t) \/ Reader(t) PROVE Lines!Next \/ UNCHANGED Lines!vars
    BY <1>2, ReaderWaits, ReaderDelivers DEF Reader, Lines!Next
  <1> QED BY <1>1, <1>2, KeyEdits, SwitchShows, SpoilSpoils, OverwriteLoses DEF Next

LEMMA LinesInit == Init => Lines!Init
  <1> SUFFICES ASSUME Init PROVE Lines!Init
    OBVIOUS
  <1>1. Shown = 0 /\ ~signal /\ \A t \in Terminals : reader[t].pc = "user"
    BY DEF Init, Shown, NoSwitch, InUser
  <1>2. LineOf = [t \in Terminals |-> << >>]
    BY DEF Init, LineOf
  <1>3. EnteredOf = [t \in Terminals |-> FALSE]
    BY <1>1 DEF EnteredOf
  <1>4. lost = FALSE
    BY DEF Init
  <1> QED BY <1>1, <1>2, <1>3, <1>4 DEF Init, Lines!Init, LineOf, EnteredOf

(* With a patient user the one buffer and the one signal do for all            *)
(* terminals: each line is edited and delivered whole and once as LineInput*)
(* says, or thrown away whole if it is too long (terminal.c:73-97,         *)
(* 159-175), for any number of terminals and any buffer size.  Over a      *)
(* switch it keeps its length, but not its keys, which lie on the kernel   *)
(* stack of process 0: LineInput lets any of them turn into junk there, and*)
(* the machine be lost.  That an entered line is delivered in the end is   *)
(* left to the run.                                                        *)
THEOREM LinesImplemented == ASSUME Patient PROVE Spec => LinesSafe
  <1> QED BY InitPInv, NextPInv, LinesInit, LinesStep, PTL DEF Spec, LinesSafe
=============================================================================
