------------------------------ MODULE LineInput ------------------------------
(***************************************************************************)
(* What terminal input promises: every terminal has a line of its own,     *)
(* which the keys edit while the terminal is on display, which keeps its   *)
(* length while another terminal is on display, and which, once it is      *)
(* entered, the program of that terminal gets exactly once and in full,    *)
(* unless it is too long: then it is thrown away whole.                    *)
(*                                                                         *)
(* While a line waits, any of its keys may turn into junk, and to put a    *)
(* line aside may be the end of everything.                                *)
(*                                                                         *)
(* Keyboard and terminal_read() implement this with one key_buffer and one *)
(* signal for all terminals (module Input).                                *)
(***************************************************************************)
EXTENDS Integers, Sequences

CONSTANTS Terminals, MaxLine,
          Longest,   \* keys, Enter included, of the longest line that is delivered
          Junk       \* what a key that is not kept turns into

VARIABLES shown,     \* the terminal on display
          line,      \* the line of each terminal
          entered,   \* has it been entered?
          got,       \* the last line the program of each terminal has read
          lost       \* is this the end?
vars == <<shown, line, entered, got, lost>>

Key(c) == [on |-> shown, key |-> c]

Init == /\ shown = 0
        /\ line = [t \in Terminals |-> << >>]
        /\ entered = [t \in Terminals |-> FALSE]
        /\ got = [t \in Terminals |-> << >>]
        /\ lost = FALSE

(* A line some keys of which are junk.                                      *)
Spoilt(s) == {[i \in DOMAIN s |-> IF i \in J THEN Junk ELSE s[i]] : J \in SUBSET DOMAIN s}

Press(c) == /\ ~lost /\ ~entered[shown]
            /\ Len(line[shown]) < MaxLine
            /\ line' = [line EXCEPT ![shown] = Append(@, Key(c))]
            /\ entered' = [entered EXCEPT ![shown] = c = "enter"]
            /\ UNCHANGED <<shown, got, lost>>

Erase == /\ ~lost /\ ~entered[shown]
         /\ line[shown] # << >>
         /\ line' = [line EXCEPT ![shown] = SubSeq(@, 1, Len(@) - 1)]
         /\ UNCHANGED <<shown, entered, got, lost>>

Show(t) == /\ ~lost /\ t # shown
           /\ shown' = t
           /\ \E s \in Spoilt(line[shown]) : line' = [line EXCEPT ![shown] = s]
           /\ UNCHANGED <<entered, got, lost>>

Spoil(t) == /\ ~lost /\ t # shown
            /\ \E s \in Spoilt(line[t]) : line' = [line EXCEPT ![t] = s]
            /\ UNCHANGED <<shown, entered, got, lost>>

Lose == /\ line[shown] # << >>
        /\ lost' = TRUE
        /\ UNCHANGED <<shown, line, entered, got>>

Deliver(t) == /\ ~lost /\ entered[t]
              /\ got'  = IF Len(line[t]) > Longest THEN got ELSE [got EXCEPT ![t] = line[t]]
              /\ line' = [line EXCEPT ![t] = << >>]
              /\ entered' = [entered EXCEPT ![t] = FALSE]
              /\ UNCHANGED <<shown, lost>>

Next == \/ \E c \in {"letter", "enter"} : Press(c)
        \/ Erase
        \/ \E t \in Terminals : Show(t) \/ Spoil(t) \/ Deliver(t)
        \/ Lose

(* An entered line is delivered, unless everything is lost.                 *)
Spec == /\ Init /\ [][Next]_vars
        /\ \A t \in Terminals : WF_vars(Deliver(t))
=============================================================================
