------------------------------ MODULE Sessions ------------------------------
(***************************************************************************)
(* What the process layer promises to the person at the keyboard: every    *)
(* terminal holds a session, the call stack of the programs started in it  *)
(* (execute pushes, halt pops, a halted base shell is replaced by a new    *)
(* one), and the CPU goes round the terminals.  A program occupies one of  *)
(* a fixed set of places from its execute to its halt.                     *)
(***************************************************************************)
EXTENDS Integers, Sequences, SequencesExt

CONSTANTS Places,      \* where a program can live: the PCB slots
          Number       \* how many terminals there are

VARIABLES session,     \* the call stack of a terminal, its base shell first
          turn         \* the terminal whose front program runs

Users == 0 .. Number - 1
Used  == UNION {ToSet(session[t]) : t \in Users}

Init == /\ session = [t \in Users |-> << >>]
        /\ turn = 0

(* The first shell of a terminal, which gets the CPU with it.               *)
Open(t, p) == /\ session[t] = << >>
              /\ p \in Places \ Used
              /\ session' = [session EXCEPT ![t] = <<p>>]
              /\ turn' = t

Call(p) == /\ session[turn] # << >>
           /\ p \in Places \ Used
           /\ session' = [session EXCEPT ![turn] = Append(@, p)]
           /\ UNCHANGED turn

Return == /\ Len(session[turn]) > 1
          /\ session' = [session EXCEPT ![turn] = Front(@)]
          /\ UNCHANGED turn

Restart(p) == /\ Len(session[turn]) = 1
              /\ p \in Places \ (Used \ ToSet(session[turn]))
              /\ session' = [session EXCEPT ![turn] = <<p>>]
              /\ UNCHANGED turn

Pass == LET t == (turn + 1) % Number IN
        /\ session[t] # << >>
        /\ turn' = t
        /\ UNCHANGED session

Next == \/ \E p \in Places : \/ Open(turn, p)
                             \/ Open((turn + 1) % Number, p)
                             \/ Call(p)
                             \/ Restart(p)
        \/ Return
        \/ Pass

(* Whatever the programs do, the CPU never stays with one terminal.         *)
Rotate == Pass \/ \E p \in Places : Open((turn + 1) % Number, p)

Spec == Init /\ [][Next]_<<session, turn>> /\ WF_<<session, turn>>(Rotate)
=============================================================================
