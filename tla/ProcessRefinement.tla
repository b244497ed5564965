-------------------------- MODULE ProcessRefinement --------------------------
(***************************************************************************)
(* The PCB table, the parent links and the terminals' pcb_ptr implement    *)
(* the call stacks of module Sessions.                                     *)
(***************************************************************************)
EXTENDS Process, Sequences

(* The callers of slot s, base shell first, s last; n bounds the links      *)
(* followed, for a table whose links are not a chain.                      *)
Callers[n \in 0 .. MAX_PCB] ==
  [s \in SlotOrNull |-> IF s = Null \/ n = 0 THEN << >>
                        ELSE Append(Callers[n - 1][parent_id[s]], s)]

CallStack(t) == IF count_pcb[t] = 0 THEN << >> ELSE Callers[MAX_PCB][Front(t)]
CallStacks   == [t \in Terminals |-> CallStack(t)]

(* The refinement mapping.                                                  *)
Promised == INSTANCE Sessions WITH
              Places  <- Slots,
              Number  <- MAX_TERMINAL_NUM,
              session <- CallStacks,
              turn    <- scheduled

(* execute(), halt() and scheduler() do to the terminals' call stacks what  *)
(* Sessions says, and nothing else; their fairness gives its fairness.     *)
ImplementsSessions == Promised!Spec
=============================================================================
