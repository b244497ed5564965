------------------------------ MODULE MC_Process ------------------------------
(***************************************************************************)
(* Everything that is checked of the process layer with atomic handlers:   *)
(* the properties of Process, its refinement of Sessions, and the          *)
(* inductive invariant of ProcessProofs, in one state space.               *)
(***************************************************************************)
EXTENDS ProcessProofs
=============================================================================
