----------------------- MODULE ProcessPreemptRefinement -----------------------
(***************************************************************************)
(* With no tick inside the kernel, module ProcessPreempt implements module *)
(* Process: a handler cut at its sti() and run without a tick in between   *)
(* is the one step Process makes of it.                                    *)
(*                                                                         *)
(* Process sees a handler when it has returned to user mode, so the history*)
(* variable seen holds what Process sees: the state at the last moment in  *)
(* user mode.                                                              *)
(***************************************************************************)
EXTENDS ProcessPreempt

VARIABLE seen

(* The kernel stack of slot s has a frame of interest if s is stopped in     *)
(* execute() or in scheduler().                                            *)
FrameOf(s) == IF active[s] /\ s # who /\ Intact(s, saved[s].by)
              THEN saved[s].by ELSE "user"

View == [pid |-> pid, curr_pcb |-> curr_pcb, scheduled |-> scheduled, active |-> active,
         parent_id |-> parent_id, pcb_tid |-> pcb_tid, tss_esp0 |-> tss_esp0,
         saved_esp |-> [s \in Slots |-> saved[s].by],
         kstack    |-> [s \in Slots |-> FrameOf(s)],
         pcb_ptr |-> pcb_ptr, count_pcb |-> count_pcb, tss |-> tss, page |-> page]

See     == seen' = IF at'.pc = "user" THEN View' ELSE seen
RefSpec == /\ Init /\ seen = View
           /\ [][Next /\ See]_<<vars, seen>>
           /\ WF_<<vars, seen>>(Handler /\ See)
           /\ SF_<<vars, seen>>(Tick /\ See)

Atomic == INSTANCE Process WITH
  pid <- seen.pid, curr_pcb <- seen.curr_pcb, scheduled <- seen.scheduled,
  active <- seen.active, parent_id <- seen.parent_id, pcb_tid <- seen.pcb_tid,
  saved_esp <- seen.saved_esp, tss_esp0 <- seen.tss_esp0, pcb_ptr <- seen.pcb_ptr,
  count_pcb <- seen.count_pcb, tss <- seen.tss, page <- seen.page, kstack <- seen.kstack

(* "critical section start" and "end" (page.c:69, 84): without ticks between  *)
(* a handler's sti() and its end, every handler is atomic, and every tick   *)
(* that is due is still taken.                                             *)
HandlersAreAtomic == Atomic!QuietSpec
=============================================================================
