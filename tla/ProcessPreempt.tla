---------------------------- MODULE ProcessPreempt ----------------------------
(***************************************************************************)
(* The process layer with the ticks that land inside the kernel.           *)
(*                                                                         *)
(* execute(), halt() and scheduler() run with interrupts off, but each of  *)
(* them calls set_up_paging(), which ends in sti() (page.c:84): from there *)
(* to the end of the handler a tick is taken, and one that became pending  *)
(* meanwhile is taken at once.  halt() also starts with interrupts on,     *)
(* because 0x80 is a trap gate.  Here every handler is cut at those places *)
(* (its control point is at.pc), and a tick may land at the places listed  *)
(* in Windows.                                                             *)
(*                                                                         *)
(* Kernel stacks are modelled by the contexts suspended on them, because    *)
(* saved_esp is a pointer into a stack that need not be the process's own. *)
(* A context that was resumed stays in memory below the stack pointer      *)
(* until something is pushed over it.                                      *)
(* The rest of the state is that of module Process.                        *)
(***************************************************************************)
EXTENDS Integers, Sequences, FiniteSets

CONSTANTS MAX_PCB, MAX_TERMINAL_NUM,
          Windows,   \* the control points at which a tick may land
          MaxCount,  \* the largest count_pcb, as in Process
          MaxDepth   \* bound: ticks nested on one kernel stack

Points == {"exec", "enter", "head", "tail", "sched", "esp", "leave"}

ASSUME PreemptAssumption == /\ MAX_TERMINAL_NUM \in Nat \ {0}
                            /\ MAX_PCB \in Nat
                            /\ MaxCount \in Nat
                            /\ MAX_TERMINAL_NUM <= MAX_PCB /\ MAX_PCB <= MaxCount
                            /\ Windows \subseteq Points
                            /\ MaxDepth \in Nat

Slots     == 0 .. MAX_PCB - 1
Terminals == 0 .. MAX_TERMINAL_NUM - 1
Null      == -1
NoBlock   == -2
BootStack == -1      \* the stack entry() of kernel.c runs on
Stacks    == Slots \cup {BootStack}

VARIABLES
  pid, curr_pcb, scheduled,
  active, parent_id, pcb_tid, tss_esp0,
  saved,       \* saved_esp by slot: a stack, a depth in it, and who stored it
  pcb_ptr, count_pcb,
  tss, page,
  image,       \* image[s]: the page of slot s holds the program of slot s
  stack,       \* what is written on each kernel stack, from its start
  at,          \* the control point of the CPU; parent is a local of halt()
  who,         \* the process whose call or user code the CPU executes
  on, sp       \* the stack the CPU is on, when in the kernel, and how many
               \* of the contexts on it are in use

pcbVars  == <<active, parent_id, pcb_tid, tss_esp0>>
termVars == <<scheduled, pcb_ptr, count_pcb>>
cpuVars  == <<at, who, on, sp>>
vars == <<pid, curr_pcb, pcbVars, saved, termVars, tss, page, image, stack, cpuVars>>

(* Operators named Bug_... are mutants: slips that the properties below must *)
(* find.  No other definition uses them.                                   *)
Bug_UpOnce(c)    == IF c = 0 THEN 1 ELSE c

Up(c)   == IF c = MaxCount THEN 0 ELSE c + 1
Down(c) == IF c = 0 THEN MaxCount ELSE c - 1

Point(pc)   == [pc |-> pc, parent |-> Null]
InUser      == at.pc = "user"
Suspended(kind) == [kind |-> kind, at |-> at, who |-> who]

(* tss.esp0 is not looked at.                                               *)
Bug_SameStack == on

(* An interrupt or a system call in user mode starts at the top of the       *)
(* stack in tss.esp0; one in the kernel goes on below the frames in use.   *)
EntryStack  == IF InUser THEN tss ELSE on
EntryDepth  == IF InUser THEN 0 ELSE sp
Push(x, d, f) == [stack EXCEPT ![x] = [i \in 1 .. (IF d < Len(@) THEN Len(@) ELSE d + 1) |->
                                         IF i = d + 1 THEN f ELSE @[i]]]

Init ==
  /\ pid = -1 /\ curr_pcb = Null /\ scheduled = 0
  /\ active    = [s \in Slots |-> FALSE]
  /\ parent_id = [s \in Slots |-> Null]
  /\ pcb_tid   = [s \in Slots |-> 0]
  /\ tss_esp0  = [s \in Slots |-> Null]
  /\ saved     = [s \in Slots |-> [stack |-> BootStack, depth |-> 0, by |-> "user"]]
  /\ pcb_ptr   = [t \in Terminals |-> Null]
  /\ count_pcb = [t \in Terminals |-> 0]
  /\ tss = Null /\ page = Null
  /\ image = [s \in Slots |-> FALSE]
  /\ stack = [x \in Stacks |-> << >>]
  /\ at = Point("boot") /\ who = Null /\ on = BootStack /\ sp = 0

-----------------------------------------------------------------------------
(* execute() up to set_up_paging(pid), execute.c:49-84, on the flags act.   *)
NoEmptyPcb(act)  == \A s \in Slots : act[s]
EmptyPcb(act, s) == ~act[s] /\ \A q \in Slots : q < s => act[q]

(* The new page is not mapped.                                              *)
Bug_NotMapped(act) == \E s \in Slots : /\ EmptyPcb(act, s)
                                       /\ pid' = s
                                       /\ at' = Point("exec")
                                       /\ UNCHANGED page

BeginExecute(act) == \E s \in Slots : /\ EmptyPcb(act, s)
                                      /\ pid'  = s
                                      /\ page' = s
                                      /\ at'   = Point("exec")

Boot == /\ at.pc = "boot"
        /\ BeginExecute(active)
        /\ UNCHANGED <<curr_pcb, pcbVars, saved, termVars, tss, image, stack, who, on, sp>>

ExecuteCall == /\ InUser
               /\ BeginExecute(active)
               /\ on' = tss /\ sp' = 0
               /\ UNCHANGED <<curr_pcb, pcbVars, saved, termVars, tss, image, stack, who>>

ExecuteFails == /\ InUser
                /\ \/ NoEmptyPcb(active) /\ pid' = NoBlock
                   \/ \E s \in Slots : EmptyPcb(active, s) /\ pid' = s
                /\ UNCHANGED <<curr_pcb, pcbVars, saved, termVars, tss, page, image,
                               stack, cpuVars>>

(* Any other system call: its frames may reach over everything below the     *)
(* top of the stack it runs on.                                            *)
OtherCall == /\ InUser
             /\ stack[tss] # << >>
             /\ stack' = [stack EXCEPT ![tss] = << >>]
             /\ UNCHANGED <<pid, curr_pcb, pcbVars, saved, termVars, tss, page, image,
                            cpuVars>>

(* execute.c:86-106.  The program is copied to 128MB, that is to the page    *)
(* mapped now; the PCB is that of the global pid, as it is now.            *)
CreateProcess ==
  /\ at.pc = "exec"
  /\ pid \in Slots
  /\ LET base == count_pcb[scheduled] = 0 IN
     /\ base \/ curr_pcb # Null
     /\ image' = IF page = pid THEN [image EXCEPT ![pid] = TRUE]
                 ELSE [image EXCEPT ![pid] = FALSE, ![page] = FALSE]
     /\ active'    = [active EXCEPT ![pid] = TRUE]
     /\ parent_id' = [parent_id EXCEPT ![pid] = IF base THEN Null ELSE curr_pcb]
     /\ pcb_tid'   = [pcb_tid EXCEPT ![pid] = scheduled]
     /\ tss_esp0'  = [tss_esp0 EXCEPT ![pid] = tss]
     /\ IF base THEN UNCHANGED <<saved, stack>>
        ELSE /\ stack' = Push(on, sp, Suspended("execute"))
             /\ saved' = [saved EXCEPT ![curr_pcb] =
                            [stack |-> on, depth |-> sp + 1, by |-> "execute"]]
     /\ sp' = IF base THEN sp ELSE sp + 1
  /\ count_pcb' = [count_pcb EXCEPT ![scheduled] = Up(@)]
  /\ curr_pcb'  = pid
  /\ at' = Point("enter")
  /\ UNCHANGED <<pid, scheduled, pcb_ptr, tss, page, who, on>>

(* tss.esp0 is left as it is.                                               *)
Bug_EnterOnOldStack ==
  /\ at.pc = "enter"
  /\ who' = curr_pcb
  /\ at'  = Point("user")
  /\ UNCHANGED <<pid, curr_pcb, pcbVars, saved, termVars, tss, page, image, stack, on, sp>>

(* context_switch(), execute.c:224-244.                                     *)
EnterUser == /\ at.pc = "enter"
             /\ tss' = curr_pcb
             /\ who' = curr_pcb
             /\ at'  = Point("user")
             /\ UNCHANGED <<pid, curr_pcb, pcbVars, saved, termVars, page, image, stack, on, sp>>

-----------------------------------------------------------------------------
(* halt(), execute.c:121-122, with interrupts on.                           *)
HaltCall == /\ InUser
            /\ count_pcb' = [count_pcb EXCEPT ![scheduled] = Down(@)]
            /\ at' = Point("head")
            /\ on' = tss /\ sp' = 0
            /\ UNCHANGED <<pid, curr_pcb, pcbVars, saved, scheduled, pcb_ptr, tss, page,
                           image, stack, who>>

(* The PCB of the shell that halts stays active.                            *)
Bug_StaysActive ==
  /\ at.pc = "head"
  /\ parent_id[curr_pcb] = Null
  /\ BeginExecute(active)
  /\ UNCHANGED <<curr_pcb, pcbVars, saved, termVars, tss, image, stack, who, on, sp>>

(* execute.c:123-132: a base shell restarts.                                *)
RestartShell == /\ at.pc = "head"
                /\ parent_id[curr_pcb] = Null
                /\ active' = [active EXCEPT ![curr_pcb] = FALSE]
                /\ BeginExecute(active')
                /\ UNCHANGED <<curr_pcb, parent_id, pcb_tid, tss_esp0, saved, termVars,
                               tss, image, stack, who, on, sp>>

(* execute.c:133-143: the process is closed and its parent's page mapped.   *)
CloseProcess == /\ at.pc = "head"
                /\ parent_id[curr_pcb] # Null
                /\ active' = [active EXCEPT ![curr_pcb] = FALSE]
                /\ page' = parent_id[curr_pcb]
                /\ at' = [pc |-> "tail", parent |-> parent_id[curr_pcb]]
                /\ UNCHANGED <<pid, curr_pcb, parent_id, pcb_tid, tss_esp0, saved, termVars,
                               tss, image, stack, who, on, sp>>

(* Jump to a saved context of the given kind: leave and ret through the      *)
(* stack pointer saved in PCB p.                                           *)
Intact(p, kind) == LET c == saved[p] IN
                   /\ c.depth \in 1 .. Len(stack[c.stack])
                   /\ stack[c.stack][c.depth].kind = kind

Frame(p) == stack[saved[p].stack][saved[p].depth]

(* The last context in use on the stack the CPU is on.                      *)
TopIntact == sp \in 1 .. Len(stack[on]) /\ stack[on][sp].kind = "tick"

JumpTo(p) == /\ on'  = saved[p].stack
             /\ sp'  = saved[p].depth - 1
             /\ who' = Frame(p).who

(* execute.c:152-160: the parent's execute() returns to its user code.      *)
ReturnToParent ==
  /\ at.pc = "tail"
  /\ Intact(at.parent, "execute")
  /\ tss' = at.parent
  /\ curr_pcb' = at.parent
  /\ JumpTo(at.parent)
  /\ at' = Point("user")
  /\ UNCHANGED <<pid, pcbVars, saved, termVars, page, image, stack>>

-----------------------------------------------------------------------------
Bug_WrapToOne(t) == IF t + 1 = MAX_TERMINAL_NUM THEN 1 ELSE t + 1
NextTerminal(t) == (t + 1) % MAX_TERMINAL_NUM

(* scheduler(), execute.c:280-301, for a tick at the control point at: the   *)
(* context is suspended on the current stack and its address stored in the *)
(* PCB that curr_pcb names.                                                *)
SaveOnTick ==
  /\ on' = EntryStack
  /\ sp' = EntryDepth + 1
  /\ stack' = Push(EntryStack, EntryDepth, Suspended("tick"))
  /\ IF pid = -1 THEN UNCHANGED <<saved, tss_esp0>>
     ELSE /\ saved' = [saved EXCEPT ![curr_pcb] = [stack |-> EntryStack,
                                                   depth |-> EntryDepth + 1,
                                                   by    |-> "tick"]]
          /\ tss_esp0' = [tss_esp0 EXCEPT ![curr_pcb] = tss]
  /\ pcb_ptr' = [pcb_ptr EXCEPT ![scheduled] = curr_pcb]
  /\ scheduled' = NextTerminal(scheduled)

TickTaken == /\ at.pc \in {"boot", "user"} \cup Windows
             /\ EntryDepth < MaxDepth
             /\ pid # -1 => curr_pcb # Null

TickLaunch ==
  /\ TickTaken
  /\ SaveOnTick
  /\ LET t == NextTerminal(scheduled) IN
     /\ count_pcb[t] = 0
     /\ curr_pcb' = IF pcb_ptr'[t] # Null THEN pcb_ptr'[t] ELSE curr_pcb
  /\ BeginExecute(active)
  /\ UNCHANGED <<active, parent_id, pcb_tid, count_pcb, tss, image, who>>

TickSwitch ==
  /\ TickTaken
  /\ SaveOnTick
  /\ LET t == NextTerminal(scheduled) IN
     /\ count_pcb[t] # 0
     /\ pcb_ptr'[t] # Null
     /\ curr_pcb' = pcb_ptr'[t]
     /\ page' = pcb_ptr'[t]
  /\ at' = Point("sched")
  /\ UNCHANGED <<pid, active, parent_id, pcb_tid, count_pcb, tss, image, who>>

(* A launch that finds every slot taken (TickNoBlock of Process) is left out:  *)
(* with ticks at leave only it is never enabled, because until             *)
(* every terminal has had its turn no terminal has a second process.       *)
Tick == TickLaunch \/ TickSwitch

(* The rest of scheduler() in three steps: the stack pointer is loaded from    *)
(* the PCB (308-315), then tss.esp0 (316-317), and the context on the new  *)
(* stack is left for (318-321).                                            *)
SwitchStack ==
  /\ at.pc = "sched"
  /\ LET p == pcb_ptr[scheduled] IN
     /\ Intact(p, "tick")
     /\ curr_pcb' = p
     /\ on' = saved[p].stack
     /\ sp' = saved[p].depth
  /\ at' = Point("esp")
  /\ UNCHANGED <<pid, pcbVars, saved, termVars, tss, page, image, stack, who>>

SwitchTss ==
  /\ at.pc = "esp"
  /\ tss' = tss_esp0[pcb_ptr[scheduled]]
  /\ at' = Point("leave")
  /\ UNCHANGED <<pid, curr_pcb, pcbVars, saved, termVars, page, image, stack, who, on, sp>>

LeaveSwitch ==
  /\ at.pc = "leave"
  /\ TopIntact
  /\ at'  = stack[on][sp].at
  /\ who' = stack[on][sp].who
  /\ sp'  = sp - 1
  /\ UNCHANGED <<pid, curr_pcb, pcbVars, saved, termVars, tss, page, image, stack, on>>

-----------------------------------------------------------------------------
AllLaunched == \A t \in Terminals : count_pcb[t] # 0

(* What the handler in progress does next.                                  *)
Handler == \/ CreateProcess \/ EnterUser
           \/ RestartShell \/ CloseProcess \/ ReturnToParent
           \/ SwitchStack \/ SwitchTss \/ LeaveSwitch

(* As in Process, no command comes before every terminal has its shell.     *)
Next == \/ Boot \/ Tick
        \/ AllLaunched /\ (ExecuteCall \/ ExecuteFails)
        \/ HaltCall \/ OtherCall
        \/ Handler

(* A handler is not abandoned.  The PIT interrupt stays pending in the PIC   *)
(* while interrupts are off, so a tick that can be taken again and again is *)
(* taken: strong fairness.                                                 *)
Spec == Init /\ [][Next]_vars /\ WF_vars(Handler) /\ SF_vars(Tick)

-----------------------------------------------------------------------------
(* "restore the parent data and maping" (execute.c:118), "load and execute    *)
(* a new program" (45): user code runs with its own page mapped at 128MB,  *)
(* and that page holds its program.                                        *)
RunsOwnProgram == InUser => page = who /\ image[who]

(* "context switch to next terminal current process block" (execute.c:276):  *)
(* the process that runs is the one curr_pcb and the TSS stand for, of the *)
(* terminal that has the turn.                                             *)
KernelKnowsWho == InUser => /\ curr_pcb = who /\ tss = who
                            /\ active[who] /\ pcb_tid[who] = scheduled

(* "if it is the first time we go into this terminal, launch the base shell" *)
(* (execute.c:303): a terminal has one base shell.                         *)
OneBaseShell == \A s, q \in Slots :
  active[s] /\ active[q] /\ parent_id[s] = Null /\ parent_id[q] = Null
    /\ pcb_tid[s] = pcb_tid[q] => s = q

(* The PCB a handler sets up is in the table, and the context it jumps to is   *)
(* still on its stack.  Where this fails the code goes on in memory that   *)
(* is not modelled, and the model stops.                                   *)
NeverLost == /\ (at.pc = "exec"  => pid \in Slots)
             /\ (at.pc = "tail"  => Intact(at.parent, "execute"))
             /\ (at.pc = "sched" => Intact(pcb_ptr[scheduled], "tick"))
             /\ (at.pc = "leave" => TopIntact)

(* A process that lost the CPU to a tick, wherever in the kernel it was,      *)
(* reaches its user code again.                                            *)
ReachesUserAgain == \A s \in Slots :
  (active[s] /\ s = pcb_ptr[pcb_tid[s]] /\ pcb_tid[s] # scheduled) ~> (InUser /\ who = s)
=============================================================================
