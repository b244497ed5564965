------------------------------- MODULE Process -------------------------------
(***************************************************************************)
(* The process layer of the kernel (execute.c): the six process control    *)
(* blocks (PCBs), the three terminals that take turns on the CPU, and the  *)
(* four handlers that move the CPU between processes: the first execute of *)
(* kernel.c, the system calls execute and halt, and the timer tick, whose  *)
(* scheduler() switches to the process of the next terminal.               *)
(*                                                                         *)
(* Here a handler runs to completion before a tick is taken: a tick lands  *)
(* while a process is in user mode or waits in a read loop.  The code asks *)
(* for that with cli(), but set_up_paging() ends with sti() inside all     *)
(* three handlers; module ProcessPreempt splits them there and says what   *)
(* is lost.                                                                *)
(*                                                                         *)
(* A PCB is named by its slot s, the pid it is given; its address is       *)
(* 8MB - 8KB*(s+1), and the kernel stack of slot s starts at the other end *)
(* of the same 8KB, at esp0 = 8MB - 8KB*s - 4.  A PCB pointer, a stack top *)
(* and a physical program page are therefore all modelled by the slot.     *)
(*                                                                         *)
(* Left to other modules: file descriptors, the video mapping flag, and    *)
(* what the handlers print.                                                *)
(***************************************************************************)
EXTENDS Integers, FiniteSets

CONSTANTS MAX_PCB,            \* execute.c:33, 6 in the code
          MAX_TERMINAL_NUM,   \* terminal.h:5, 3 in the code
          MaxCount            \* the largest uint32_t, or any smaller bound
                              \* that count_pcb has room in

(* There is a slot for the base shell of every terminal.                   *)
ASSUME SizeAssumption == /\ MAX_TERMINAL_NUM \in Nat \ {0}
                         /\ MAX_PCB \in Nat
                         /\ MaxCount \in Nat
                         /\ MAX_TERMINAL_NUM <= MAX_PCB /\ MAX_PCB <= MaxCount

Slots     == 0 .. MAX_PCB - 1
Terminals == 0 .. MAX_TERMINAL_NUM - 1
Null      == -1     \* a NULL PCB pointer, and "no parent"
NoBlock   == -2     \* determine_which_pcb_empty() found no slot

VARIABLES
  pid,          \* the global pid, execute.c:36: last result of the slot search
  curr_pcb,     \* the global curr_pcb
  scheduled,    \* scheduled_terminal and scheduled_terminal_num
  active,       \* pcb->active, by slot
  parent_id,    \* pcb->parent_id
  pcb_tid,      \* pcb->tid
  saved_esp,    \* pcb->saved_esp/saved_ebp: the kind of frame they point to
  tss_esp0,     \* pcb->tss_esp0
  pcb_ptr,      \* terminal_list[t].pcb_ptr
  count_pcb,    \* terminal_list[t].count_pcb
  tss,          \* tss.esp0: the stack the next kernel entry will use
  page,         \* page_dir[32]: whose program is mapped at 128MB
  kstack        \* the frame on top of a slot's kernel stack, see FrameKinds

pcbVars  == <<active, parent_id, pcb_tid, saved_esp, tss_esp0>>
termVars == <<scheduled, pcb_ptr, count_pcb>>
cpuVars  == <<tss, page, kstack>>
vars     == <<pid, curr_pcb, pcbVars, termVars, cpuVars>>

(* "user": nothing on the kernel stack, the process is in user mode;        *)
(* "execute": execute() called a child and waits for it to halt; "tick":    *)
(* scheduler() switched away.                                               *)
FrameKinds == {"user", "execute", "tick"}

Init ==
  /\ pid = -1
  /\ curr_pcb = Null
  /\ scheduled = 0
  /\ active    = [s \in Slots |-> FALSE]
  /\ parent_id = [s \in Slots |-> Null]
  /\ pcb_tid   = [s \in Slots |-> 0]
  /\ saved_esp = [s \in Slots |-> "user"]
  /\ tss_esp0  = [s \in Slots |-> Null]
  /\ pcb_ptr   = [t \in Terminals |-> Null]
  /\ count_pcb = [t \in Terminals |-> 0]
  /\ tss  = Null
  /\ page = Null
  /\ kstack = [s \in Slots |-> "user"]

-----------------------------------------------------------------------------
(* Operators named Bug_... are mutants: slips that the properties below must *)
(* find.  No other definition uses them.                                   *)
Bug_UpOnce(c)    == IF c = 0 THEN 1 ELSE c      \* only base shells are counted
Bug_DownNever(c) == c                           \* halt() forgets the counter
Bug_DownTwice(c) == c - 2                       \* decremented twice, and signed

(* count_pcb is unsigned (types.h:63) and wraps.                            *)
Up(c)   == IF c = MaxCount THEN 0 ELSE c + 1
Down(c) == IF c = 0 THEN MaxCount ELSE c - 1

(* The last slot is returned without a look at its flag.                    *)
Bug_LastUnchecked(act, s) == /\ ~act[s] \/ s = MAX_PCB - 1
                             /\ \A q \in Slots : q < s => act[q]

(* The slot search of determine_which_pcb_empty(), on the flags act.       *)
NoEmptyPcb(act)  == \A s \in Slots : act[s]
EmptyPcb(act, s) == ~act[s] /\ \A q \in Slots : q < s => act[q]

(* The body of execute() once its checks passed, from set_up_paging() to   *)
(* the iret of context_switch(), for the new slot s.  The arguments hold   *)
(* what the caller assigned before: the current PCB cp, the scheduled      *)
(* terminal t, the active flags act, the counters cnt, and the saved       *)
(* contexts sav, te of the PCBs.                                           *)
LoadProcess(s, cp, t, act, cnt, sav, te) ==
  LET base == cnt[t] = 0 IN
  /\ pid'  = s
  /\ page' = s
  /\ active'    = [act EXCEPT ![s] = TRUE]
  /\ parent_id' = [parent_id EXCEPT ![s] = IF base THEN Null ELSE cp]
  /\ pcb_tid'   = [pcb_tid EXCEPT ![s] = t]
  /\ tss_esp0'  = [te EXCEPT ![s] = tss]
  /\ count_pcb' = [cnt EXCEPT ![t] = Up(@)]
  /\ saved_esp' = IF base THEN sav ELSE [sav EXCEPT ![cp] = "execute"]
  /\ curr_pcb'  = s
  /\ tss' = s

-----------------------------------------------------------------------------
(* kernel.c: entry() calls execute("shell").  A tick that comes after       *)
(* terminal_init() and before this call launches the shell of terminal 1   *)
(* instead, and entry() is never resumed: its context is saved nowhere.    *)
Boot ==
  /\ curr_pcb = Null
  /\ \E s \in Slots :
       /\ EmptyPcb(active, s)
       /\ LoadProcess(s, Null, scheduled, active, count_pcb, saved_esp, tss_esp0)
  /\ UNCHANGED <<scheduled, pcb_ptr, kstack>>

(* System call execute by the current process, of a program in the file    *)
(* system.                                                                 *)
Execute ==
  /\ curr_pcb # Null
  /\ \E s \in Slots :
       /\ EmptyPcb(active, s)
       /\ LoadProcess(s, curr_pcb, scheduled, active, count_pcb, saved_esp, tss_esp0)
       /\ kstack' = [kstack EXCEPT ![curr_pcb] = "execute", ![s] = "user"]
  /\ UNCHANGED <<scheduled, pcb_ptr>>

(* System call execute when no slot is free (it returns 0), or when a check *)
(* of the command fails after the search (it returns -1).  Only the global *)
(* pid has changed.                                                        *)
ExecuteFails ==
  /\ curr_pcb # Null
  /\ \/ NoEmptyPcb(active) /\ pid' = NoBlock
     \/ \E s \in Slots : EmptyPcb(active, s) /\ pid' = s
  /\ UNCHANGED <<curr_pcb, pcbVars, termVars, cpuVars>>

(* System call halt, or an exception, in a process with a parent: the       *)
(* parent's execute() returns the status to the parent's user code.        *)
Halt ==
  /\ curr_pcb # Null
  /\ parent_id[curr_pcb] # Null
  /\ LET parent == parent_id[curr_pcb] IN
       /\ active' = [active EXCEPT ![curr_pcb] = FALSE]
       /\ page' = parent
       /\ tss'  = parent
       /\ curr_pcb' = parent
       /\ kstack' = [kstack EXCEPT ![parent] = "user"]
  /\ count_pcb' = [count_pcb EXCEPT ![scheduled] = Down(@)]
  /\ UNCHANGED <<pid, parent_id, pcb_tid, saved_esp, tss_esp0, scheduled, pcb_ptr>>

(* System call halt, or an exception, in a base shell: its slot is freed    *)
(* and execute("shell") starts a new base shell, in the lowest free slot.  *)
(* The check that the counter has not become negative (execute.c:125)      *)
(* never fails: it is unsigned, and counts one process too many from then. *)
HaltBase ==
  /\ curr_pcb # Null
  /\ parent_id[curr_pcb] = Null
  /\ LET act == [active EXCEPT ![curr_pcb] = FALSE]
         cnt == [count_pcb EXCEPT ![scheduled] = Down(@)]
     IN \E s \in Slots :
          /\ EmptyPcb(act, s)
          /\ LoadProcess(s, curr_pcb, scheduled, act, cnt, saved_esp, tss_esp0)
          /\ kstack' = [kstack EXCEPT
                          ![curr_pcb] = IF cnt[scheduled] = 0 THEN @ ELSE "execute",
                          ![s] = "user"]
  /\ UNCHANGED <<scheduled, pcb_ptr>>

-----------------------------------------------------------------------------
Bug_WrapToOne(t)  == IF t + 1 = MAX_TERMINAL_NUM THEN 1 ELSE t + 1
Bug_SkipLast(t)   == (t + 1) % (MAX_TERMINAL_NUM - 1)
NextTerminal(t) == (t + 1) % MAX_TERMINAL_NUM      \* terminal.c:141

(* Mutants: the context is not stored; esp0 is not stored; pcb_ptr is stored *)
(* after the switch to the next terminal; the frame is not left behind.    *)
Bug_NotSaved    == saved_esp
Bug_TssNotSaved == tss_esp0
Bug_PtrLate     == [pcb_ptr EXCEPT ![NextTerminal(scheduled)] = curr_pcb]
Bug_NoFrame     == kstack

(* What scheduler() stores before it looks at the next terminal.  Before    *)
(* the first process (pid = -1) there is no PCB to store a context in.     *)
SavedOnTick == IF pid = -1 THEN saved_esp ELSE [saved_esp EXCEPT ![curr_pcb] = "tick"]
TssOnTick   == IF pid = -1 THEN tss_esp0  ELSE [tss_esp0  EXCEPT ![curr_pcb] = tss]
StackOnTick == IF pid = -1 THEN kstack    ELSE [kstack    EXCEPT ![curr_pcb] = "tick"]
PtrOnTick   == [pcb_ptr EXCEPT ![scheduled] = curr_pcb]

(* curr_pcb at execute.c:303.                                              *)
PcbAfterTick(t) == IF PtrOnTick[t] # Null THEN PtrOnTick[t] ELSE curr_pcb

(* A tick, and the next terminal already has processes: resume its current *)
(* one.                                                                    *)
TickResume ==
  LET t == NextTerminal(scheduled)
      p == PtrOnTick[t]
  IN /\ curr_pcb # Null
     /\ count_pcb[t] # 0
     /\ p # Null
     /\ scheduled' = t
     /\ pcb_ptr'   = PtrOnTick
     /\ saved_esp' = SavedOnTick
     /\ tss_esp0'  = TssOnTick
     /\ curr_pcb'  = p
     /\ page'      = p
     /\ tss'       = TssOnTick[p]
     /\ kstack'    = [StackOnTick EXCEPT ![p] = "user"]
     /\ UNCHANGED <<pid, active, parent_id, pcb_tid, count_pcb>>

(* A tick, and the next terminal has no process: launch its base shell, on *)
(* the stack of the process that was interrupted.                          *)
TickLaunch ==
  LET t == NextTerminal(scheduled)
  IN /\ count_pcb[t] = 0
     /\ \E s \in Slots :
          /\ EmptyPcb(active, s)
          /\ LoadProcess(s, PcbAfterTick(t), t, active, count_pcb, SavedOnTick, TssOnTick)
          /\ kstack' = [StackOnTick EXCEPT ![s] = "user"]
     /\ scheduled' = t
     /\ pcb_ptr'   = PtrOnTick

(* The same when every slot is taken: execute() returns 0, scheduler()      *)
(* ignores it and returns into the interrupted process, which goes on      *)
(* under the next terminal.                                                *)
TickNoBlock ==
  LET t == NextTerminal(scheduled)
  IN /\ count_pcb[t] = 0
     /\ NoEmptyPcb(active)
     /\ pid' = NoBlock
     /\ scheduled' = t
     /\ pcb_ptr'   = PtrOnTick
     /\ saved_esp' = SavedOnTick
     /\ tss_esp0'  = TssOnTick
     /\ curr_pcb'  = PcbAfterTick(t)
     /\ UNCHANGED <<active, parent_id, pcb_tid, count_pcb, cpuVars>>

Tick == TickResume \/ TickLaunch \/ TickNoBlock

AllLaunched == \A t \in Terminals : count_pcb[t] # 0

Next == \/ Boot \/ Tick
        \/ Execute \/ ExecuteFails
        \/ Halt \/ HaltBase

(* The machine used as intended: nobody gets a command in during the first  *)
(* ticks, before every terminal has its base shell.  TickNoBlock is left    *)
(* out because it is then never enabled, which NoFailingPath checks.       *)
QuietNext == \/ Boot \/ TickResume \/ TickLaunch
             \/ AllLaunched /\ (Execute \/ ExecuteFails)
             \/ Halt \/ HaltBase

(* The PIT never stops, so a tick that can be taken is taken.  Nothing is   *)
(* assumed of the programs: they may run for ever and never make a call.   *)
Spec      == Init /\ [][Next]_vars /\ WF_vars(Tick)
QuietSpec == Init /\ [][QuietNext]_vars /\ WF_vars(Tick)

-----------------------------------------------------------------------------
SlotOrNull == Slots \cup {Null}

(* Type invariant: every pointer is NULL or a PCB of the table.             *)
TypeOK ==
  /\ pid \in Slots \cup {-1, NoBlock}
  /\ curr_pcb \in SlotOrNull
  /\ scheduled \in Terminals
  /\ active \in [Slots -> BOOLEAN]
  /\ parent_id \in [Slots -> SlotOrNull]
  /\ pcb_tid \in [Slots -> Terminals]
  /\ saved_esp \in [Slots -> FrameKinds]
  /\ tss_esp0 \in [Slots -> SlotOrNull]
  /\ pcb_ptr \in [Terminals -> SlotOrNull]
  /\ count_pcb \in [Terminals -> 0 .. MaxCount]
  /\ tss \in SlotOrNull
  /\ page \in SlotOrNull
  /\ kstack \in [Slots -> FrameKinds]

Members(t)  == {s \in Slots : active[s] /\ pcb_tid[s] = t}
Children(s) == {c \in Slots : active[c] /\ parent_id[c] = s}

(* The process of terminal t that runs when t has the CPU.                  *)
Front(t) == IF t = scheduled THEN curr_pcb ELSE pcb_ptr[t]

(* count_pcb is what create_pcb() and scheduler() decide by whether a       *)
(* process is a base shell: it counts exactly the live PCBs of its         *)
(* terminal, whoever was running when they were created and halted.        *)
CountMatches == \A t \in Terminals : count_pcb[t] = Cardinality(Members(t))

(* execute() and halt() keep the processes of a terminal a call chain: one  *)
(* base shell, a front process that has called nobody, and every other     *)
(* process the caller of exactly one, in its own terminal.                 *)
CallChain ==
  \A t \in Terminals : Members(t) # {} =>
    /\ \E base \in Members(t) : \A s \in Members(t) :
          parent_id[s] = Null <=> s = base
    /\ Front(t) \in Members(t)
    /\ \A s \in Members(t) : Children(s) \subseteq Members(t)
    /\ Children(Front(t)) = {}
    /\ \A s \in Members(t) \ {Front(t)} : \E c \in Slots : Children(s) = {c}

(* A parent is alive as long as its child: halt() can return into it.       *)
ParentAlive == \A s \in Slots : active[s] /\ parent_id[s] # Null =>
                 active[parent_id[s]] /\ parent_id[s] # s

(* Whoever runs, runs with its own program mapped and would enter the       *)
(* kernel on its own stack: execute(), halt() and scheduler() all switch   *)
(* page_dir[32], tss.esp0 and curr_pcb together.                           *)
OwnMemory == curr_pcb # Null => /\ active[curr_pcb]
                               /\ page = curr_pcb
                               /\ tss = curr_pcb

(* Every process that does not run can be resumed where it stopped: the     *)
(* frame saved_esp points to is the one on its kernel stack.  A caller     *)
(* stopped in execute(), so that halt() of its child returns there and not *)
(* into scheduler(); a preempted one stopped in scheduler() with its own   *)
(* stack in tss_esp0.                                                      *)
Resumable ==
  \A s \in Slots : active[s] /\ s # curr_pcb =>
    IF Children(s) = {}
    THEN saved_esp[s] = "tick" /\ kstack[s] = "tick" /\ tss_esp0[s] = s
    ELSE saved_esp[s] = "execute" /\ kstack[s] = "execute"

(* The two paths of the code that lose a terminal cannot be taken: a tick   *)
(* that has to launch a base shell finds a slot, and so does a base shell  *)
(* that halts, whose halt() leaves a counter of 0 and not below.           *)
NoFailingPath ==
  /\ count_pcb[NextTerminal(scheduled)] = 0 => ~NoEmptyPcb(active)
  /\ curr_pcb # Null /\ parent_id[curr_pcb] = Null => count_pcb[scheduled] = 1

(* A process that was switched out by a tick gets the CPU back, whatever    *)
(* the processes of the other terminals execute and halt meanwhile.        *)
PreemptedRunsAgain ==
  \A s \in Slots : (active[s] /\ kstack[s] = "tick") ~> (curr_pcb = s)

(* A handler that runs for one terminal never changes a PCB of another one, *)
(* except a tick, which touches the contexts of the two processes it       *)
(* switches between.                                                       *)
Isolation ==
  [][\A s \in Slots :
       active[s] /\ pcb_tid[s] # scheduled =>
         /\ active'[s] /\ UNCHANGED <<parent_id[s], pcb_tid[s], saved_esp[s], tss_esp0[s]>>
         /\ kstack'[s] # kstack[s] => curr_pcb' = s /\ scheduled' # scheduled]_vars
=============================================================================
