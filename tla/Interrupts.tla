------------------------------ MODULE Interrupts ------------------------------
(***************************************************************************)
(* The two 8259 interrupt controllers as i8259_init(), enable_irq() and    *)
(* send_eoi() program them, the boot that turns interrupts on, and the     *)
(* nesting of the three handlers on the stacks of processes that the timer *)
(* switches between.                                                       *)
(*                                                                         *)
(* A byte written to a port is the set of its bits.  A step is what        *)
(* happens between two points where an interrupt can come.  Lines 0 and 1  *)
(* are the timer and the keyboard, line 8 is the RTC.                      *)
(***************************************************************************)
EXTENDS Integers, Sequences, FiniteSets, SequencesExt

CONSTANTS
  Procs,       \* the processes that take turns, 1 .. n; 1 is also the boot code
  MaxDepth,    \* bound: handlers on one stack
  TickPhases   \* bound: the phases of the boot in which a tick may come

ASSUME InterruptsAssumption == /\ Cardinality(Procs) \in Nat \ {0}
                               /\ Procs = 1 .. Cardinality(Procs)
                               /\ MaxDepth \in Nat

PIT_IRQ              == 0
KEYB_IRQ             == 1
RTC_IRQ              == 8
CASCADE_TO_SECONDARY == 2
NUM_MASTER_IRQ       == 8
TOTAL_IRQ            == 16
Lines == {PIT_IRQ, KEYB_IRQ, RTC_IRQ}

VARIABLES
  boot,      \* how far entry() has come
  loop,      \* i of i8259_init(), once it has programmed the controllers
  mask,      \* master_mask and slave_mask
  chip,      \* the two controllers
  iflag,     \* the interrupt flag of the processor
  running,   \* the process that has the processor
  stack      \* for each process, the handlers that it is in
vars == <<boot, loop, mask, chip, iflag, running, stack>>

-----------------------------------------------------------------------------
(* A controller: which byte it expects next, the vector of its first line,   *)
(* the lines that are masked, requested and in service.                    *)
Chips   == {"master", "slave"}
PowerOn == [expects |-> "OCW1", base |-> 0, auto_eoi |-> FALSE, imr |-> {}, irr |-> {}, isr |-> {}]

Value(bits) == LET Of(i) == IF i \in bits THEN 2 ^ i ELSE 0
               IN  Of(0) + Of(1) + Of(2) + Of(3) + Of(4) + Of(5) + Of(6) + Of(7)

(* The port for commands, when ICW1 is written: initialisation starts.       *)
StartInit(c) == [c EXCEPT !.expects = "ICW2", !.imr = {}, !.isr = {}, !.auto_eoi = FALSE]

(* The other port: three more bytes, then masks.                            *)
Data(c, bits) ==
  CASE c.expects = "ICW2" -> [c EXCEPT !.expects = "ICW3", !.base = Value(bits)]
    [] c.expects = "ICW3" -> [c EXCEPT !.expects = "ICW4"]
    [] c.expects = "ICW4" -> [c EXCEPT !.expects = "OCW1", !.auto_eoi = 1 \in bits]
    [] c.expects = "OCW1" -> [c EXCEPT !.imr = bits]

(* The requests that a controller passes on: lines that are not masked, with  *)
(* no line of their own or a higher priority in service.                   *)
Requests(c)   == {b \in c.irr \ c.imr : \A k \in c.isr : b < k}
SlaveCalls    == IF Requests(chip["slave"]) = {} THEN {} ELSE {CASCADE_TO_SECONDARY}
MasterWants   == Requests([chip["master"] EXCEPT !.irr = @ \cup SlaveCalls])
LeastOf(S)    == CHOOSE b \in S : \A k \in S : b <= k
Acknowledge(c, b) ==
  [c EXCEPT !.irr = @ \ {b}, !.isr = IF c.auto_eoi THEN @ ELSE @ \cup {b}]

-----------------------------------------------------------------------------
(* i8259.c.  `pic' holds the masks in memory and the controllers.            *)
Pic == [mask |-> mask, chip |-> chip]
SetPic(p) == mask' = p.mask /\ chip' = p.chip

ChipOf(irq) == IF irq >= NUM_MASTER_IRQ THEN "slave" ELSE "master"
BitOf(irq)  == irq % NUM_MASTER_IRQ
WriteMask(p, c, bits) == [p EXCEPT !.mask[c] = bits, !.chip[c] = Data(@, bits)]
EnableIrq(p, irq)     == WriteMask(p, ChipOf(irq), p.mask[ChipOf(irq)] \ {BitOf(irq)})
DisableIrq(p, irq)    == WriteMask(p, ChipOf(irq), p.mask[ChipOf(irq)] \cup {BitOf(irq)})

Bug_SlaveOnly(c, irq) == [c EXCEPT ![ChipOf(irq)].isr = @ \ {BitOf(irq)}]
SendEoi(c, irq) ==
  IF irq >= NUM_MASTER_IRQ
  THEN [c EXCEPT !["slave"].isr = @ \ {BitOf(irq)}, !["master"].isr = @ \ {CASCADE_TO_SECONDARY}]
  ELSE [c EXCEPT !["master"].isr = @ \ {irq}]

(* The writes before the loop.  ICW4 goes to the slave only: the master takes *)
(* the first mask of the loop for it.                                      *)
Programmed(p) ==
  [p EXCEPT !.chip["master"] = Data(Data(StartInit(Data(@, 0 .. 7)), {5}), {2}),
            !.chip["slave"]  = Data(Data(Data(StartInit(Data(@, 0 .. 7)), {3, 5}), {1}), {0})]

AtReset == [mask |-> [c \in Chips |-> {}], chip |-> [c \in Chips |-> PowerOn]]

(* init_idt(): which line's wrapper an interrupt vector leads to.            *)
Vectors    == {32, 33, 40}
Idt(v)     == CASE v = 32 -> PIT_IRQ [] v = 33 -> KEYB_IRQ [] v = 40 -> RTC_IRQ
Leads(v, irq) == v \in Vectors /\ Idt(v) = irq

-----------------------------------------------------------------------------
(* entry(), from init_idt() on: what has been done.                          *)
Phases == <<"idt", "pic", "pit", "keyb", "rtc", "terminals", "files", "on">>
Done(phase) == \E i \in 1 .. boot : Phases[i] = phase

NotYet      == -1
Bug_FromOne == 1
FirstIrq    == 0

Init ==
  /\ boot = 0 /\ loop = NotYet
  /\ mask = AtReset.mask
  /\ chip = AtReset.chip
  /\ iflag = FALSE
  /\ running = 1
  /\ stack = [p \in Procs |-> <<>>]

Begins(phase) == running = 1 /\ stack[1] = <<>> /\ boot < Len(Phases) /\ Phases[boot + 1] = phase
BootStep(phase) == Begins(phase) /\ boot' = boot + 1 /\ UNCHANGED <<loop, running, stack>>

BootIdt == BootStep("idt") /\ UNCHANGED <<mask, chip, iflag>>

(* i8259_init(): the writes before the loop, the loop, and the end, which      *)
(* turns interrupts on for a moment when every line is masked.             *)
PicProgram ==
  /\ Begins("pic") /\ loop = NotYet
  /\ SetPic(Programmed(Pic))
  /\ loop' = FirstIrq
  /\ UNCHANGED <<boot, iflag, running, stack>>
PicLoop ==
  /\ Begins("pic") /\ loop \in 0 .. TOTAL_IRQ - 1
  /\ SetPic(IF loop = CASCADE_TO_SECONDARY THEN EnableIrq(Pic, loop) ELSE DisableIrq(Pic, loop))
  /\ loop' = loop + 1
  /\ UNCHANGED <<boot, iflag, running, stack>>
BootPic == loop = TOTAL_IRQ /\ BootStep("pic") /\ UNCHANGED <<mask, chip, iflag>>

(* init_rtc() is the first that leaves interrupts on.                       *)
BootPit       == BootStep("pit")  /\ SetPic(EnableIrq(Pic, PIT_IRQ)) /\ UNCHANGED iflag
BootKeyb      == BootStep("keyb") /\ SetPic(EnableIrq(Pic, KEYB_IRQ)) /\ UNCHANGED iflag
BootRtc       == BootStep("rtc")  /\ SetPic(EnableIrq(Pic, RTC_IRQ)) /\ iflag' = TRUE
BootTerminals == BootStep("terminals") /\ UNCHANGED <<mask, chip, iflag>>
BootFiles     == BootStep("files") /\ UNCHANGED <<mask, chip, iflag>>
BootOn        == BootStep("on") /\ iflag' = TRUE /\ UNCHANGED <<mask, chip>>

-----------------------------------------------------------------------------
Inside    == stack[running] # <<>>
Top       == Last(stack[running])
Push(f)   == stack' = [stack EXCEPT ![running] = Append(@, f)]
SetTop(s) == stack' = [stack EXCEPT ![running] = Append(Front(@), [Top EXCEPT !.at = s])]
Pop       == stack' = [stack EXCEPT ![running] = Front(@)]
In(irq, s) == Inside /\ Top = [irq |-> irq, at |-> s]

(* A device raises its line.  The timer's period is longer than a switch.    *)
Raise(irq) ==
  /\ Done("rtc")
  /\ irq = PIT_IRQ => ~In(PIT_IRQ, "entered") /\ ~In(PIT_IRQ, "switched")
  /\ chip' = [chip EXCEPT ![ChipOf(irq)].irr = @ \cup {BitOf(irq)}]
  /\ UNCHANGED <<boot, loop, mask, iflag, running, stack>>

(* The processor takes the request of highest priority and enters its handler *)
(* through an interrupt gate, which clears iflag.                            *)
Accept(irq) ==
  /\ iflag /\ MasterWants # {}
  /\ \E b \in {LeastOf(MasterWants)} :
       IF b = CASCADE_TO_SECONDARY
       THEN \E s \in {LeastOf(Requests(chip["slave"]))} :
              /\ Leads(chip["slave"].base + s, irq)
              /\ chip' = [chip EXCEPT !["master"] = Acknowledge(@, b), !["slave"] = Acknowledge(@, s)]
       ELSE /\ Leads(chip["master"].base + b, irq)
            /\ chip' = [chip EXCEPT !["master"] = Acknowledge(@, b)]
  /\ irq = PIT_IRQ => boot \in TickPhases
  /\ Len(stack[running]) < MaxDepth
  /\ iflag' = FALSE
  /\ Push([irq |-> irq, at |-> "entered"])
  /\ UNCHANGED <<boot, loop, mask, running>>

(* pit_intr_handler(): the EOI first, then the next process, where it stopped *)
(* in the same place (with interrupts on since set_up_paging()) or starts; *)
(* without terminals there is nothing to switch to.  The boot code is not    *)
(* saved: the shell of terminal 0 starts in a later turn.                  *)
Bug_NoWrap == running + 1
NextProc   == (running % Cardinality(Procs)) + 1
PitHandler ==
  /\ In(PIT_IRQ, "entered")
  /\ chip' = SendEoi(chip, PIT_IRQ)
  /\ IF Done("terminals") THEN SetTop("switched") /\ running' = NextProc
                          ELSE Pop /\ UNCHANGED running
  /\ boot' = IF Done("files") THEN Len(Phases) ELSE boot
  /\ iflag' = TRUE
  /\ UNCHANGED <<loop, mask>>
PitReturn ==
  /\ In(PIT_IRQ, "switched")
  /\ Pop /\ iflag' = TRUE
  /\ UNCHANGED <<boot, loop, mask, chip, running>>

(* keyb_intr_handler() and rtc_intr_handler(): cli, the work, sti.  The        *)
(* keyboard's EOI comes after the sti, at the very end, and the RTC's      *)
(* before it.                                                              *)
KeybOpen ==
  /\ In(KEYB_IRQ, "entered")
  /\ SetTop("open") /\ iflag' = TRUE
  /\ UNCHANGED <<boot, loop, mask, chip, running>>
KeybEnd ==
  /\ In(KEYB_IRQ, "open")
  /\ SetTop("acknowledged")
  /\ chip' = SendEoi(chip, KEYB_IRQ)
  /\ UNCHANGED <<boot, loop, mask, iflag, running>>
RtcHandler ==
  /\ In(RTC_IRQ, "entered")
  /\ SetTop("acknowledged") /\ iflag' = TRUE
  /\ chip' = SendEoi(chip, RTC_IRQ)
  /\ UNCHANGED <<boot, loop, mask, running>>

(* The wrapper: popfl turns interrupts off again, iret on.                   *)
Return ==
  /\ Inside /\ Top.at = "acknowledged"
  /\ Pop /\ iflag' = TRUE
  /\ UNCHANGED <<boot, loop, mask, chip, running>>

(* A system call has a critical section of its own (terminal_write()).        *)
Cli == ~Inside /\ boot = Len(Phases) /\ iflag /\ iflag' = FALSE /\ UNCHANGED <<boot, loop, mask, chip, running, stack>>
Sti == ~Inside /\ boot = Len(Phases) /\ ~iflag /\ iflag' = TRUE /\ UNCHANGED <<boot, loop, mask, chip, running, stack>>

Handlers == PitHandler \/ PitReturn \/ KeybOpen \/ KeybEnd \/ RtcHandler \/ Return
BootNext == BootIdt \/ PicProgram \/ PicLoop \/ BootPic \/ BootPit \/ BootKeyb \/ BootRtc \/ BootTerminals \/ BootFiles \/ BootOn
Next ==
  \/ BootNext \/ Handlers \/ Cli \/ Sti
  \/ \E irq \in Lines : Raise(irq) \/ Accept(irq)

(* Ticks go on coming, a pending request is taken at a next instruction with *)
(* interrupts on, nothing in the kernel or in entry() stops by itself, and   *)
(* between two ticks there is time for more than the tick's own handler.     *)
Spec ==
  /\ Init /\ [][Next]_vars
  /\ WF_vars(Handlers) /\ WF_vars(BootNext) /\ WF_vars(Sti) /\ WF_vars(Raise(PIT_IRQ))
  /\ \A irq \in Lines : SF_vars(Accept(irq))
  /\ \A p \in Procs : /\ SF_vars(running = p /\ KeybEnd)
                     /\ SF_vars(running = p /\ (PitReturn \/ Return))

-----------------------------------------------------------------------------
Places   == {"entered", "switched", "open", "acknowledged"}
FramesOf(irq) == {f \in Procs \X (1 .. MaxDepth) : f[2] <= Len(stack[f[1]]) /\ stack[f[1]][f[2]].irq = irq}
NotAcknowledged(irq) == {f \in FramesOf(irq) : stack[f[1]][f[2]].at \in {"entered", "open"}}

(* Every variable of i8259.c and of entry() has its type, and scheduler() of  *)
(* execute.c only gives the processor to a process of the ring.            *)
TypeOK ==
  /\ boot \in 0 .. Len(Phases) /\ loop \in NotYet .. TOTAL_IRQ
  /\ mask \in [Chips -> SUBSET (0 .. 7)]
  /\ chip \in [Chips -> [expects : {"ICW2", "ICW3", "ICW4", "OCW1"}, base : 0 .. 255,
                         auto_eoi : BOOLEAN, imr : SUBSET (0 .. 7), irr : SUBSET (0 .. 7),
                         isr : SUBSET (0 .. 7)]]
  /\ iflag \in BOOLEAN /\ running \in Procs
  /\ \A p \in Procs : Len(stack[p]) <= MaxDepth /\ Range(stack[p]) \subseteq [irq : Lines, at : Places]

(* Whenever entry() has interrupts on, i8259_init() is complete on both        *)
(* controllers (the master, which is sent no ICW4, has swallowed a mask for it *)
(* and expects masks again), the controllers hold the masks that enable_irq()  *)
(* computes from, every line that is not masked leads through init_idt() to    *)
(* its own handler.                                                          *)
ControllersReady ==
  iflag => \A c \in Chips :
    /\ chip[c].expects = "OCW1" /\ ~chip[c].auto_eoi /\ chip[c].imr = mask[c]
    /\ \A b \in (0 .. 7) \ mask[c] :
         \/ c = "master" /\ b = CASCADE_TO_SECONDARY
         \/ \E irq \in Lines : Leads(chip[c].base + b, irq) /\ ChipOf(irq) = c /\ BitOf(irq) = b

(* A tick that starts a shell finds the files of file_system_init().  The code *)
(* does not keep this: with 6 in TickPhases, a tick that comes after           *)
(* terminal_init() and before file_system_init() (rtc.c:67, kernel.c:163-165). *)
ShellsFindFiles ==
  (\E f \in FramesOf(PIT_IRQ) : stack[f[1]][f[2]].at = "switched") => Done("files")

(* A line is in service exactly while one handler has not sent its EOI yet, on *)
(* whatever process's stack a tick has left it, and the cascade is in service  *)
(* exactly while the RTC's is: send_eoi() acknowledges what was taken, on both *)
(* controllers, and no handler runs twice at a time.                         *)
OneAtATime ==
  /\ \A irq \in Lines :
       Cardinality(NotAcknowledged(irq)) = IF BitOf(irq) \in chip[ChipOf(irq)].isr THEN 1 ELSE 0
  /\ CASCADE_TO_SECONDARY \in chip["master"].isr <=> chip["slave"].isr # {}

(* Whatever line is raised, its handler is entered, also when a tick takes the *)
(* processor from a handler that has not sent its EOI (keyboard.c:232 is after *)
(* the sti of 223) and lower lines wait for that process's next turn.  Only    *)
(* keys without end can keep the RTC, which is below the keyboard, waiting.  *)
Pending(irq) == BitOf(irq) \in chip[ChipOf(irq)].irr
EveryLineServed ==
  /\ \A irq \in {PIT_IRQ, KEYB_IRQ} : Pending(irq) ~> ~Pending(irq)
  /\ (Pending(RTC_IRQ) ~> ~Pending(RTC_IRQ)) \/ []<>Pending(KEYB_IRQ)
================================================================================
