--------------------------- MODULE InterruptsProofs ---------------------------
(***************************************************************************)
(* The interrupt controllers and the handlers nested on the stacks of the  *)
(* processes (module Interrupts), for every number of processes, every     *)
(* depth of nesting and whatever the phases in which ticks come.           *)
(***************************************************************************)
EXTENDS Interrupts, FiniteSetTheorems, TLAPS

Bits   == 0 .. 7
Frames == [irq : Lines, at : Places]
Bytes  == [expects : {"ICW2", "ICW3", "ICW4", "OCW1"}, base : 0 .. 255, auto_eoi : BOOLEAN,
           imr : SUBSET Bits, irr : SUBSET Bits, isr : SUBSET Bits]

(* TypeOK, with stacks that are sequences.                                  *)
Types ==
  /\ boot \in 0 .. 8 /\ loop \in NotYet .. TOTAL_IRQ
  /\ mask \in [Chips -> SUBSET Bits] /\ chip \in [Chips -> Bytes]
  /\ iflag \in BOOLEAN /\ running \in Procs
  /\ stack \in [Procs -> Seq(Frames)]
  /\ \A p \in Procs : Len(stack[p]) <= MaxDepth

-----------------------------------------------------------------------------
(* What the loop of i8259_init() has masked after n rounds, and what entry()  *)
(* has unmasked again after its phase b.                                   *)
MaskedBy(n) == [c \in Chips |-> IF c = "master" THEN {k \in Bits : k < n} \ {CASCADE_TO_SECONDARY}
                                ELSE {k \in Bits : k + NUM_MASTER_IRQ < n}]

MaskedAt(b) == [c \in Chips |-> IF c = "master"
                  THEN {k \in Bits : /\ k # CASCADE_TO_SECONDARY
                                     /\ k = PIT_IRQ  => b < 3
                                     /\ k = KEYB_IRQ => b < 4}
                  ELSE {k \in Bits : k = 0 => b < 5}]

(* A controller that has been sent all its ICWs, and the masks in memory.     *)
Complete(c) == /\ chip[c].expects = "OCW1" /\ chip[c].imr = mask[c] /\ ~chip[c].auto_eoi
               /\ chip[c].base = IF c = "master" THEN 32 ELSE 40

(* The masks and the controllers in every phase of the boot.  After the ICWs  *)
(* the master waits for ICW4 and takes the mask of the first round for it. *)
Programming ==
  /\ boot < 2 => loop = NotYet \/ boot = 1
  /\ loop = NotYet => boot < 2 /\ mask = AtReset.mask /\ chip = AtReset.chip
  /\ loop \in 0 .. TOTAL_IRQ =>
       /\ boot < 2 => mask = MaskedBy(loop)
       /\ loop >= 2 => Complete("master")
       /\ loop < 2 => /\ chip["master"].expects = IF loop = 0 THEN "ICW4" ELSE "OCW1"
                      /\ chip["master"].base = 32 /\ ~chip["master"].auto_eoi
       /\ Complete("slave")
  /\ boot >= 2 => loop = TOTAL_IRQ /\ mask = MaskedAt(boot)

(* Before init_rtc() nothing is interrupted; before the last phase nothing    *)
(* runs but the boot code.                                                 *)
Quiet ==
  /\ boot < 5 => /\ ~iflag /\ \A c \in Chips : chip[c].irr = {} /\ chip[c].isr = {}
                 /\ stack[1] = << >>
  /\ boot < 6 => running = 1 /\ \A p \in Procs : p # 1 => stack[p] = << >>
  /\ chip["master"].irr \subseteq {PIT_IRQ, KEYB_IRQ} /\ chip["slave"].irr \subseteq {0}
  /\ chip["master"].isr \subseteq {PIT_IRQ, KEYB_IRQ, CASCADE_TO_SECONDARY}
  /\ chip["slave"].isr \subseteq {0}

(* The handler i of process p has not sent the EOI for its line.             *)
Slots == 1 .. MaxDepth
Owed(p, i, irq) == /\ i <= Len(stack[p]) /\ stack[p][i].irq = irq
                   /\ stack[p][i].at \in {"entered", "open"}

(* Each line in service is owed the EOI of one handler.                     *)
Served ==
  /\ \A irq \in Lines :
       /\ \A p, q \in Procs, i, j \in Slots : Owed(p, i, irq) /\ Owed(q, j, irq) => p = q /\ i = j
       /\ ((\E p \in Procs, i \in Slots : Owed(p, i, irq)) <=> BitOf(irq) \in chip[ChipOf(irq)].isr)
  /\ (CASCADE_TO_SECONDARY \in chip["master"].isr <=> chip["slave"].isr # {})

IInv == Types /\ Programming /\ Quiet /\ Served

-----------------------------------------------------------------------------
USE DEF PIT_IRQ, KEYB_IRQ, RTC_IRQ, CASCADE_TO_SECONDARY, NUM_MASTER_IRQ, TOTAL_IRQ,
        NotYet, FirstIrq

(* The phases by number.                                                    *)
LEMMA PhaseOf ==
  /\ Len(Phases) = 8
  /\ \A b \in 0 .. 7 : /\ (Phases[b + 1] = "idt"  <=> b = 0)
                      /\ (Phases[b + 1] = "pic"  <=> b = 1)
                      /\ (Phases[b + 1] = "pit"  <=> b = 2)
                      /\ (Phases[b + 1] = "keyb" <=> b = 3)
                      /\ (Phases[b + 1] = "rtc"  <=> b = 4)
                      /\ (Phases[b + 1] = "terminals" <=> b = 5)
                      /\ (Phases[b + 1] = "files" <=> b = 6)
                      /\ (Phases[b + 1] = "on" <=> b = 7)
  <1>1. Len(Phases) = 8
    BY DEF Phases
  <1>2. /\ Phases[1] = "idt" /\ Phases[2] = "pic" /\ Phases[3] = "pit" /\ Phases[4] = "keyb"
        /\ Phases[5] = "rtc" /\ Phases[6] = "terminals" /\ Phases[7] = "files" /\ Phases[8] = "on"
    BY DEF Phases
  <1> QED BY <1>1, <1>2

LEMMA DoneBy ==
  ASSUME boot \in 0 .. 8
  PROVE  /\ (Done("rtc") <=> boot >= 5)
         /\ (Done("terminals") <=> boot >= 6)
         /\ (Done("files") <=> boot >= 7)
  <1>1. /\ Phases[1] = "idt" /\ Phases[2] = "pic" /\ Phases[3] = "pit" /\ Phases[4] = "keyb"
        /\ Phases[5] = "rtc" /\ Phases[6] = "terminals" /\ Phases[7] = "files" /\ Phases[8] = "on"
    BY DEF Phases
  <1> QED BY <1>1 DEF Done

(* A register of a controller changes, the rest of it stays.                *)
LEMMA Registers ==
  \A c \in Bytes, S \in SUBSET Bits :
    /\ [c EXCEPT !.imr = S] \in Bytes /\ [c EXCEPT !.imr = S].imr = S
    /\ [c EXCEPT !.irr = S] \in Bytes /\ [c EXCEPT !.irr = S].irr = S
    /\ [c EXCEPT !.isr = S] \in Bytes /\ [c EXCEPT !.isr = S].isr = S
    /\ [c EXCEPT !.imr = S].irr = c.irr /\ [c EXCEPT !.imr = S].isr = c.isr
    /\ [c EXCEPT !.irr = S].imr = c.imr /\ [c EXCEPT !.irr = S].isr = c.isr
    /\ [c EXCEPT !.isr = S].imr = c.imr /\ [c EXCEPT !.isr = S].irr = c.irr
    /\ [c EXCEPT !.imr = S].expects = c.expects /\ [c EXCEPT !.imr = S].base = c.base
    /\ [c EXCEPT !.irr = S].expects = c.expects /\ [c EXCEPT !.irr = S].base = c.base
    /\ [c EXCEPT !.isr = S].expects = c.expects /\ [c EXCEPT !.isr = S].base = c.base
    /\ [c EXCEPT !.imr = S].auto_eoi = c.auto_eoi
    /\ [c EXCEPT !.irr = S].auto_eoi = c.auto_eoi
    /\ [c EXCEPT !.isr = S].auto_eoi = c.auto_eoi
  BY DEF Bytes

(* A handler is entered, goes on, or ends: what becomes of the stack.         *)
LEMMA Pushed ==
  ASSUME Types, NEW f \in Frames, Push(f), Len(stack[running]) < MaxDepth
  PROVE  /\ stack' \in [Procs -> Seq(Frames)] /\ \A p \in Procs : Len(stack'[p]) <= MaxDepth
         /\ \A p \in Procs : p # running => stack'[p] = stack[p]
         /\ Len(stack'[running]) = Len(stack[running]) + 1
         /\ \A i \in 1 .. Len(stack[running]) : stack'[running][i] = stack[running][i]
         /\ stack'[running][Len(stack[running]) + 1] = f
  <1>1. stack[running] \in Seq(Frames) /\ running \in Procs /\ MaxDepth \in Nat
    BY InterruptsAssumption DEF Types
  <1>2. /\ \A p \in Procs : p # running => stack'[p] = stack[p]
        /\ stack'[running] = Append(stack[running], f) /\ DOMAIN stack' = Procs
        /\ stack' = [p \in Procs |-> stack'[p]]
    BY DEF Types, Push
  <1>3. Append(stack[running], f) \in Seq(Frames)
    BY <1>1
  <1>4. stack' \in [Procs -> Seq(Frames)]
    BY <1>2, <1>3 DEF Types
  <1>5. /\ Len(Append(stack[running], f)) = Len(stack[running]) + 1
        /\ \A i \in 1 .. Len(stack[running]) : Append(stack[running], f)[i] = stack[running][i]
        /\ Append(stack[running], f)[Len(stack[running]) + 1] = f
    BY <1>1
  <1>6. \A p \in Procs : Len(stack'[p]) <= MaxDepth
    BY <1>1, <1>2, <1>5 DEF Types
  <1> QED BY <1>2, <1>4, <1>5, <1>6

LEMMA FrontFrames ==
  ASSUME NEW s \in Seq(Frames), s # << >>
  PROVE  /\ Len(s) \in Nat \ {0} /\ Len(Front(s)) = Len(s) - 1
         /\ Front(s) \in Seq(Frames)
         /\ \A i \in 1 .. Len(s) - 1 : Front(s)[i] = s[i]
         /\ s[Len(s)] \in Frames
  <1>1. Len(s) \in Nat \ {0}
    OBVIOUS
  <1>2. SubSeq(s, 1, Len(s) - 1) \in Seq(Frames)
    BY <1>1
  <1>3. Len(SubSeq(s, 1, Len(s) - 1)) = Len(s) - 1
    <2>1. CASE Len(s) = 1
      <3>1. SubSeq(s, 1, 0) = << >>
        OBVIOUS
      <3> QED BY <2>1, <3>1
    <2>2. CASE Len(s) > 1
      BY <1>1, <2>2
    <2> QED BY <1>1, <2>1, <2>2
  <1>4. \A i \in 1 .. Len(s) - 1 : SubSeq(s, 1, Len(s) - 1)[i] = s[i]
    BY <1>1
  <1>5. s[Len(s)] \in Frames
    BY <1>1
  <1> QED BY <1>1, <1>2, <1>3, <1>4, <1>5 DEF Front

LEMMA FrontOf ==
  ASSUME Types, Inside
  PROVE  /\ Front(stack[running]) \in Seq(Frames)
         /\ Len(stack[running]) \in Nat \ {0} /\ Len(Front(stack[running])) = Len(stack[running]) - 1
         /\ \A i \in 1 .. Len(stack[running]) - 1 : Front(stack[running])[i] = stack[running][i]
         /\ Top \in Frames /\ Top = stack[running][Len(stack[running])]
  <1>1. PICK s \in Seq(Frames) : s = stack[running] /\ s # << >>
    BY DEF Types, Inside
  <1>2. Top = s[Len(s)]
    BY <1>1 DEF Top, Last
  <1> QED BY <1>1, <1>2, FrontFrames

LEMMA Popped ==
  ASSUME Types, Inside, Pop
  PROVE  /\ stack' \in [Procs -> Seq(Frames)] /\ \A p \in Procs : Len(stack'[p]) <= MaxDepth
         /\ \A p \in Procs : p # running => stack'[p] = stack[p]
         /\ Len(stack'[running]) = Len(stack[running]) - 1
         /\ \A i \in 1 .. Len(stack[running]) - 1 : stack'[running][i] = stack[running][i]
  <1>1. stack' = [stack EXCEPT ![running] = Front(stack[running])]
    BY DEF Pop
  <1>2. stack'[running] = Front(stack[running]) /\ \A p \in Procs : p # running => stack'[p] = stack[p]
    BY <1>1 DEF Types
  <1>3. stack' \in [Procs -> Seq(Frames)]
    BY <1>1, FrontOf DEF Types
  <1>4. Len(stack[running]) <= MaxDepth /\ Len(Front(stack[running])) <= MaxDepth
    BY FrontOf, InterruptsAssumption DEF Types
  <1>5. \A p \in Procs : Len(stack'[p]) <= MaxDepth
    BY <1>2, <1>4 DEF Types
  <1> QED BY <1>2, <1>3, <1>5, FrontOf

LEMMA TopSet ==
  ASSUME Types, Inside, NEW s \in Places, SetTop(s)
  PROVE  /\ stack' \in [Procs -> Seq(Frames)] /\ \A p \in Procs : Len(stack'[p]) <= MaxDepth
         /\ \A p \in Procs : p # running => stack'[p] = stack[p]
         /\ Len(stack'[running]) = Len(stack[running])
         /\ \A i \in 1 .. Len(stack[running]) - 1 : stack'[running][i] = stack[running][i]
         /\ stack'[running][Len(stack[running])].irq = Top.irq
         /\ stack'[running][Len(stack[running])].at = s
  <1> DEFINE f == [Top EXCEPT !.at = s]
             n == Len(stack[running])
  <1>1. stack' = [stack EXCEPT ![running] = Append(Front(stack[running]), f)]
    BY DEF SetTop
  <1>2. f \in Frames /\ f.irq = Top.irq /\ f.at = s
    BY FrontOf DEF Frames
  <1> HIDE DEF f
  <1>3. /\ Append(Front(stack[running]), f) \in Seq(Frames)
        /\ Len(Append(Front(stack[running]), f)) = n
        /\ Append(Front(stack[running]), f)[n] = f
        /\ \A i \in 1 .. n - 1 : Append(Front(stack[running]), f)[i] = stack[running][i]
    BY <1>2, FrontOf
  <1>4. /\ stack'[running] = Append(Front(stack[running]), f)
        /\ \A p \in Procs : p # running => stack'[p] = stack[p]
    BY <1>1 DEF Types
  <1>5. stack' \in [Procs -> Seq(Frames)]
    BY <1>1, <1>3 DEF Types
  <1>6. \A p \in Procs : Len(stack'[p]) <= MaxDepth
    BY <1>3, <1>4 DEF Types
  <1> QED BY <1>2, <1>3, <1>4, <1>5, <1>6

-----------------------------------------------------------------------------
(* What programs the controllers stays as it is.                            *)
SameSetup == \A c \in Chips : /\ chip'[c].expects = chip[c].expects /\ chip'[c].base = chip[c].base
                              /\ chip'[c].auto_eoi = chip[c].auto_eoi /\ chip'[c].imr = chip[c].imr

LEMMA SetupStays ==
  ASSUME Types, Programming, SameSetup, boot >= 5, boot' \in 5 .. 8, UNCHANGED <<loop, mask>>
  PROVE  Programming'
  <1>1. "master" \in Chips /\ "slave" \in Chips /\ boot \in 5 .. 8 /\ loop = 16
    BY DEF Programming, Types, Chips
  <1>2. Complete("master") /\ Complete("slave") /\ mask = MaskedAt(boot)
    BY <1>1 DEF Programming
  <1>3. Complete("master")' /\ Complete("slave")'
    BY <1>1, <1>2 DEF Complete, SameSetup
  <1>4. MaskedAt(boot) = MaskedAt(boot')
    BY <1>1 DEF MaskedAt
  <1> QED BY <1>1, <1>2, <1>3, <1>4 DEF Programming

(* send_eoi() ends the service of the line, and of the cascade if the line is *)
(* the RTC's, the only one of the slave's.                                 *)
LEMMA EoiClears ==
  ASSUME Types, NEW irq \in Lines, chip' = SendEoi(chip, irq)
  PROVE  /\ chip' \in [Chips -> Bytes] /\ SameSetup
         /\ \A c \in Chips : chip'[c].irr = chip[c].irr
         /\ chip'["master"].isr = chip["master"].isr \ {IF irq = 8 THEN 2 ELSE irq}
         /\ chip'["slave"].isr = chip["slave"].isr \ (IF irq = 8 THEN {0} ELSE {})
  <1> DEFINE m == chip["master"]
             l == chip["slave"]
  <1>1. m \in Bytes /\ l \in Bytes /\ Chips = {"master", "slave"}
    BY DEF Types, Chips
  <1>2. m.isr \in SUBSET Bits /\ l.isr \in SUBSET Bits
    BY <1>1 DEF Bytes
  <1>3. irq \in {0, 1, 8} /\ BitOf(8) = 0
    BY DEF Lines, BitOf
  <1>4. CASE irq = 8
    <2> DEFINE S == m.isr \ {2}
               R == l.isr \ {0}
               d == [m EXCEPT !.isr = S]
               e == [l EXCEPT !.isr = R]
    <2>1. chip' = [chip EXCEPT !["slave"] = e, !["master"] = d]
      <3>1. irq >= 8 /\ BitOf(irq) = 0
        BY <1>3, <1>4
      <3>2. chip' = [chip EXCEPT !["slave"].isr = @ \ {0}, !["master"].isr = @ \ {2}]
        BY <3>1 DEF SendEoi
      <3> QED BY <3>2, Zenon
    <2>2. S \in SUBSET Bits /\ R \in SUBSET Bits
      BY <1>2
    <2> HIDE DEF S, R
    <2>3. /\ d \in Bytes /\ d.isr = S /\ d.irr = m.irr /\ d.imr = m.imr
          /\ d.expects = m.expects /\ d.base = m.base /\ d.auto_eoi = m.auto_eoi
      BY <1>1, <2>2, Registers
    <2>4. /\ e \in Bytes /\ e.isr = R /\ e.irr = l.irr /\ e.imr = l.imr
          /\ e.expects = l.expects /\ e.base = l.base /\ e.auto_eoi = l.auto_eoi
      BY <1>1, <2>2, Registers
    <2> HIDE DEF d, e
    <2>5. chip'["slave"] = e /\ chip'["master"] = d
      BY <1>1, <2>1 DEF Types
    <2>6. chip' \in [Chips -> Bytes]
      BY <2>1, <2>3, <2>4 DEF Types
    <2>7. SameSetup /\ \A c \in Chips : chip'[c].irr = chip[c].irr
      BY <1>1, <2>3, <2>4, <2>5 DEF SameSetup
    <2> QED BY <1>4, <2>3, <2>4, <2>5, <2>6, <2>7 DEF S, R
  <1>5. CASE irq # 8
    <2> DEFINE S == m.isr \ {irq}
               d == [m EXCEPT !.isr = S]
    <2>1. chip' = [chip EXCEPT !["master"] = d]
      BY <1>1, <1>3, <1>5 DEF SendEoi, Types
    <2>2. S \in SUBSET Bits
      BY <1>2
    <2> HIDE DEF S
    <2>3. /\ d \in Bytes /\ d.isr = S /\ d.irr = m.irr /\ d.imr = m.imr
          /\ d.expects = m.expects /\ d.base = m.base /\ d.auto_eoi = m.auto_eoi
      BY <1>1, <2>2, Registers
    <2> HIDE DEF d
    <2>4. chip'["slave"] = l /\ chip'["master"] = d
      BY <1>1, <2>1 DEF Types
    <2>5. chip' \in [Chips -> Bytes]
      BY <2>1, <2>3 DEF Types
    <2>6. SameSetup /\ \A c \in Chips : chip'[c].irr = chip[c].irr
      BY <1>1, <2>3, <2>4 DEF SameSetup
    <2> QED BY <1>5, <2>3, <2>4, <2>5, <2>6 DEF S
  <1> QED BY <1>4, <1>5

LEMMA Least ==
  ASSUME NEW S \in SUBSET {0, 1, 2}, S # {}
  PROVE  LeastOf(S) \in S
  <1>1. \E b \in S : \A k \in S : b <= k
    <2>1. CASE 0 \in S  BY <2>1
    <2>2. CASE 0 \notin S /\ 1 \in S  BY <2>2
    <2>3. CASE 0 \notin S /\ 1 \notin S
      <3>1. 2 \in S /\ \A k \in S : k = 2
        BY <2>3
      <3> QED BY <3>1
    <2> QED BY <2>1, <2>2, <2>3
  <1> QED BY <1>1 DEF LeastOf

(* A request that is passed on has no line of its own or above in service.    *)
LEMMA Passed ==
  ASSUME NEW c, NEW b \in Requests(c)
  PROVE  b \in c.irr /\ b \notin c.imr /\ \A k \in c.isr : b < k
  BY DEF Requests

LEMMA Acknowledged ==
  ASSUME NEW c \in Bytes, NEW b \in Bits, ~c.auto_eoi
  PROVE  LET d == Acknowledge(c, b) IN
         /\ d \in Bytes /\ d.irr = c.irr \ {b} /\ d.isr = c.isr \cup {b}
         /\ d.expects = c.expects /\ d.base = c.base /\ d.auto_eoi = c.auto_eoi /\ d.imr = c.imr
  <1> DEFINE R == c.irr \ {b}
             S == c.isr \cup {b}
             e == [c EXCEPT !.irr = R]
             d == [e EXCEPT !.isr = S]
  <1>1. R \in SUBSET Bits /\ S \in SUBSET Bits
    BY DEF Bytes
  <1>2. Acknowledge(c, b) = d
    BY Zenon DEF Acknowledge
  <1> HIDE DEF R, S
  <1>3. /\ e \in Bytes /\ e.irr = R /\ e.isr = c.isr /\ e.imr = c.imr
        /\ e.expects = c.expects /\ e.base = c.base /\ e.auto_eoi = c.auto_eoi
    BY <1>1, Registers
  <1> HIDE DEF e
  <1>4. /\ d \in Bytes /\ d.irr = e.irr /\ d.isr = S /\ d.imr = e.imr
        /\ d.expects = e.expects /\ d.base = e.base /\ d.auto_eoi = e.auto_eoi
    BY <1>1, <1>3, Registers
  <1> HIDE DEF d
  <1> QED BY <1>2, <1>3, <1>4 DEF R, S

LEMMA AcceptTakes ==
  ASSUME IInv, NEW irq \in Lines, Accept(irq)
  PROVE  /\ boot >= 5
         /\ chip' \in [Chips -> Bytes] /\ SameSetup
         /\ \A c \in Chips : chip'[c].irr \subseteq chip[c].irr
         /\ irq = 8  => /\ chip["slave"].isr = {} /\ chip'["slave"].isr = {0}
                        /\ chip'["master"].isr = chip["master"].isr \cup {2}
         /\ irq # 8 => /\ irq \notin chip["master"].isr /\ chip'["slave"].isr = chip["slave"].isr
                        /\ chip'["master"].isr = chip["master"].isr \cup {irq}
  <1> DEFINE m == chip["master"]
             l == chip["slave"]
             M == [m EXCEPT !.irr = m.irr \cup SlaveCalls]
             b == LeastOf(MasterWants)
             t == LeastOf(Requests(chip["slave"]))
  <1>1. iflag /\ boot >= 5 /\ boot \in 0 .. 8
    BY DEF Accept, IInv, Types, Quiet
  <1>2. m \in Bytes /\ l \in Bytes /\ Chips = {"master", "slave"} /\ chip \in [Chips -> Bytes]
    BY DEF IInv, Types, Chips
  <1>3. /\ m.irr \subseteq {0, 1} /\ m.isr \subseteq {0, 1, 2}
        /\ l.irr \subseteq {0} /\ l.isr \subseteq {0}
    BY DEF IInv, Quiet
  <1>4. ~m.auto_eoi /\ m.base = 32 /\ ~l.auto_eoi /\ l.base = 40
    BY <1>1 DEF IInv, Programming, Complete
  <1>5. m.irr \cup SlaveCalls \in SUBSET Bits /\ SlaveCalls \subseteq {2}
    BY <1>2, <1>3 DEF SlaveCalls, Bytes, Bits
  <1>6. M.irr = m.irr \cup SlaveCalls /\ M.isr = m.isr /\ M.imr = m.imr
    BY <1>2, <1>5, Registers
  <1>7. MasterWants = Requests(M)
    BY DEF MasterWants
  <1>8. MasterWants \subseteq {0, 1, 2}
    BY <1>3, <1>5, <1>6, <1>7, Passed
  <1>9. b \in MasterWants
    BY <1>8, Least DEF Accept
  <1> HIDE DEF b, M
  <1>10. b \in {0, 1, 2} /\ (b = 2 => SlaveCalls # {}) /\ \A k \in m.isr : b < k
    <2>1. b \in M.irr /\ \A k \in M.isr : b < k
      BY <1>7, <1>9, Passed
    <2>2. b \in {0, 1, 2}
      BY <1>8, <1>9
    <2>3. b = 2 => SlaveCalls # {}
      BY <1>3, <1>6, <2>1
    <2> QED BY <1>6, <2>1, <2>2, <2>3
  <1>11. CASE b = 2
    <2>1. /\ Leads(l.base + t, irq)
          /\ chip' = [chip EXCEPT !["master"] = Acknowledge(@, b), !["slave"] = Acknowledge(@, t)]
      BY <1>11 DEF Accept, b
    <2>2. t = 0 /\ l.isr = {}
      <3>1. Requests(l) # {} /\ Requests(l) \subseteq {0}
        BY <1>3, <1>10, <1>11, Passed DEF SlaveCalls
      <3>2. t \in Requests(l)
        BY <3>1, Least
      <3> QED BY <1>3, <3>1, <3>2, Passed
    <2> HIDE DEF t
    <2>3. irq = 8
      BY <1>4, <2>1, <2>2 DEF Leads, Idt, Vectors
    <2>4. chip' = [chip EXCEPT !["master"] = Acknowledge(m, 2), !["slave"] = Acknowledge(l, 0)]
      BY <1>11, <2>1, <2>2, Zenon
    <2>5. 2 \in Bits /\ 0 \in Bits
      BY DEF Bits
    <2> DEFINE d == Acknowledge(m, 2)
               e == Acknowledge(l, 0)
    <2>6. /\ d \in Bytes /\ d.irr = m.irr \ {2} /\ d.isr = m.isr \cup {2}
          /\ d.expects = m.expects /\ d.base = m.base /\ d.auto_eoi = m.auto_eoi /\ d.imr = m.imr
          /\ e \in Bytes /\ e.irr = l.irr \ {0} /\ e.isr = l.isr \cup {0}
          /\ e.expects = l.expects /\ e.base = l.base /\ e.auto_eoi = l.auto_eoi /\ e.imr = l.imr
      BY <1>2, <1>4, <2>5, Acknowledged
    <2> HIDE DEF d, e
    <2>7. chip'["master"] = d /\ chip'["slave"] = e /\ chip' \in [Chips -> Bytes]
      BY <1>2, <2>4, <2>6 DEF d, e
    <2>8. SameSetup
      BY <1>2, <2>6, <2>7 DEF SameSetup
    <2>9. \A c \in Chips : chip'[c].irr \subseteq chip[c].irr
      BY <1>2, <2>6, <2>7
    <2> QED BY <1>1, <2>2, <2>3, <2>6, <2>7, <2>8, <2>9
  <1>12. CASE b # 2
    <2>1. Leads(m.base + b, irq) /\ chip' = [chip EXCEPT !["master"] = Acknowledge(m, b)]
      BY <1>12 DEF Accept, b
    <2>2. irq = b /\ b \in Bits /\ irq # 8
      BY <1>4, <1>10, <1>12, <2>1 DEF Leads, Idt, Vectors, Bits
    <2> DEFINE d == Acknowledge(m, b)
    <2>3. /\ d \in Bytes /\ d.irr = m.irr \ {b} /\ d.isr = m.isr \cup {b}
          /\ d.expects = m.expects /\ d.base = m.base /\ d.auto_eoi = m.auto_eoi /\ d.imr = m.imr
      BY <1>2, <1>4, <2>2, Acknowledged
    <2> HIDE DEF d
    <2>4. chip'["master"] = d /\ chip'["slave"] = l /\ chip' \in [Chips -> Bytes]
      BY <1>2, <2>1, <2>3 DEF d
    <2>5. SameSetup
      BY <1>2, <2>3, <2>4 DEF SameSetup
    <2>6. b \notin m.isr
      BY <1>3, <1>10
    <2> QED BY <1>1, <1>2, <2>2, <2>3, <2>4, <2>5, <2>6
  <1> QED BY <1>11, <1>12

-----------------------------------------------------------------------------
(* A byte that a controller takes for a mask, and one that it takes for ICW4. *)
LEMMA MaskByte ==
  ASSUME NEW c \in Bytes, NEW bits \in SUBSET Bits, c.expects = "OCW1"
  PROVE  LET d == Data(c, bits) IN
         /\ d \in Bytes /\ d.imr = bits /\ d.irr = c.irr /\ d.isr = c.isr
         /\ d.expects = "OCW1" /\ d.base = c.base /\ d.auto_eoi = c.auto_eoi
  <1>1. Data(c, bits) = [c EXCEPT !.imr = bits]
    BY DEF Data
  <1> DEFINE d == [c EXCEPT !.imr = bits]
  <1>2. /\ d \in Bytes /\ d.imr = bits /\ d.irr = c.irr /\ d.isr = c.isr
        /\ d.expects = c.expects /\ d.base = c.base /\ d.auto_eoi = c.auto_eoi
    BY Registers
  <1> HIDE DEF d
  <1> QED BY <1>1, <1>2 DEF d

LEMMA Icw4Byte ==
  ASSUME NEW c \in Bytes, NEW bits \in SUBSET Bits, c.expects = "ICW4", 1 \notin bits
  PROVE  LET d == Data(c, bits) IN
         /\ d \in Bytes /\ d.imr = c.imr /\ d.irr = c.irr /\ d.isr = c.isr
         /\ d.expects = "OCW1" /\ d.base = c.base /\ ~d.auto_eoi
  <1> DEFINE d == [[c EXCEPT !.expects = "OCW1"] EXCEPT !.auto_eoi = FALSE]
  <1>1. (1 \in bits) = FALSE
    OBVIOUS
  <1>2. Data(c, bits) = [c EXCEPT !.expects = "OCW1", !.auto_eoi = 1 \in bits]
    BY DEF Data
  <1>3. Data(c, bits) = d
    BY <1>1, <1>2, Zenon
  <1>4. \A e \in Bytes :
         /\ [[e EXCEPT !.expects = "OCW1"] EXCEPT !.auto_eoi = FALSE] \in Bytes
         /\ [[e EXCEPT !.expects = "OCW1"] EXCEPT !.auto_eoi = FALSE].imr = e.imr
         /\ [[e EXCEPT !.expects = "OCW1"] EXCEPT !.auto_eoi = FALSE].irr = e.irr
         /\ [[e EXCEPT !.expects = "OCW1"] EXCEPT !.auto_eoi = FALSE].isr = e.isr
         /\ [[e EXCEPT !.expects = "OCW1"] EXCEPT !.auto_eoi = FALSE].base = e.base
         /\ [[e EXCEPT !.expects = "OCW1"] EXCEPT !.auto_eoi = FALSE].expects = "OCW1"
         /\ ~[[e EXCEPT !.expects = "OCW1"] EXCEPT !.auto_eoi = FALSE].auto_eoi
    BY DEF Bytes
  <1>5. /\ d \in Bytes /\ d.imr = c.imr /\ d.irr = c.irr /\ d.isr = c.isr
        /\ d.base = c.base /\ d.expects = "OCW1" /\ ~d.auto_eoi
    BY <1>4
  <1> HIDE DEF d
  <1> QED BY <1>3, <1>5

LEMMA MaskWritten ==
  ASSUME Types, NEW c \in Chips, NEW bits \in SUBSET Bits, SetPic(WriteMask(Pic, c, bits)),
         Data(chip[c], bits) \in Bytes
  PROVE  /\ mask' = [mask EXCEPT ![c] = bits] /\ mask' \in [Chips -> SUBSET Bits]
         /\ chip' = [chip EXCEPT ![c] = Data(chip[c], bits)] /\ chip' \in [Chips -> Bytes]
         /\ chip'[c] = Data(chip[c], bits) /\ \A d \in Chips : d # c => chip'[d] = chip[d]
  <1>1. /\ WriteMask(Pic, c, bits).mask = [mask EXCEPT ![c] = bits]
        /\ WriteMask(Pic, c, bits).chip = [chip EXCEPT ![c] = Data(chip[c], bits)]
    BY DEF WriteMask, Pic
  <1>2. mask' = [mask EXCEPT ![c] = bits] /\ chip' = [chip EXCEPT ![c] = Data(chip[c], bits)]
    BY <1>1 DEF SetPic
  <1> QED BY <1>2 DEF Types

(* The bytes that start an initialisation.                                  *)
LEMMA Icw1Byte ==
  \A c \in Bytes : /\ StartInit(c) \in Bytes /\ StartInit(c).expects = "ICW2"
                   /\ StartInit(c).imr = {} /\ StartInit(c).isr = {} /\ StartInit(c).irr = c.irr
                   /\ ~StartInit(c).auto_eoi
  BY DEF Bytes, StartInit

LEMMA Icw2Byte ==
  ASSUME NEW c \in Bytes, NEW bits \in SUBSET Bits, c.expects = "ICW2", Value(bits) \in 0 .. 255
  PROVE  /\ Data(c, bits) \in Bytes /\ Data(c, bits).expects = "ICW3"
         /\ Data(c, bits).base = Value(bits)
         /\ Data(c, bits).imr = c.imr /\ Data(c, bits).isr = c.isr /\ Data(c, bits).irr = c.irr
         /\ Data(c, bits).auto_eoi = c.auto_eoi
  <1>0. PICK w \in 0 .. 255 : w = Value(bits)
    OBVIOUS
  <1>1. Data(c, bits) = [c EXCEPT !.expects = "ICW3", !.base = w]
    BY <1>0 DEF Data
  <1>2. \A e \in Bytes, v \in 0 .. 255 :
          /\ [e EXCEPT !.expects = "ICW3", !.base = v] \in Bytes
          /\ [e EXCEPT !.expects = "ICW3", !.base = v].expects = "ICW3"
          /\ [e EXCEPT !.expects = "ICW3", !.base = v].base = v
          /\ [e EXCEPT !.expects = "ICW3", !.base = v].imr = e.imr
          /\ [e EXCEPT !.expects = "ICW3", !.base = v].isr = e.isr
          /\ [e EXCEPT !.expects = "ICW3", !.base = v].irr = e.irr
          /\ [e EXCEPT !.expects = "ICW3", !.base = v].auto_eoi = e.auto_eoi
    BY DEF Bytes
  <1> DEFINE d == [c EXCEPT !.expects = "ICW3", !.base = w]
  <1>3. /\ d \in Bytes /\ d.expects = "ICW3" /\ d.base = w /\ d.imr = c.imr
        /\ d.isr = c.isr /\ d.irr = c.irr /\ d.auto_eoi = c.auto_eoi
    BY <1>2
  <1> HIDE DEF d
  <1> QED BY <1>0, <1>1, <1>3 DEF d

LEMMA Icw3Byte ==
  ASSUME NEW c \in Bytes, NEW bits, c.expects = "ICW3"
  PROVE  /\ Data(c, bits) \in Bytes /\ Data(c, bits).expects = "ICW4"
         /\ Data(c, bits).base = c.base
         /\ Data(c, bits).imr = c.imr /\ Data(c, bits).isr = c.isr /\ Data(c, bits).irr = c.irr
         /\ Data(c, bits).auto_eoi = c.auto_eoi
  <1>1. Data(c, bits) = [c EXCEPT !.expects = "ICW4"]
    BY DEF Data
  <1>2. \A e \in Bytes :
          /\ [e EXCEPT !.expects = "ICW4"] \in Bytes
          /\ [e EXCEPT !.expects = "ICW4"].expects = "ICW4"
          /\ [e EXCEPT !.expects = "ICW4"].base = e.base
          /\ [e EXCEPT !.expects = "ICW4"].imr = e.imr
          /\ [e EXCEPT !.expects = "ICW4"].isr = e.isr
          /\ [e EXCEPT !.expects = "ICW4"].irr = e.irr
          /\ [e EXCEPT !.expects = "ICW4"].auto_eoi = e.auto_eoi
    BY DEF Bytes
  <1> QED BY <1>1, <1>2

LEMMA PowerOnByte == /\ PowerOn \in Bytes /\ PowerOn.expects = "OCW1"
                     /\ PowerOn.irr = {} /\ PowerOn.isr = {} /\ PowerOn.imr = {}
  <1>1. PowerOn \in Bytes
    BY DEF PowerOn, Bytes, Bits
  <1> QED BY <1>1 DEF PowerOn

(* The vectors, 32 and 40.                                                  *)
LEMMA Vector == Value({5}) = 32 /\ Value({3, 5}) = 40
  <1>1. 2^5 = 32 /\ 2^3 = 8
    BY SMT
  <1> QED BY <1>1 DEF Value

(* What the writes before the loop of i8259_init() make of the controllers.   *)
LEMMA ProgrammedChips ==
  ASSUME mask = AtReset.mask, chip = AtReset.chip, SetPic(Programmed(Pic))
  PROVE  /\ mask' = mask /\ chip' \in [Chips -> Bytes]
         /\ chip'["master"].expects = "ICW4" /\ chip'["master"].base = 32
         /\ ~chip'["master"].auto_eoi
         /\ chip'["slave"].expects = "OCW1" /\ chip'["slave"].base = 40
         /\ ~chip'["slave"].auto_eoi /\ chip'["slave"].imr = {}
         /\ \A c \in Chips : chip'[c].irr = {} /\ chip'[c].isr = {}
  <1> DEFINE c1 == StartInit(Data(PowerOn, 0 .. 7))
             m2 == Data(c1, {5})
             m3 == Data(m2, {2})
             l2 == Data(c1, {3, 5})
             l3 == Data(l2, {1})
             l4 == Data(l3, {0})
  <1>1. /\ 0 .. 7 \in SUBSET Bits /\ {5} \in SUBSET Bits /\ {2} \in SUBSET Bits
        /\ {3, 5} \in SUBSET Bits /\ {1} \in SUBSET Bits /\ {0} \in SUBSET Bits /\ 1 \notin {0}
    BY DEF Bits
  <1>2. /\ c1 \in Bytes /\ c1.expects = "ICW2" /\ c1.imr = {} /\ c1.isr = {} /\ c1.irr = {} /\ ~c1.auto_eoi
    BY <1>1, PowerOnByte, MaskByte, Icw1Byte
  <1> HIDE DEF c1
  <1>3. /\ m2 \in Bytes /\ m2.expects = "ICW3" /\ m2.base = 32 /\ m2.isr = {} /\ m2.irr = {} /\ ~m2.auto_eoi
    BY <1>1, <1>2, Vector, Icw2Byte
  <1>4. /\ l2 \in Bytes /\ l2.expects = "ICW3" /\ l2.base = 40 /\ l2.imr = {} /\ l2.isr = {} /\ l2.irr = {}
        /\ ~l2.auto_eoi
    BY <1>1, <1>2, Vector, Icw2Byte
  <1> HIDE DEF m2, l2
  <1>5. /\ m3 \in Bytes /\ m3.expects = "ICW4" /\ m3.base = 32 /\ m3.isr = {} /\ m3.irr = {} /\ ~m3.auto_eoi
    BY <1>3, Icw3Byte
  <1>6. /\ l3 \in Bytes /\ l3.expects = "ICW4" /\ l3.base = 40 /\ l3.imr = {} /\ l3.isr = {} /\ l3.irr = {}
    BY <1>4, Icw3Byte
  <1> HIDE DEF m3, l3
  <1>7. /\ l4 \in Bytes /\ l4.expects = "OCW1" /\ l4.base = 40 /\ l4.imr = {} /\ l4.isr = {} /\ l4.irr = {}
        /\ ~l4.auto_eoi
    BY <1>1, <1>6, Icw4Byte
  <1> HIDE DEF l4
  <1>8. chip = [c \in Chips |-> PowerOn] /\ Chips = {"master", "slave"}
    BY DEF AtReset, Chips
  <1>9. Programmed(Pic) = [Pic EXCEPT !.chip = [chip EXCEPT !["master"] = m3, !["slave"] = l4]]
    <2>1. chip["master"] = PowerOn /\ chip["slave"] = PowerOn
      BY <1>8
    <2>2. Pic.chip = chip
      BY DEF Pic
    <2> QED BY <2>1, <2>2 DEF Programmed, Pic, c1, m2, m3, l2, l3, l4
  <1>10. mask' = mask /\ chip' = [chip EXCEPT !["master"] = m3, !["slave"] = l4]
    BY <1>9 DEF SetPic, Pic
  <1>11. chip'["master"] = m3 /\ chip'["slave"] = l4 /\ chip' \in [Chips -> Bytes]
    BY <1>5, <1>7, <1>8, <1>10, PowerOnByte
  <1> QED BY <1>5, <1>7, <1>8, <1>10, <1>11

-----------------------------------------------------------------------------
LEMMA BitOfs == \A n \in 0 .. 15 : /\ BitOf(n) = (IF n < 8 THEN n ELSE n - 8)
                                  /\ ChipOf(n) = (IF n < 8 THEN "master" ELSE "slave")
                                  /\ BitOf(n) \in Bits /\ ChipOf(n) \in Chips
  BY DEF BitOf, ChipOf, Bits, Chips

LEMMA BootFirst == 1 \in Procs /\ Cardinality(Procs) \in Nat \ {0} /\ Procs = 1 .. Cardinality(Procs)
  BY InterruptsAssumption

LEMMA Initial == Init => IInv
  <1> SUFFICES ASSUME Init PROVE IInv
    OBVIOUS
  <1>1. chip = [c \in Chips |-> PowerOn] /\ mask = [c \in Chips |-> {}]
    BY DEF Init, AtReset
  <1>2. "master" \in Chips /\ "slave" \in Chips
    BY DEF Chips
  <1>3. /\ boot = 0 /\ loop = -1 /\ iflag = FALSE /\ running = 1
        /\ \A p \in Procs : stack[p] = << >> /\ Len(stack[p]) = 0
    BY DEF Init
  <1>4. stack \in [Procs -> Seq(Frames)]
    BY DEF Init
  <1>5. Types
    <2>1. mask \in [Chips -> SUBSET Bits] /\ chip \in [Chips -> Bytes]
      BY <1>1, PowerOnByte
    <2>2. boot \in 0 .. 8 /\ loop \in NotYet .. TOTAL_IRQ /\ running \in Procs
      BY <1>3, BootFirst
    <2>4. iflag \in BOOLEAN
      BY <1>3
    <2>3. \A p \in Procs : Len(stack[p]) <= MaxDepth
      BY <1>3, InterruptsAssumption
    <2> QED BY <1>4, <2>1, <2>2, <2>3, <2>4 DEF Types
  <1>6. Programming
    BY <1>1, <1>3 DEF Programming, AtReset
  <1>7. Quiet
    BY <1>1, <1>2, <1>3, PowerOnByte, BootFirst DEF Quiet
  <1>8. \A p \in Procs, i \in Slots : ~(i <= Len(stack[p]))
    BY <1>3, InterruptsAssumption DEF Slots
  <1>9. \A irq \in Lines : chip[ChipOf(irq)].isr = {}
    <2>1. \A c \in Chips : chip[c].isr = {}
      BY <1>1, PowerOnByte
    <2>2. \A irq \in Lines : ChipOf(irq) \in Chips
      <3>1. \A irq \in Lines : irq \in 0 .. 15
        BY DEF Lines
      <3> QED BY <3>1, BitOfs
    <2> QED BY <2>1, <2>2
  <1>10. Served
    <2>1. chip["master"].isr = {} /\ chip["slave"].isr = {}
      BY <1>1, <1>2, PowerOnByte
    <2>2. \A irq \in Lines, p \in Procs, i \in Slots : ~Owed(p, i, irq)
      BY <1>8 DEF Owed
    <2>3. \A irq \in Lines : BitOf(irq) \notin chip[ChipOf(irq)].isr
      BY <1>9
    <2> QED BY <2>1, <2>2, <2>3 DEF Served
  <1> QED BY <1>5, <1>6, <1>7, <1>10 DEF IInv

-----------------------------------------------------------------------------
(* What each step leaves of Served: a handler is entered, goes on, or sends   *)
(* its EOI.                                                                *)
LEMMA ServedStays ==
  ASSUME Types, Served, UNCHANGED stack, \A c \in Chips : chip'[c].isr = chip[c].isr
  PROVE  Served'
  <1>1. \A irq \in Lines : ChipOf(irq) \in Chips
    BY BitOfs DEF Lines
  <1>2. "master" \in Chips /\ "slave" \in Chips
    BY DEF Chips
  <1>3. \A p, i, k : Owed(p, i, k)' <=> Owed(p, i, k)
    BY DEF Owed
  <1>4. \A irq \in Lines : chip'[ChipOf(irq)].isr = chip[ChipOf(irq)].isr
    BY <1>1
  <1> QED BY <1>2, <1>3, <1>4 DEF Served

(* The running process keeps the handlers under the top one, the others keep  *)
(* all of theirs; the top one's line stays.                                *)
TopMoves == LET n == Len(stack[running]) IN
  /\ \A p \in Procs : p # running => stack'[p] = stack[p]
  /\ Len(stack'[running]) \in {n - 1, n}
  /\ \A i \in 1 .. n - 1 : stack'[running][i] = stack[running][i]
  /\ Len(stack'[running]) = n => stack'[running][n].irq = Top.irq

Owing(at) == at \in {"entered", "open"}

LEMMA OwedAfter ==
  ASSUME Types, Inside, TopMoves
  PROVE  LET n == Len(stack[running]) IN
         \A p \in Procs, i \in Slots, k \in Lines :
           Owed(p, i, k)' <=> IF p = running /\ i = n
                              THEN /\ Len(stack'[running]) = n /\ Top.irq = k
                                   /\ Owing(stack'[running][n].at)
                              ELSE Owed(p, i, k)
  <1> DEFINE n == Len(stack[running])
  <1>1. n \in Nat \ {0} /\ Top = stack[running][n] /\ running \in Procs
    BY FrontOf DEF Types
  <1> SUFFICES ASSUME NEW p \in Procs, NEW i \in Slots, NEW k \in Lines
               PROVE  Owed(p, i, k)' <=> IF p = running /\ i = n
                                         THEN /\ Len(stack'[running]) = n /\ Top.irq = k
                                              /\ Owing(stack'[running][n].at)
                                         ELSE Owed(p, i, k)
    OBVIOUS
  <1>2. i \in Nat \ {0}
    BY InterruptsAssumption DEF Slots
  <1>3. CASE p # running
    <2>1. stack'[p] = stack[p]
      BY <1>3 DEF TopMoves
    <2> QED BY <1>3, <2>1 DEF Owed
  <1>4. CASE p = running /\ i # n
    <2>1. CASE i < n
      <3>1. stack'[p][i] = stack[p][i] /\ i <= Len(stack'[p])
        BY <1>1, <1>2, <1>4, <2>1 DEF TopMoves
      <3> QED BY <1>1, <1>2, <1>4, <2>1, <3>1 DEF Owed
    <2>2. CASE i > n
      <3>1. ~(i <= Len(stack'[p]))
        BY <1>1, <1>2, <1>4, <2>2 DEF TopMoves
      <3> QED BY <1>1, <1>2, <1>4, <2>2, <3>1 DEF Owed
    <2> QED BY <1>1, <1>2, <1>4, <2>1, <2>2
  <1>5. CASE p = running /\ i = n
    <2>1. CASE Len(stack'[running]) = n
      BY <1>1, <1>5, <2>1 DEF Owed, Owing, TopMoves
    <2>2. CASE Len(stack'[running]) = n - 1
      BY <1>1, <1>5, <2>2 DEF Owed, Owing
    <2> QED BY <2>1, <2>2 DEF TopMoves
  <1> QED BY <1>3, <1>4, <1>5

LEMMA GoesOn ==
  ASSUME Types, Served, Inside, TopMoves,
         LET n == Len(stack[running])
         IN  Owing(Top.at) <=> (Len(stack'[running]) = n /\ Owing(stack'[running][n].at)),
         UNCHANGED chip
  PROVE  Served'
  <1> DEFINE n == Len(stack[running])
  <1>1. n \in Nat \ {0} /\ Top = stack[running][n] /\ running \in Procs
    BY FrontOf DEF Types
  <1>2. \A p \in Procs, i \in Slots, k \in Lines : Owed(p, i, k)' <=> Owed(p, i, k)
    <2>1. \A i \in Slots, k \in Lines : i = n => (Owed(running, i, k) <=> Top.irq = k /\ Owing(Top.at))
      BY <1>1 DEF Owed, Owing
    <2> QED BY <2>1, OwedAfter
  <1> QED BY <1>2 DEF Served

LEMMA Ends ==
  ASSUME Types, Types', Quiet, Served, Inside, TopMoves, NEW irq \in Lines, Top.irq = irq, Owing(Top.at),
         LET n == Len(stack[running])
         IN  ~(Len(stack'[running]) = n /\ Owing(stack'[running][n].at)),
         chip' = SendEoi(chip, irq)
  PROVE  Served'
  <1> DEFINE n == Len(stack[running])
  <1>1. n \in Slots /\ Top = stack[running][n] /\ running \in Procs /\ n \in Nat
    <2>1. n \in Nat \ {0} /\ Top = stack[running][n]
      BY FrontOf
    <2>2. n <= MaxDepth
      BY DEF Types
    <2> QED BY <2>1, <2>2, InterruptsAssumption DEF Types, Slots
  <1>2. Owed(running, n, irq)
    BY <1>1 DEF Owed, Owing
  <1>3. \A p \in Procs, i \in Slots, k \in Lines :
          Owed(p, i, k)' <=> Owed(p, i, k) /\ ~(p = running /\ i = n)
    BY OwedAfter
  <1>4. \A p \in Procs, i \in Slots, k \in Lines :
          p = running /\ i = n /\ Owed(p, i, k) => k = irq
    BY <1>1 DEF Owed
  <1>5. \A p \in Procs, i \in Slots : Owed(p, i, irq) => p = running /\ i = n
    BY <1>1, <1>2 DEF Served
  <1>6. \A k \in Lines : \A p, q \in Procs, i, j \in Slots :
          (Owed(p, i, k)' /\ Owed(q, j, k)') => (p = q /\ i = j)
    BY <1>3 DEF Served
  <1>7. \A k \in Lines :
          (\E p \in Procs, i \in Slots : Owed(p, i, k)') <=> k # irq /\ BitOf(k) \in chip[ChipOf(k)].isr
    <2>1. \A p \in Procs, i \in Slots : ~(Owed(p, i, irq)')
      BY <1>3, <1>5
    <2>2. \A k \in Lines : k # irq => \A p \in Procs, i \in Slots : (Owed(p, i, k)' <=> Owed(p, i, k))
      BY <1>3, <1>4
    <2> QED BY <2>1, <2>2 DEF Served
  <1>8. /\ chip'["master"].isr = chip["master"].isr \ {IF irq = 8 THEN 2 ELSE irq}
        /\ chip'["slave"].isr = chip["slave"].isr \ (IF irq = 8 THEN {0} ELSE {})
    BY EoiClears
  <1>9. chip["slave"].isr \subseteq {0} /\ irq \in {0, 1, 8} /\ Lines = {0, 1, 8}
    BY DEF Quiet, Lines
  <1>10. \A k \in Lines : BitOf(k) \in chip'[ChipOf(k)].isr <=> k # irq /\ BitOf(k) \in chip[ChipOf(k)].isr
    <2>1. /\ BitOf(0) = 0 /\ BitOf(1) = 1 /\ BitOf(8) = 0
          /\ ChipOf(0) = "master" /\ ChipOf(1) = "master" /\ ChipOf(8) = "slave"
      BY BitOfs
    <2> QED BY <1>8, <1>9, <2>1
  <1>11. CASCADE_TO_SECONDARY \in chip'["master"].isr <=> chip'["slave"].isr # {}
    BY <1>8, <1>9 DEF Served
  <1>12. \A k \in Lines :
          (\E p \in Procs, i \in Slots : Owed(p, i, k)') <=> BitOf(k) \in chip'[ChipOf(k)].isr
    BY <1>7, <1>10
  <1> QED BY <1>6, <1>11, <1>12 DEF Served

LEMMA Entered ==
  ASSUME IInv, NEW irq \in Lines, Accept(irq)
  PROVE  Types' /\ Served'
  <1> DEFINE n == Len(stack[running])
             f == [irq |-> irq, at |-> "entered"]
  <1>1. f \in Frames /\ Push(f) /\ n < MaxDepth /\ Types /\ running \in Procs /\ n \in Nat
    <2>1. f \in Frames
      BY DEF Frames, Places
    <2>2. Push(f) /\ n < MaxDepth
      BY DEF Accept
    <2>3. Types /\ running \in Procs
      BY DEF IInv, Types
    <2>4. n \in Nat
      BY <2>3 DEF Types
    <2> QED BY <2>1, <2>2, <2>3, <2>4
  <1>2. /\ stack' \in [Procs -> Seq(Frames)] /\ \A p \in Procs : Len(stack'[p]) <= MaxDepth
        /\ \A p \in Procs : p # running => stack'[p] = stack[p]
        /\ Len(stack'[running]) = n + 1
        /\ \A i \in 1 .. n : stack'[running][i] = stack[running][i]
        /\ stack'[running][n + 1] = f
    BY <1>1, Pushed
  <1>3. /\ irq = 8  => /\ chip["slave"].isr = {} /\ chip'["slave"].isr = {0}
                        /\ chip'["master"].isr = chip["master"].isr \cup {2}
        /\ irq # 8 => /\ irq \notin chip["master"].isr /\ chip'["slave"].isr = chip["slave"].isr
                        /\ chip'["master"].isr = chip["master"].isr \cup {irq}
        /\ chip' \in [Chips -> Bytes]
    BY AcceptTakes
  <1>4. Types'
    <2>1. UNCHANGED <<boot, loop, mask, running>> /\ iflag' = FALSE
      BY DEF Accept
    <2> QED BY <1>1, <1>2, <1>3, <2>1 DEF Types
  <1>5. n + 1 \in Slots
    BY <1>1, InterruptsAssumption DEF Slots
  <1>6. \A p \in Procs, i \in Slots, k \in Lines :
          Owed(p, i, k)' <=> Owed(p, i, k) \/ (p = running /\ i = n + 1 /\ k = irq)
    <2> SUFFICES ASSUME NEW p \in Procs, NEW i \in Slots, NEW k \in Lines
                 PROVE  Owed(p, i, k)' <=> Owed(p, i, k) \/ (p = running /\ i = n + 1 /\ k = irq)
      OBVIOUS
    <2>1. i \in Nat \ {0}
      BY InterruptsAssumption DEF Slots
    <2>2. CASE p # running
      <3>1. stack'[p] = stack[p]
        BY <1>2, <2>2
      <3> QED BY <2>2, <3>1 DEF Owed
    <2>3. CASE p = running /\ i <= n
      <3>1. stack'[p][i] = stack[p][i] /\ i <= Len(stack'[p]) /\ i # n + 1
        BY <1>1, <1>2, <2>1, <2>3
      <3> QED BY <2>3, <3>1 DEF Owed
    <2>4. CASE p = running /\ i = n + 1
      BY <1>1, <1>2, <2>4 DEF Owed
    <2>5. CASE p = running /\ i > n + 1
      BY <1>1, <1>2, <2>1, <2>5 DEF Owed
    <2> QED BY <1>1, <2>1, <2>2, <2>3, <2>4, <2>5
  <1>7. BitOf(irq) \notin chip[ChipOf(irq)].isr
    <2>1. irq \in {0, 1, 8}
      BY DEF Lines
    <2> QED BY <1>3, <2>1, BitOfs
  <1>8. \A p \in Procs, i \in Slots : ~Owed(p, i, irq)
    BY <1>7 DEF IInv, Served
  <1>9. \A p \in Procs, i \in Slots, k \in Lines : p = running /\ i = n + 1 => ~Owed(p, i, k)
    BY <1>1 DEF Owed
  <1>10. \A k \in Lines : \A p, q \in Procs, i, j \in Slots :
          (Owed(p, i, k)' /\ Owed(q, j, k)') => (p = q /\ i = j)
    BY <1>6, <1>8 DEF IInv, Served
  <1>11. \A k \in Lines :
          (\E p \in Procs, i \in Slots : Owed(p, i, k)') <=> k = irq \/ BitOf(k) \in chip[ChipOf(k)].isr
    <2>1. \A k \in Lines : k # irq => \A p \in Procs, i \in Slots : (Owed(p, i, k)' <=> Owed(p, i, k))
      BY <1>6
    <2>2. \E p \in Procs, i \in Slots : Owed(p, i, irq)'
      <3>1. PICK p \in Procs, i \in Slots : p = running /\ i = n + 1
        BY <1>1, <1>5
      <3> QED BY <1>6, <3>1
    <2>3. \A k \in Lines : (\E p \in Procs, i \in Slots : Owed(p, i, k)) <=> BitOf(k) \in chip[ChipOf(k)].isr
      BY DEF IInv, Served
    <2> QED BY <2>1, <2>2, <2>3
  <1>12. \A k \in Lines : BitOf(k) \in chip'[ChipOf(k)].isr <=> k = irq \/ BitOf(k) \in chip[ChipOf(k)].isr
    <2>1. /\ BitOf(0) = 0 /\ BitOf(1) = 1 /\ BitOf(8) = 0
          /\ ChipOf(0) = "master" /\ ChipOf(1) = "master" /\ ChipOf(8) = "slave"
      BY BitOfs
    <2>2. irq \in {0, 1, 8} /\ Lines = {0, 1, 8}
      BY DEF Lines
    <2> QED BY <1>3, <2>1, <2>2
  <1>13. CASCADE_TO_SECONDARY \in chip'["master"].isr <=> chip'["slave"].isr # {}
    <2>1. irq \in {0, 1, 8}
      BY DEF Lines
    <2> QED BY <1>3, <2>1 DEF IInv, Served
  <1>14. \A k \in Lines :
          (\E p \in Procs, i \in Slots : Owed(p, i, k)') <=> BitOf(k) \in chip'[ChipOf(k)].isr
    BY <1>11, <1>12
  <1>15. Served'
    BY <1>10, <1>13, <1>14 DEF Served
  <1> QED BY <1>4, <1>15

-----------------------------------------------------------------------------
(* The device, the processor and the handlers preserve the invariant.         *)
LEMMA RaiseKeeps ==
  ASSUME IInv, NEW irq \in Lines, Raise(irq)
  PROVE  IInv'
  <1> DEFINE c == ChipOf(irq)
             S == chip[c].irr \cup {BitOf(irq)}
             d == [chip[c] EXCEPT !.irr = S]
  <1>1. c \in Chips /\ BitOf(irq) \in Bits /\ irq \in {0, 1, 8}
    BY BitOfs DEF Lines
  <1>2. chip[c] \in Bytes /\ S \in SUBSET Bits
    <2>1. chip[c] \in Bytes
      BY <1>1 DEF IInv, Types
    <2> QED BY <1>1, <2>1 DEF Bytes
  <1>3. chip' = [chip EXCEPT ![c] = d] /\ UNCHANGED <<boot, loop, mask, iflag, running, stack>>
    BY DEF Raise
  <1> HIDE DEF S
  <1>4. /\ d \in Bytes /\ d.irr = S /\ d.isr = chip[c].isr /\ d.imr = chip[c].imr
        /\ d.expects = chip[c].expects /\ d.base = chip[c].base /\ d.auto_eoi = chip[c].auto_eoi
    BY <1>2, Registers
  <1> HIDE DEF d
  <1>5. chip'[c] = d /\ chip' \in [Chips -> Bytes] /\ \A e \in Chips : e # c => chip'[e] = chip[e]
    BY <1>1, <1>3, <1>4 DEF IInv, Types
  <1>6. SameSetup /\ \A e \in Chips : chip'[e].isr = chip[e].isr
    BY <1>4, <1>5 DEF SameSetup
  <1>7. boot \in 5 .. 8 /\ Types
    BY DoneBy DEF IInv, Types, Raise
  <1>8. Types'
    BY <1>3, <1>5 DEF IInv, Types
  <1>9. Programming'
    BY <1>3, <1>6, <1>7, SetupStays DEF IInv
  <1>10. Served'
    BY <1>3, <1>6, ServedStays DEF IInv
  <1>11. Quiet'
    <2>1. /\ chip'["master"].irr \subseteq {0, 1} /\ chip'["slave"].irr \subseteq {0}
          /\ chip'["master"].isr = chip["master"].isr /\ chip'["slave"].isr = chip["slave"].isr
      <3>1. "master" \in Chips /\ "slave" \in Chips
        BY DEF Chips
      <3>2. c = "master" => BitOf(irq) \in {0, 1}
        BY <1>1, BitOfs
      <3>3. c = "slave" => BitOf(irq) = 0
        BY <1>1, BitOfs
      <3>4. c = "master" \/ c = "slave"
        BY <1>1 DEF Chips
      <3> QED BY <1>4, <1>5, <1>6, <3>1, <3>2, <3>3, <3>4 DEF IInv, Quiet, S
    <2> QED BY <1>3, <1>7, <2>1 DEF IInv, Quiet
  <1> QED BY <1>8, <1>9, <1>10, <1>11 DEF IInv

LEMMA AcceptKeeps ==
  ASSUME IInv, NEW irq \in Lines, Accept(irq)
  PROVE  IInv'
  <1>1. Types /\ Types' /\ Served'
    BY Entered DEF IInv
  <1>2. /\ boot \in 5 .. 8 /\ SameSetup /\ \A c \in Chips : chip'[c].irr \subseteq chip[c].irr
        /\ chip'["slave"].isr \subseteq {0} /\ chip'["master"].isr \subseteq chip["master"].isr \cup {0, 1, 2}
        /\ "master" \in Chips /\ "slave" \in Chips
    BY <1>1, AcceptTakes DEF Types, Lines, Chips, IInv, Quiet
  <1>3. UNCHANGED <<boot, loop, mask, running>> /\ running \in Procs
    BY <1>1 DEF Accept, Types
  <1> DEFINE n == Len(stack[running])
             f == [irq |-> irq, at |-> "entered"]
  <1>4. /\ \A p \in Procs : p # running => stack'[p] = stack[p]
        /\ Len(stack'[running]) = n + 1
        /\ \A i \in 1 .. n : stack'[running][i] = stack[running][i]
        /\ stack'[running][n + 1] = f
    <2>1. f \in Frames /\ Push(f) /\ n < MaxDepth
      BY DEF Frames, Places, Accept
    <2> QED BY <1>1, <2>1, Pushed
  <1>5. Programming'
    BY <1>1, <1>2, <1>3, SetupStays DEF IInv
  <1>6. Quiet'
    BY <1>2, <1>3, <1>4 DEF IInv, Quiet
  <1> QED BY <1>1, <1>5, <1>6 DEF IInv

(* A handler runs only when entry() has come to init_rtc().                  *)
LEMMA InsideLate ==
  ASSUME IInv, Inside
  PROVE  boot \in 5 .. 8 /\ Types
  BY DEF IInv, Types, Quiet, Inside

LEMMA TopStep ==
  ASSUME IInv, Inside, Pop \/ \E s \in Places : SetTop(s)
  PROVE  /\ TopMoves /\ stack' \in [Procs -> Seq(Frames)]
         /\ \A p \in Procs : Len(stack'[p]) <= MaxDepth
  <1>1. Types /\ Len(stack[running]) \in Nat \ {0}
    BY InsideLate, FrontOf
  <1>2. CASE Pop
    BY <1>1, <1>2, Popped DEF TopMoves
  <1>3. CASE \E s \in Places : SetTop(s)
    BY <1>1, <1>3, TopSet DEF TopMoves
  <1> QED BY <1>2, <1>3

LEMMA QuietStays ==
  ASSUME IInv, Inside, TopMoves, boot' \in boot .. 8, boot' < 6 => running' = running,
         \A c \in Chips : chip'[c].irr = chip[c].irr /\ chip'[c].isr \subseteq chip[c].isr
  PROVE  Quiet'
  <1>1. boot \in 5 .. 8 /\ Types
    BY InsideLate
  <1>2. "master" \in Chips /\ "slave" \in Chips
    BY DEF Chips
  <1>3. boot' < 6 => running' = 1 /\ \A p \in Procs : p # 1 => stack'[p] = << >>
    BY <1>1 DEF IInv, Quiet, TopMoves
  <1> QED BY <1>1, <1>2, <1>3 DEF IInv, Quiet

(* A handler that sends its EOI, and one that does not.                     *)
LEMMA EoiStep ==
  ASSUME IInv, Inside, Pop \/ \E s \in Places \ {"entered", "open"} : SetTop(s),
         NEW irq \in Lines, Top.irq = irq, Owing(Top.at), chip' = SendEoi(chip, irq),
         iflag' \in BOOLEAN, running' \in Procs, UNCHANGED <<loop, mask>>,
         boot' = boot \/ (boot >= 7 /\ boot' = 8), boot' < 6 => running' = running
  PROVE  Types' /\ Programming' /\ Quiet' /\ Served'
  <1>1. Types /\ boot \in 5 .. 8 /\ boot' \in boot .. 8
    BY InsideLate
  <1>2. /\ TopMoves /\ stack' \in [Procs -> Seq(Frames)]
        /\ \A p \in Procs : Len(stack'[p]) <= MaxDepth
    BY TopStep
  <1>3. /\ chip' \in [Chips -> Bytes] /\ SameSetup
        /\ \A c \in Chips : chip'[c].irr = chip[c].irr /\ chip'[c].isr \subseteq chip[c].isr
    BY <1>1, EoiClears DEF Chips
  <1>4. Types'
    BY <1>1, <1>2, <1>3 DEF Types
  <1>5. Programming'
    BY <1>1, <1>3, SetupStays DEF IInv
  <1>6. Quiet'
    BY <1>1, <1>2, <1>3, QuietStays
  <1>7. LET n == Len(stack[running])
        IN  ~(Len(stack'[running]) = n /\ Owing(stack'[running][n].at))
    <2>1. CASE Pop
      BY <1>1, <2>1, Popped, FrontOf
    <2>2. CASE \E s \in Places \ {"entered", "open"} : SetTop(s)
      BY <1>1, <2>2, TopSet DEF Owing
    <2> QED BY <2>1, <2>2
  <1>8. Served'
    BY <1>1, <1>2, <1>4, <1>7, Ends DEF IInv
  <1> QED BY <1>4, <1>5, <1>6, <1>8

LEMMA OtherStep ==
  ASSUME IInv, Inside, TopMoves, stack' \in [Procs -> Seq(Frames)],
         \A p \in Procs : Len(stack'[p]) <= MaxDepth,
         LET n == Len(stack[running])
         IN  Owing(Top.at) <=> (Len(stack'[running]) = n /\ Owing(stack'[running][n].at)),
         iflag' \in BOOLEAN, UNCHANGED <<boot, loop, mask, chip, running>>
  PROVE  Types' /\ Programming' /\ Quiet' /\ Served'
  <1>1. Types /\ boot \in 5 .. 8
    BY InsideLate
  <1>2. Types'
    BY <1>1 DEF Types
  <1>3. Programming'
    BY <1>1, SetupStays DEF IInv, SameSetup
  <1>4. Quiet'
    BY <1>1, QuietStays
  <1>5. Served'
    BY <1>1, GoesOn DEF IInv
  <1> QED BY <1>2, <1>3, <1>4, <1>5

LEMMA HandlersKeep ==
  ASSUME IInv, Handlers
  PROVE  IInv'
  <1>1. ASSUME PitHandler PROVE IInv'
    <2>1. /\ Inside /\ Top.irq = PIT_IRQ /\ Top.at = "entered" /\ PIT_IRQ \in Lines
          /\ chip' = SendEoi(chip, PIT_IRQ) /\ iflag' \in BOOLEAN /\ UNCHANGED <<loop, mask>>
      BY <1>1 DEF PitHandler, In, Lines
    <2>2. boot \in 5 .. 8 /\ Types /\ Len(stack[running]) \in Nat \ {0} /\ Top = stack[running][Len(stack[running])]
      BY <2>1, InsideLate, FrontOf
    <2>3. /\ (Done("terminals") <=> boot >= 6) /\ (Done("files") <=> boot >= 7)
      BY <2>2, DoneBy
    <2>4. boot' = boot \/ (boot >= 7 /\ boot' = 8)
      BY <1>1, <2>3, PhaseOf DEF PitHandler
    <2>5. boot >= 6 => SetTop("switched") /\ running' = NextProc
      BY <1>1, <2>3 DEF PitHandler
    <2>6. boot < 6 => Pop /\ running' = running
      BY <1>1, <2>2, <2>3 DEF PitHandler
    <2>7. running' \in Procs
      <3>1. running \in Procs
        BY <2>2 DEF Types
      <3>2. NextProc \in Procs
        BY <3>1, BootFirst DEF NextProc
      <3> QED BY <2>2, <2>5, <2>6, <3>1, <3>2
    <2>8. "switched" \in Places \ {"entered", "open"}
      BY DEF Places
    <2>9. Pop \/ \E s \in Places \ {"entered", "open"} : SetTop(s)
      BY <2>2, <2>5, <2>6, <2>8
    <2>10. boot' < 6 => running' = running
      BY <2>2, <2>4, <2>6
    <2>11. Types' /\ Programming' /\ Quiet' /\ Served'
      BY <2>1, <2>4, <2>7, <2>9, <2>10, EoiStep DEF Owing
    <2> QED BY <2>11 DEF IInv
  <1>2. ASSUME PitReturn \/ Return PROVE IInv'
    <2>1. /\ Inside /\ Pop /\ ~Owing(Top.at) /\ iflag' \in BOOLEAN
          /\ UNCHANGED <<boot, loop, mask, chip, running>>
      <3>1. Inside /\ Pop /\ iflag' = TRUE /\ UNCHANGED <<boot, loop, mask, chip, running>>
        BY <1>2 DEF PitReturn, Return, In
      <3>2. Top.at = "switched" \/ Top.at = "acknowledged"
        BY <1>2 DEF PitReturn, Return, In
      <3>3. ~Owing(Top.at)
        BY <3>2 DEF Owing
      <3> QED BY <3>1, <3>3
    <2>2. /\ TopMoves /\ stack' \in [Procs -> Seq(Frames)] /\ \A p \in Procs : Len(stack'[p]) <= MaxDepth
      BY <2>1, TopStep
    <2>3. Len(stack'[running]) # Len(stack[running])
      BY <2>1, InsideLate, Popped, FrontOf
    <2>4. Types' /\ Programming' /\ Quiet' /\ Served'
      BY <2>1, <2>2, <2>3, OtherStep
    <2> QED BY <2>4 DEF IInv
  <1>3. ASSUME KeybOpen PROVE IInv'
    <2>1. /\ Inside /\ Top.irq = 1 /\ Top.at = "entered" /\ SetTop("open") /\ "open" \in Places
          /\ iflag' \in BOOLEAN /\ UNCHANGED <<boot, loop, mask, chip, running>>
      BY <1>3 DEF KeybOpen, In, Places
    <2>2. /\ TopMoves /\ stack' \in [Procs -> Seq(Frames)] /\ \A p \in Procs : Len(stack'[p]) <= MaxDepth
      BY <2>1, TopStep
    <2>3. LET n == Len(stack[running]) IN Len(stack'[running]) = n /\ stack'[running][n].at = "open"
      BY <2>1, InsideLate, TopSet
    <2>4. Types' /\ Programming' /\ Quiet' /\ Served'
      BY <2>1, <2>2, <2>3, OtherStep DEF Owing
    <2> QED BY <2>4 DEF IInv
  <1>4. ASSUME KeybEnd \/ RtcHandler PROVE IInv'
    <2>1. PICK irq \in {1, 8} : /\ Inside /\ Top.irq = irq /\ Owing(Top.at) /\ SetTop("acknowledged")
                               /\ chip' = SendEoi(chip, irq) /\ iflag' \in BOOLEAN
                               /\ UNCHANGED <<boot, loop, mask, running>>
      <3>1. Types
        BY DEF IInv
      <3>2. CASE KeybEnd
        BY <3>1, <3>2 DEF KeybEnd, In, Owing, Types
      <3>3. CASE RtcHandler
        BY <3>3 DEF RtcHandler, In, Owing
      <3> QED BY <1>4, <3>2, <3>3
    <2>2. irq \in Lines /\ "acknowledged" \in Places \ {"entered", "open"}
      BY DEF Lines, Places
    <2>3. running \in Procs
      BY DEF IInv, Types
    <2>4. Types' /\ Programming' /\ Quiet' /\ Served'
      BY <2>1, <2>2, <2>3, EoiStep
    <2> QED BY <2>4 DEF IInv
  <1> QED BY <1>1, <1>2, <1>3, <1>4 DEF Handlers

-----------------------------------------------------------------------------
(* The steps of the boot.                                                   *)
LEMMA BootRest ==
  ASSUME IInv, UNCHANGED <<running, stack>>, running = 1, stack[1] = << >>,
         boot' = boot \/ boot' = boot + 1, boot' \in 0 .. 8, boot' < 5 => ~iflag',
         \A c \in Chips : chip'[c].irr = chip[c].irr /\ chip'[c].isr = chip[c].isr
  PROVE  Quiet' /\ Served'
  <1>1. boot \in 0 .. 8 /\ Types
    BY DEF IInv, Types
  <1>2. Served'
    BY <1>1, ServedStays DEF IInv
  <1>3. "master" \in Chips /\ "slave" \in Chips
    BY DEF Chips
  <1>4. Quiet'
    BY <1>1, <1>3 DEF IInv, Quiet
  <1> QED BY <1>2, <1>4

LEMMA BeginsAt ==
  ASSUME IInv
  PROVE  \A phase : Begins(phase) => /\ running = 1 /\ stack[1] = << >> /\ boot \in 0 .. 7
                                     /\ Phases[boot + 1] = phase
  BY PhaseOf DEF Begins, IInv, Types

LEMMA PicProgramKeeps ==
  ASSUME IInv, PicProgram
  PROVE  IInv'
  <1>1. /\ running = 1 /\ stack[1] = << >> /\ boot = 1 /\ loop = -1 /\ loop' = 0
        /\ SetPic(Programmed(Pic)) /\ UNCHANGED <<boot, iflag, running, stack>>
    BY BeginsAt, PhaseOf DEF PicProgram
  <1>2. mask = AtReset.mask /\ chip = AtReset.chip
    BY <1>1 DEF IInv, Programming
  <1>3. /\ mask' = mask /\ chip' \in [Chips -> Bytes]
        /\ chip'["master"].expects = "ICW4" /\ chip'["master"].base = 32
        /\ ~chip'["master"].auto_eoi
        /\ chip'["slave"].expects = "OCW1" /\ chip'["slave"].base = 40
        /\ ~chip'["slave"].auto_eoi /\ chip'["slave"].imr = {}
        /\ \A c \in Chips : chip'[c].irr = {} /\ chip'[c].isr = {}
    BY <1>1, <1>2, ProgrammedChips
  <1>4. Types'
    BY <1>1, <1>3 DEF IInv, Types
  <1>5. \A c \in Chips : chip[c].irr = {} /\ chip[c].isr = {}
    BY <1>2, PowerOnByte DEF AtReset
  <1>6. ~iflag
    BY <1>1 DEF IInv, Quiet
  <1>7. Quiet' /\ Served'
    <2>1. /\ UNCHANGED <<running, stack>> /\ boot' = boot /\ boot' \in 0 .. 8 /\ iflag' = iflag
      BY <1>1
    <2>2. \A c \in Chips : chip'[c].irr = chip[c].irr /\ chip'[c].isr = chip[c].isr
      BY <1>3, <1>5
    <2> QED BY <1>1, <1>6, <2>1, <2>2, BootRest
  <1>8. Programming'
    <2>1. mask = [c \in Chips |-> {}] /\ "slave" \in Chips /\ "master" # "slave"
      BY <1>2 DEF AtReset, Chips
    <2>2. MaskedBy(0) = [c \in Chips |-> {}]
      BY DEF MaskedBy, Bits
    <2>3. Complete("slave")'
      BY <1>3, <2>1 DEF Complete
    <2> QED BY <1>1, <1>3, <2>1, <2>2, <2>3 DEF Programming
  <1> QED BY <1>4, <1>7, <1>8 DEF IInv

(* A byte for the masks, written to a controller that expects one.            *)
LEMMA Written ==
  ASSUME Types, NEW c \in Chips, NEW bits \in SUBSET Bits, SetPic(WriteMask(Pic, c, bits)),
         chip[c].expects = "OCW1"
  PROVE  /\ mask' = [mask EXCEPT ![c] = bits] /\ mask' \in [Chips -> SUBSET Bits]
         /\ mask'[c] = bits /\ chip' \in [Chips -> Bytes]
         /\ chip'[c].imr = bits /\ chip'[c].expects = "OCW1"
         /\ chip'[c].base = chip[c].base /\ chip'[c].auto_eoi = chip[c].auto_eoi
         /\ \A d \in Chips : chip'[d].irr = chip[d].irr /\ chip'[d].isr = chip[d].isr
         /\ \A d \in Chips : d # c => chip'[d] = chip[d] /\ mask'[d] = mask[d]
  <1>1. chip[c] \in Bytes
    BY DEF Types
  <1> DEFINE d == Data(chip[c], bits)
  <1>2. /\ d \in Bytes /\ d.imr = bits /\ d.irr = chip[c].irr /\ d.isr = chip[c].isr
        /\ d.expects = "OCW1" /\ d.base = chip[c].base /\ d.auto_eoi = chip[c].auto_eoi
    BY <1>1, MaskByte
  <1>3. /\ mask' = [mask EXCEPT ![c] = bits] /\ mask' \in [Chips -> SUBSET Bits]
        /\ chip' \in [Chips -> Bytes]
        /\ chip'[c] = d /\ \A e \in Chips : e # c => chip'[e] = chip[e]
    BY <1>2, MaskWritten
  <1> HIDE DEF d
  <1>4. mask'[c] = bits /\ \A e \in Chips : e # c => mask'[e] = mask[e]
    BY <1>3 DEF Types
  <1>5. \A e \in Chips : chip'[e].irr = chip[e].irr /\ chip'[e].isr = chip[e].isr
    BY <1>2, <1>3
  <1> QED BY <1>2, <1>3, <1>4, <1>5

(* The mask that round n of the loop writes.                                *)
LoopBits(n) == IF n = CASCADE_TO_SECONDARY THEN mask["master"] \ {n}
               ELSE mask[ChipOf(n)] \cup {BitOf(n)}

LEMMA LoopMask ==
  ASSUME NEW n \in 0 .. 15, mask = MaskedBy(n)
  PROVE  /\ LoopBits(n) \in SUBSET Bits
         /\ [mask EXCEPT ![ChipOf(n)] = LoopBits(n)] = MaskedBy(n + 1)
  <1>1. ChipOf(n) \in Chips /\ "master" \in Chips /\ "slave" \in Chips /\ BitOf(n) \in Bits
    BY BitOfs DEF Chips
  <1>2. LoopBits(n) \in SUBSET Bits
    BY <1>1 DEF LoopBits, MaskedBy
  <1>3. LoopBits(n) = MaskedBy(n + 1)[ChipOf(n)]
    <2>1. CASE n = 2
      <3>1. ChipOf(n) = "master"
        BY <2>1, BitOfs
      <3> QED BY <1>1, <2>1, <3>1 DEF LoopBits, MaskedBy, Bits
    <2>2. CASE n < 8 /\ n # 2
      <3>1. ChipOf(n) = "master" /\ BitOf(n) = n
        BY <2>2, BitOfs
      <3> QED BY <1>1, <2>2, <3>1 DEF LoopBits, MaskedBy, Bits
    <2>3. CASE n >= 8
      <3>1. ChipOf(n) = "slave" /\ BitOf(n) = n - 8
        BY <2>3, BitOfs
      <3> QED BY <1>1, <2>3, <3>1 DEF LoopBits, MaskedBy, Bits
    <2> QED BY <2>1, <2>2, <2>3
  <1>4. \A d \in Chips : d # ChipOf(n) => mask[d] = MaskedBy(n + 1)[d]
    <2>1. CASE n < 8
      <3>1. ChipOf(n) = "master"
        BY <2>1, BitOfs
      <3>2. mask["slave"] = MaskedBy(n + 1)["slave"]
        BY <1>1, <2>1 DEF MaskedBy, Bits
      <3> QED BY <3>1, <3>2 DEF Chips
    <2>2. CASE n >= 8
      <3>1. ChipOf(n) = "slave"
        BY <2>2, BitOfs
      <3>2. mask["master"] = MaskedBy(n + 1)["master"]
        BY <1>1, <2>2 DEF MaskedBy, Bits
      <3> QED BY <3>1, <3>2 DEF Chips
    <2> QED BY <2>1, <2>2
  <1>5. DOMAIN mask = Chips /\ mask = [c \in Chips |-> mask[c]]
    BY DEF MaskedBy
  <1>6. MaskedBy(n + 1) = [c \in Chips |-> MaskedBy(n + 1)[c]]
    BY DEF MaskedBy
  <1> QED BY <1>1, <1>2, <1>3, <1>4, <1>5, <1>6

LEMMA PicLoopKeeps ==
  ASSUME IInv, PicLoop
  PROVE  IInv'
  <1> DEFINE c == ChipOf(loop)
             bits == LoopBits(loop)
  <1>1. /\ running = 1 /\ stack[1] = << >> /\ boot = 1 /\ loop \in 0 .. 15 /\ loop' = loop + 1
        /\ UNCHANGED <<boot, iflag, running, stack>>
    BY BeginsAt, PhaseOf DEF PicLoop
  <1>2. SetPic(WriteMask(Pic, c, bits))
    <2>1. CASE loop = 2
      <3>1. SetPic(EnableIrq(Pic, loop)) /\ c = "master" /\ BitOf(loop) = 2
        BY <1>1, <2>1, BitOfs DEF PicLoop
      <3>2. bits = mask["master"] \ {2}
        BY <2>1 DEF LoopBits
      <3> QED BY <2>1, <3>1, <3>2 DEF EnableIrq, Pic
    <2>2. CASE loop # 2
      <3>1. SetPic(DisableIrq(Pic, loop))
        BY <2>2 DEF PicLoop
      <3>2. bits = mask[c] \cup {BitOf(loop)}
        BY <2>2 DEF LoopBits
      <3> QED BY <3>1, <3>2 DEF DisableIrq, Pic
    <2> QED BY <2>1, <2>2
  <1>3. /\ mask = MaskedBy(loop) /\ Types /\ c \in Chips /\ "master" \in Chips /\ "slave" \in Chips
        /\ (loop < 8 => c = "master") /\ (loop >= 8 => c = "slave")
    BY <1>1, BitOfs DEF IInv, Programming, Chips
  <1>4. bits \in SUBSET Bits /\ [mask EXCEPT ![c] = bits] = MaskedBy(loop + 1)
    BY <1>1, <1>3, LoopMask
  <1>5. /\ (loop >= 2 => Complete("master")) /\ Complete("slave")
        /\ (loop < 2 => /\ chip["master"].expects = (IF loop = 0 THEN "ICW4" ELSE "OCW1")
                        /\ chip["master"].base = 32 /\ ~chip["master"].auto_eoi)
    BY <1>1 DEF IInv, Programming
  <1>6. ~iflag'
    BY <1>1 DEF IInv, Quiet
  <1> HIDE DEF bits
  <1>7. CASE loop = 0
    <2> DEFINE d == Data(chip["master"], bits)
    <2>1. c = "master" /\ 1 \notin bits
      BY <1>1, <1>3, <1>7, BitOfs DEF bits, LoopBits, MaskedBy
    <2>2. chip["master"] \in Bytes
      BY <1>3 DEF Types
    <2>3. /\ d \in Bytes /\ d.irr = chip["master"].irr /\ d.isr = chip["master"].isr
          /\ d.expects = "OCW1" /\ d.base = 32 /\ ~d.auto_eoi
      BY <1>4, <1>5, <1>7, <2>1, <2>2, Icw4Byte
    <2>4. /\ mask' = MaskedBy(1) /\ mask' \in [Chips -> SUBSET Bits] /\ chip' \in [Chips -> Bytes]
          /\ chip'["master"] = d /\ chip'["slave"] = chip["slave"]
      BY <1>2, <1>3, <1>4, <1>7, <2>1, <2>3, MaskWritten
    <2>5. mask'["slave"] = mask["slave"]
      <3>1. MaskedBy(0)["slave"] = {} /\ MaskedBy(1)["slave"] = {}
        BY <1>3 DEF MaskedBy, Bits
      <3> QED BY <1>3, <1>7, <2>4, <3>1
    <2> HIDE DEF d
    <2>6. Types'
      BY <1>1, <1>3, <2>4 DEF Types
    <2>7. Complete("slave")'
      BY <1>5, <2>4, <2>5 DEF Complete
    <2>8. Programming'
      BY <1>1, <1>7, <2>3, <2>4, <2>7 DEF Programming
    <2>9. \A e \in Chips : chip'[e].irr = chip[e].irr /\ chip'[e].isr = chip[e].isr
      BY <2>3, <2>4 DEF Chips
    <2>10. Quiet' /\ Served'
      BY <1>1, <1>6, <2>9, BootRest
    <2> QED BY <2>6, <2>8, <2>10 DEF IInv
  <1>8. CASE loop # 0
    <2>1. chip[c].expects = "OCW1"
      BY <1>1, <1>3, <1>5, <1>8 DEF Complete
    <2>2. /\ mask' = MaskedBy(loop') /\ mask' \in [Chips -> SUBSET Bits]
          /\ mask'[c] = bits /\ chip' \in [Chips -> Bytes]
          /\ chip'[c].imr = bits /\ chip'[c].expects = "OCW1"
          /\ chip'[c].base = chip[c].base /\ chip'[c].auto_eoi = chip[c].auto_eoi
          /\ \A d \in Chips : chip'[d].irr = chip[d].irr /\ chip'[d].isr = chip[d].isr
          /\ \A d \in Chips : d # c => chip'[d] = chip[d] /\ mask'[d] = mask[d]
      BY <1>1, <1>2, <1>3, <1>4, <2>1, Written
    <2>3. Types'
      BY <1>1, <1>3, <2>2 DEF Types
    <2>4. Complete("slave")'
      BY <1>3, <1>5, <2>2 DEF Complete
    <2>5. Complete("master")'
      <3>1. CASE loop = 1
        BY <1>3, <1>5, <2>2, <3>1 DEF Complete
      <3>2. CASE loop >= 2
        BY <1>3, <1>5, <2>2, <3>2 DEF Complete
      <3> QED BY <1>1, <1>8, <3>1, <3>2
    <2>6. Programming'
      BY <1>1, <1>8, <2>2, <2>4, <2>5 DEF Programming
    <2>7. Quiet' /\ Served'
      BY <1>1, <1>6, <2>2, BootRest
    <2> QED BY <2>3, <2>6, <2>7 DEF IInv
  <1> QED BY <1>7, <1>8

LEMMA BootPicKeeps ==
  ASSUME IInv, BootPic
  PROVE  IInv'
  <1>1. /\ running = 1 /\ stack[1] = << >> /\ boot = 1 /\ boot' = 2 /\ loop = 16
        /\ UNCHANGED <<running, stack>> /\ UNCHANGED <<loop, mask, chip, iflag>>
    BY BeginsAt, PhaseOf DEF BootPic, BootStep
  <1>2. Types'
    BY <1>1 DEF IInv, Types
  <1>3. ~iflag'
    BY <1>1 DEF IInv, Quiet
  <1>4. Quiet' /\ Served'
    BY <1>1, <1>3, BootRest
  <1>5. mask = MaskedBy(16) /\ Complete("master") /\ Complete("slave")
    BY <1>1 DEF IInv, Programming
  <1>6. MaskedBy(16) = MaskedAt(2)
    BY DEF MaskedBy, MaskedAt, Bits
  <1>7. Complete("master")' /\ Complete("slave")'
    BY <1>1, <1>5 DEF Complete
  <1>8. Programming'
    BY <1>1, <1>5, <1>6, <1>7 DEF Programming
  <1> QED BY <1>2, <1>4, <1>8 DEF IInv

(* enable_irq() by the drivers, in their phases.                            *)
LEMMA EnableKeeps ==
  ASSUME IInv, NEW irq \in Lines, running = 1, stack[1] = << >>,
         boot = (IF irq = 0 THEN 2 ELSE IF irq = 1 THEN 3 ELSE 4), boot' = boot + 1,
         SetPic(EnableIrq(Pic, irq)), iflag' \in BOOLEAN, boot' < 5 => ~iflag',
         UNCHANGED <<loop, running, stack>>
  PROVE  IInv'
  <1> DEFINE c == ChipOf(irq)
             bits == mask[c] \ {BitOf(irq)}
  <1>1. irq \in {0, 1, 8} /\ c \in Chips /\ "master" \in Chips /\ "slave" \in Chips /\ Types
    BY BitOfs DEF Lines, Chips, IInv
  <1>2. boot \in {2, 3, 4} /\ boot' \in 0 .. 8
    BY <1>1
  <1>3. /\ loop = 16 /\ mask = MaskedAt(boot) /\ Complete("master") /\ Complete("slave")
    BY <1>2 DEF IInv, Programming
  <1>4. SetPic(WriteMask(Pic, c, bits)) /\ bits \in SUBSET Bits
    <2>1. EnableIrq(Pic, irq) = WriteMask(Pic, c, bits)
      BY DEF EnableIrq, Pic
    <2>2. bits \in SUBSET Bits
      BY <1>1 DEF Types
    <2> QED BY <2>1, <2>2
  <1>5. chip[c].expects = "OCW1"
    BY <1>1, <1>3 DEF Complete, Chips
  <1> HIDE DEF bits
  <1>6. /\ mask' = [mask EXCEPT ![c] = bits] /\ mask' \in [Chips -> SUBSET Bits]
        /\ mask'[c] = bits /\ chip' \in [Chips -> Bytes]
        /\ chip'[c].imr = bits /\ chip'[c].expects = "OCW1"
        /\ chip'[c].base = chip[c].base /\ chip'[c].auto_eoi = chip[c].auto_eoi
        /\ \A d \in Chips : chip'[d].irr = chip[d].irr /\ chip'[d].isr = chip[d].isr
        /\ \A d \in Chips : d # c => chip'[d] = chip[d] /\ mask'[d] = mask[d]
    BY <1>1, <1>4, <1>5, Written
  <1>7. Types'
    BY <1>1, <1>2, <1>6 DEF Types
  <1>8. Complete("master")' /\ Complete("slave")'
    BY <1>1, <1>3, <1>6 DEF Complete
  <1>9. mask' = MaskedAt(boot')
    <2>1. mask = [d \in Chips |-> MaskedAt(boot)[d]] /\ MaskedAt(boot') = [d \in Chips |-> MaskedAt(boot')[d]]
      BY <1>3 DEF MaskedAt
    <2>2. mask' = [d \in Chips |-> mask'[d]]
      BY <1>6
    <2>3. bits = MaskedAt(boot')[c]
      <3>1. CASE irq = 0
        <4>1. c = "master" /\ BitOf(irq) = 0 /\ boot = 2 /\ boot' = 3
          BY <3>1, BitOfs
        <4> QED BY <1>1, <1>3, <4>1 DEF MaskedAt, bits, Bits
      <3>2. CASE irq = 1
        <4>1. c = "master" /\ BitOf(irq) = 1 /\ boot = 3 /\ boot' = 4
          BY <3>2, BitOfs
        <4> QED BY <1>1, <1>3, <4>1 DEF MaskedAt, bits, Bits
      <3>3. CASE irq = 8
        <4>1. c = "slave" /\ BitOf(irq) = 0 /\ boot = 4 /\ boot' = 5
          BY <3>3, BitOfs
        <4> QED BY <1>1, <1>3, <4>1 DEF MaskedAt, bits, Bits
      <3> QED BY <1>1, <3>1, <3>2, <3>3
    <2>4. \A d \in Chips : d # c => mask[d] = MaskedAt(boot')[d]
      <3>1. CASE irq = 0 \/ irq = 1
        <4>1. c = "master" /\ boot < 4 /\ boot' < 5
          BY <3>1, BitOfs
        <4>2. mask["slave"] = MaskedAt(boot')["slave"]
          BY <1>1, <1>2, <1>3, <4>1 DEF MaskedAt, Bits
        <4> QED BY <4>1, <4>2 DEF Chips
      <3>2. CASE irq = 8
        <4>1. c = "slave" /\ boot = 4 /\ boot' = 5
          BY <3>2, BitOfs
        <4>2. mask["master"] = MaskedAt(boot')["master"]
          BY <1>1, <1>3, <4>1 DEF MaskedAt, Bits
        <4> QED BY <4>1, <4>2 DEF Chips
      <3> QED BY <1>1, <3>1, <3>2
    <2>5. \A d \in Chips : mask'[d] = MaskedAt(boot')[d]
      BY <1>6, <2>3, <2>4
    <2> QED BY <2>1, <2>2, <2>5, Zenon
  <1>10. Programming'
    BY <1>2, <1>3, <1>8, <1>9 DEF Programming
  <1>11. Quiet' /\ Served'
    <2>1. UNCHANGED <<running, stack>>
      OBVIOUS
    <2> QED BY <1>2, <1>6, <2>1, BootRest
  <1> QED BY <1>7, <1>10, <1>11 DEF IInv

(* The phases without a write to the controllers.                           *)
LEMMA PhaseKeeps ==
  ASSUME IInv, NEW phase \in {"idt", "terminals", "files", "on"}, BootStep(phase),
         UNCHANGED <<mask, chip>>, iflag' = iflag \/ (phase = "on" /\ iflag' = TRUE)
  PROVE  IInv'
  <1>1. /\ running = 1 /\ stack[1] = << >> /\ boot' = boot + 1
        /\ boot = (CASE phase = "idt" -> 0 [] phase = "terminals" -> 5 [] phase = "files" -> 6
                     [] phase = "on" -> 7)
        /\ UNCHANGED <<running, stack>> /\ UNCHANGED <<loop, mask, chip>>
    BY BeginsAt, PhaseOf DEF BootStep
  <1>2. boot \in {0, 5, 6, 7}
    BY <1>1
  <1>3. Types'
    <2>1. boot' \in 0 .. 8
      BY <1>1, <1>2
    <2>2. iflag' \in BOOLEAN
      <3>1. CASE iflag' = iflag
        BY <3>1 DEF IInv, Types
      <3>2. CASE iflag' = TRUE
        BY <3>2
      <3> QED BY <3>1, <3>2
    <2> QED BY <1>1, <2>1, <2>2 DEF IInv, Types
  <1>4. boot' < 5 => ~iflag'
    BY <1>1 DEF IInv, Quiet
  <1>5. Quiet' /\ Served'
    BY <1>1, <1>2, <1>4, BootRest
  <1>6. Programming'
    <2>1. CASE boot = 0
      BY <1>1, <2>1 DEF IInv, Programming, AtReset, Types
    <2>2. CASE boot # 0
      <3>1. SameSetup /\ boot >= 5 /\ boot' \in 5 .. 8 /\ UNCHANGED <<loop, mask>>
        BY <1>1, <1>2, <2>2 DEF SameSetup
      <3> QED BY <3>1, SetupStays DEF IInv
    <2> QED BY <2>1, <2>2
  <1> QED BY <1>3, <1>5, <1>6 DEF IInv

LEMMA BootKeeps ==
  ASSUME IInv, BootNext
  PROVE  IInv'
  <1>1. CASE BootIdt \/ BootTerminals \/ BootFiles \/ BootOn
    BY <1>1, PhaseKeeps DEF BootIdt, BootTerminals, BootFiles, BootOn
  <1>2. CASE BootPit
    <2>1. /\ running = 1 /\ stack[1] = << >> /\ boot = 2 /\ boot' = 3 /\ UNCHANGED <<loop, running, stack>>
          /\ SetPic(EnableIrq(Pic, 0)) /\ iflag' = iflag
      BY <1>2, BeginsAt, PhaseOf DEF BootPit, BootStep
    <2>2. ~iflag' /\ 0 \in Lines
      BY <2>1 DEF IInv, Quiet, Lines
    <2> QED BY <2>1, <2>2, EnableKeeps DEF IInv, Types
  <1>3. CASE BootKeyb
    <2>1. /\ running = 1 /\ stack[1] = << >> /\ boot = 3 /\ boot' = 4 /\ UNCHANGED <<loop, running, stack>>
          /\ SetPic(EnableIrq(Pic, 1)) /\ iflag' = iflag
      BY <1>3, BeginsAt, PhaseOf DEF BootKeyb, BootStep
    <2>2. ~iflag' /\ 1 \in Lines
      BY <2>1 DEF IInv, Quiet, Lines
    <2> QED BY <2>1, <2>2, EnableKeeps DEF IInv, Types
  <1>4. CASE BootRtc
    <2>1. /\ running = 1 /\ stack[1] = << >> /\ boot = 4 /\ boot' = 5 /\ UNCHANGED <<loop, running, stack>>
          /\ SetPic(EnableIrq(Pic, 8)) /\ iflag' = TRUE
      BY <1>4, BeginsAt, PhaseOf DEF BootRtc, BootStep
    <2>2. 8 \in Lines
      BY DEF Lines
    <2> QED BY <2>1, <2>2, EnableKeeps
  <1> QED BY <1>1, <1>2, <1>3, <1>4, PicProgramKeeps, PicLoopKeeps, BootPicKeeps DEF BootNext

-----------------------------------------------------------------------------
(* The steps of the program preserve the invariant.                         *)
LEMMA Inductive == IInv /\ [Next]_vars => IInv'
  <1> SUFFICES ASSUME IInv, [Next]_vars PROVE IInv'
    OBVIOUS
  <1>1. CASE BootNext
    BY <1>1, BootKeeps
  <1>2. CASE Handlers
    BY <1>2, HandlersKeep
  <1>3. ASSUME Cli \/ Sti PROVE IInv'
    <2>1. ~Inside /\ boot = 8 /\ iflag' \in BOOLEAN /\ UNCHANGED <<boot, loop, mask, chip, running, stack>>
      BY <1>3, PhaseOf DEF Cli, Sti
    <2>2. Types'
      BY <2>1 DEF IInv, Types
    <2>3. Programming'
      BY <2>1 DEF IInv, Programming, Complete
    <2>4. Quiet'
      BY <2>1 DEF IInv, Quiet
    <2>5. Served'
      BY <2>1, ServedStays DEF IInv
    <2> QED BY <2>2, <2>3, <2>4, <2>5 DEF IInv
  <1>4. CASE \E irq \in Lines : Raise(irq) \/ Accept(irq)
    BY <1>4, RaiseKeeps, AcceptKeeps
  <1>5. CASE UNCHANGED vars
    <2>1. UNCHANGED <<boot, loop, mask, chip, iflag, running, stack>>
      BY <1>5 DEF vars
    <2>2. Types' /\ Programming' /\ Quiet'
      BY <2>1 DEF IInv, Types, Programming, Complete, Quiet
    <2>3. Served'
      BY <2>1, ServedStays DEF IInv
    <2> QED BY <2>2, <2>3 DEF IInv
  <1> QED BY <1>1, <1>2, <1>3, <1>4, <1>5 DEF Next

LEMMA Invariant == Spec => []IInv
  <1>1. Init => IInv
    BY Initial
  <1>2. IInv /\ [Next]_vars => IInv'
    BY Inductive
  <1> QED BY <1>1, <1>2, PTL DEF Spec

(* The variables of i8259.c and of entry() keep their types: no byte but the  *)
(* ICWs and masks is sent, and scheduler() stays in the ring of processes.  *)
THEOREM InterruptsTypeCorrect == Spec => []TypeOK
  <1>1. IInv => TypeOK
    <2> SUFFICES ASSUME IInv PROVE TypeOK
      OBVIOUS
    <2>1. \A p \in Procs : Len(stack[p]) <= MaxDepth /\ Range(stack[p]) \subseteq [irq : Lines, at : Places]
      <3> SUFFICES ASSUME NEW p \in Procs
                   PROVE  Len(stack[p]) <= MaxDepth /\ Range(stack[p]) \subseteq [irq : Lines, at : Places]
        OBVIOUS
      <3>1. stack[p] \in Seq(Frames) /\ Len(stack[p]) <= MaxDepth
        BY DEF IInv, Types
      <3>2. \A i \in DOMAIN stack[p] : stack[p][i] \in Frames
        BY <3>1
      <3> QED BY <3>1, <3>2 DEF Range, Frames
    <2> QED BY <2>1, PhaseOf DEF IInv, Types, TypeOK, Bytes, Bits
  <1> QED BY <1>1, Invariant, PTL

(* send_eoi() acknowledges what was taken: a line is in service exactly while *)
(* one handler, on whatever stack, has not sent its EOI.                    *)
THEOREM OneAtATimeCorrect == Spec => []OneAtATime
  <1>1. IInv => OneAtATime
    <2> SUFFICES ASSUME IInv PROVE OneAtATime
      OBVIOUS
    <2>1. ASSUME NEW irq \in Lines
          PROVE  Cardinality(NotAcknowledged(irq)) = IF BitOf(irq) \in chip[ChipOf(irq)].isr THEN 1 ELSE 0
      <3>1. NotAcknowledged(irq) = {f \in Procs \X Slots : Owed(f[1], f[2], irq)}
        BY DEF NotAcknowledged, FramesOf, Owed, Slots
      <3>2. \A f \in NotAcknowledged(irq) : f[1] \in Procs /\ f[2] \in Slots /\ f = <<f[1], f[2]>> /\ Owed(f[1], f[2], irq)
        BY <3>1
      <3>3. CASE BitOf(irq) \in chip[ChipOf(irq)].isr
        <4>1. PICK p \in Procs, i \in Slots : Owed(p, i, irq)
          BY <3>3 DEF IInv, Served
        <4>2. <<p, i>> \in NotAcknowledged(irq)
          BY <3>1, <4>1
        <4>3. \A f \in NotAcknowledged(irq) : f = <<p, i>>
          BY <3>2, <4>1 DEF IInv, Served
        <4>4. NotAcknowledged(irq) = {<<p, i>>}
          BY <4>2, <4>3
        <4> QED BY <3>3, <4>4, FS_Singleton
      <3>4. CASE BitOf(irq) \notin chip[ChipOf(irq)].isr
        <4>1. NotAcknowledged(irq) = {}
          BY <3>2, <3>4 DEF IInv, Served
        <4> QED BY <3>4, <4>1, FS_EmptySet
      <3> QED BY <3>3, <3>4
    <2> QED BY <2>1 DEF IInv, Served, OneAtATime
  <1> QED BY <1>1, Invariant, PTL

(* What an interrupt finds whenever the boot has interrupts on: controllers   *)
(* that are programmed to the end, and the masks and vectors of the drivers. *)
LEMMA ControllersAreReady == IInv => ControllersReady
  <1> SUFFICES ASSUME IInv, iflag, NEW c \in Chips
               PROVE  /\ chip[c].expects = "OCW1" /\ ~chip[c].auto_eoi /\ chip[c].imr = mask[c]
                      /\ \A b \in (0 .. 7) \ mask[c] :
                           \/ c = "master" /\ b = CASCADE_TO_SECONDARY
                           \/ \E irq \in Lines : Leads(chip[c].base + b, irq) /\ ChipOf(irq) = c /\ BitOf(irq) = b
    BY DEF ControllersReady
  <1>1. boot \in 5 .. 8
    BY DEF IInv, Types, Quiet
  <1>2. Complete("master") /\ Complete("slave") /\ mask = MaskedAt(boot)
    BY <1>1 DEF IInv, Programming
  <1>3. Complete(c)
    BY <1>2 DEF Chips
  <1>4. ASSUME NEW b \in (0 .. 7) \ mask[c]
        PROVE  \/ c = "master" /\ b = CASCADE_TO_SECONDARY
               \/ \E irq \in Lines : Leads(chip[c].base + b, irq) /\ ChipOf(irq) = c /\ BitOf(irq) = b
    <2>1. /\ BitOf(0) = 0 /\ BitOf(1) = 1 /\ BitOf(8) = 0
          /\ ChipOf(0) = "master" /\ ChipOf(1) = "master" /\ ChipOf(8) = "slave"
      BY BitOfs
    <2>2. CASE c = "master"
      <3>1. b \in {0, 1, 2} /\ chip[c].base = 32
        BY <1>1, <1>2, <1>3, <2>2 DEF MaskedAt, Bits, Complete
      <3>2. Leads(32 + 0, 0) /\ Leads(32 + 1, 1) /\ 0 \in Lines /\ 1 \in Lines
        BY DEF Leads, Idt, Vectors, Lines
      <3> QED BY <2>1, <2>2, <3>1, <3>2
    <2>3. CASE c = "slave"
      <3>1. b = 0 /\ chip[c].base = 40
        BY <1>1, <1>2, <1>3, <2>3 DEF MaskedAt, Bits, Complete
      <3>2. Leads(40 + 0, 8) /\ 8 \in Lines
        BY DEF Leads, Idt, Vectors, Lines
      <3> QED BY <2>1, <2>3, <3>1, <3>2
    <2> QED BY <2>2, <2>3 DEF Chips
  <1> QED BY <1>3, <1>4 DEF Complete

(* Whenever entry() or a handler has interrupts on, both controllers are        *)
(* programmed to the end (i8259.c:17-52), for ticks in any phase of the boot.  *)
THEOREM ControllersCorrect == Spec => []ControllersReady
  BY Invariant, ControllersAreReady, PTL
===============================================================================
