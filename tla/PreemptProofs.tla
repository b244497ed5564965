----------------------------- MODULE PreemptProofs -----------------------------
(***************************************************************************)
(* Ticks inside the kernel (module ProcessPreempt), for every number of    *)
(* slots and terminals and every depth of nesting; and, with ticks in user *)
(* mode only, the handlers as steps of module Process.                     *)
(***************************************************************************)
EXTENDS ProcessPreemptRefinement, FiniteSetTheorems, TLAPS

SlotOrNull == Slots \cup {Null}
Controls   == [pc : {"boot", "user"} \cup Points, parent : SlotOrNull]
Frames     == [kind : {"tick", "execute"}, at : Controls, who : SlotOrNull]
Contexts   == [stack : Stacks, depth : Nat, by : {"user", "tick", "execute"}]

Types ==
  /\ pid \in Slots \cup {-1, NoBlock} /\ curr_pcb \in SlotOrNull /\ scheduled \in Terminals
  /\ active \in [Slots -> BOOLEAN] /\ parent_id \in [Slots -> SlotOrNull]
  /\ pcb_tid \in [Slots -> Terminals] /\ tss_esp0 \in [Slots -> SlotOrNull]
  /\ saved \in [Slots -> Contexts] /\ pcb_ptr \in [Terminals -> SlotOrNull]
  /\ count_pcb \in [Terminals -> 0 .. MaxCount]
  /\ tss \in SlotOrNull /\ page \in SlotOrNull /\ image \in [Slots -> BOOLEAN]
  /\ stack \in [Stacks -> Seq(Frames)]
  /\ at \in Controls /\ who \in SlotOrNull /\ on \in Stacks /\ sp \in Nat

-----------------------------------------------------------------------------
(* The processes of a terminal.  halt() counts before it closes.            *)
Members(t) == {s \in Slots : active[s] /\ pcb_tid[s] = t}
Height(t)  == IF at.pc = "head" /\ t = scheduled THEN count_pcb[t] + 1 ELSE count_pcb[t]
Counted    == \A t \in Terminals : Height(t) = Cardinality(Members(t))

(* The process of a terminal that runs when the terminal has the turn.       *)
Turn     == IF at.pc = "tail" THEN at.parent ELSE curr_pcb
Front(t) == IF t = scheduled THEN Turn ELSE pcb_ptr[t]

(* The place of each process in its terminal's chain of calls.              *)
Order(pos) ==
  /\ \A s \in Slots : active[s] =>
       /\ pos[s] < Height(pcb_tid[s])
       /\ (parent_id[s] = Null => pos[s] = 0)
       /\ (parent_id[s] # Null => /\ active[parent_id[s]] /\ pcb_tid[parent_id[s]] = pcb_tid[s]
                                  /\ pos[s] = pos[parent_id[s]] + 1)
  /\ \A s, q \in Slots : active[s] /\ active[q] /\ pcb_tid[s] = pcb_tid[q] /\ pos[s] = pos[q] => s = q
  /\ \A t \in Terminals : Height(t) # 0 =>
       Front(t) \in Slots /\ active[Front(t)] /\ pcb_tid[Front(t)] = t /\ pos[Front(t)] = Height(t) - 1
Chains(places) == \E pos \in [Slots -> places] : Order(pos)

(* The scheduled terminal is without a process while its shell restarts.      *)
Restarting == at.pc \in {"head", "exec"}
OneEach == \A t \in Terminals : count_pcb[t] = 0 /\ (t = scheduled => ~Restarting) =>
             \A s \in Slots : active[s] => parent_id[s] = Null

(* The base shells have the first slots, so that one that restarts finds its  *)
(* own slot again.                                                         *)
BasesLow == \A s, q \in Slots : active[s] /\ parent_id[s] = Null /\ q < s =>
              \/ active[q] /\ parent_id[q] = Null
              \/ at.pc = "exec" /\ count_pcb[scheduled] = 0 /\ q = pid

-----------------------------------------------------------------------------
(* The contexts of a process that ticks stopped: one in user mode, and above  *)
(* it those that landed while the process was switched to, all on its own  *)
(* stack.                                                                  *)
Ticks(p, n) == /\ n \in 1 .. Len(stack[p])
               /\ \A d \in 1 .. n : LET f == stack[p][d] IN
                    /\ f.kind = "tick"
                    /\ (d = 1 => f.at.pc = "user" /\ f.who = p)
                    /\ (d # 1 => f.at.pc = "leave")

(* What holds at each control point.                                        *)
AtBoot == at.pc = "boot" =>
  /\ pid = -1 /\ curr_pcb = Null /\ on = BootStack /\ sp = 0
  /\ \A s \in Slots : ~active[s] /\ saved[s].depth = 0
  /\ \A t \in Terminals : count_pcb[t] = 0 /\ pcb_ptr[t] = Null
AtExec == at.pc = "exec" =>
  /\ pid \in Slots /\ EmptyPcb(active, pid) /\ page = pid
  /\ (count_pcb[scheduled] = 0 => \A q \in Slots : q < pid => parent_id[q] = Null)
  /\ (count_pcb[scheduled] # 0 => on = curr_pcb /\ sp = 0 /\ who = curr_pcb /\ AllLaunched)
AtEnter == at.pc = "enter" => curr_pcb \in Slots /\ page = curr_pcb /\ count_pcb[scheduled] # 0
AtUser  == InUser => /\ curr_pcb \in Slots /\ count_pcb[scheduled] # 0
                     /\ who = curr_pcb /\ tss = curr_pcb /\ page = curr_pcb
AtHead  == at.pc = "head" => curr_pcb \in Slots /\ on = curr_pcb /\ sp = 0
AtTail  == at.pc = "tail" => at.parent \in Slots /\ page = at.parent /\ count_pcb[scheduled] # 0
AtSched == at.pc \in {"sched", "esp", "leave"} =>
  /\ page = curr_pcb /\ count_pcb[scheduled] # 0
  /\ (at.pc # "leave" => curr_pcb = pcb_ptr[scheduled])
  /\ (at.pc # "sched" => on = curr_pcb /\ Ticks(curr_pcb, sp))
  /\ (at.pc = "leave" => tss = curr_pcb)
Here == /\ AtBoot /\ AtExec /\ AtEnter /\ AtUser /\ AtHead /\ AtTail /\ AtSched
        /\ (at.pc # "boot" => pid # -1) /\ (curr_pcb = Null => at.pc \in {"boot", "exec"})
        /\ (~InUser => sp <= Len(stack[on]))
        /\ (\A s \in Slots : active[s] => image[s])

-----------------------------------------------------------------------------
(* What the PCBs and the stacks hold of a process that waits for its turn,     *)
(* and of one that waits for its child.                                    *)
Paused(p) == saved[p].stack = p /\ Ticks(p, saved[p].depth) /\ tss_esp0[p] = p
Called(p) == /\ saved[p].stack = p /\ saved[p].depth = 1 /\ 1 \in 1 .. Len(stack[p])
             /\ stack[p][1].kind = "execute" /\ stack[p][1].who = p

Waits(t) == Height(t) # 0 /\ (t = scheduled => at.pc \in {"sched", "esp"})
Stopped  == \A t \in Terminals : Waits(t) => Paused(pcb_ptr[t])
Callers  == /\ (\A s \in Slots : active[s] /\ parent_id[s] # Null => Called(parent_id[s]))
            /\ (at.pc = "tail" => Called(at.parent))

Table == Counted /\ OneEach /\ BasesLow
Stack == Stopped /\ Callers
IInv  == Types /\ Table /\ Chains(Nat) /\ Here /\ Stack

(* The invariant with positions TLC can enumerate.                          *)
BoundedIInv == Types /\ Table /\ Chains(0 .. MAX_PCB - 1) /\ Here /\ Stack
-----------------------------------------------------------------------------
(* The initial state, and the operators the steps are built from.           *)

(* The system starts with no process.                                       *)
LEMMA InitInv == Init => IInv
  <1> SUFFICES ASSUME Init PROVE IInv
    OBVIOUS
  <1> USE PreemptAssumption DEF Slots, Terminals, Null, BootStack
  <1>1. Types
    BY DEF Init, Types, SlotOrNull, Stacks, Controls, Contexts, NoBlock, Point
  <1>2. at.pc = "boot" /\ \A s \in Slots : ~active[s]
    BY DEF Init, Point
  <1>3. Counted
    <2>1. ASSUME NEW t \in Terminals PROVE Height(t) = Cardinality(Members(t))
      <3>1. Members(t) = {} /\ Height(t) = 0
        BY <1>2 DEF Members, Height, Init
      <3> QED BY <3>1, FS_EmptySet
    <2> QED BY <2>1 DEF Counted
  <1>4. Chains(Nat)
    <2> DEFINE pos == [s \in Slots |-> 0]
    <2>1. pos \in [Slots -> Nat]
      OBVIOUS
    <2>2. Order(pos)
      BY <1>2 DEF Order, Height, Init
    <2> QED BY <2>1, <2>2 DEF Chains
  <1>5. OneEach /\ BasesLow
    BY <1>2 DEF OneEach, BasesLow
  <1>6. Here
    BY <1>2 DEF Here, AtBoot, AtExec, AtEnter, AtUser, AtHead, AtTail, AtSched, InUser, Init, Point, Stacks
  <1>8. Stopped /\ Callers
    BY <1>2 DEF Stopped, Callers, Waits, Height, Init
  <1> QED BY <1>1, <1>3, <1>4, <1>5, <1>6, <1>8 DEF IInv, Table, Stack

(* What the places in the chains say of a terminal's front process and of    *)
(* a process and its parent.                                               *)
LEMMA Places ==
  ASSUME Types, Chains(Nat)
  PROVE  /\ \A t \in Terminals : Height(t) # 0 =>
              Front(t) \in Slots /\ active[Front(t)] /\ pcb_tid[Front(t)] = t
         /\ \A s \in Slots : active[s] => Height(pcb_tid[s]) # 0
         /\ \A s \in Slots : active[s] /\ parent_id[s] # Null =>
              /\ parent_id[s] \in Slots /\ active[parent_id[s]]
              /\ pcb_tid[parent_id[s]] = pcb_tid[s]
              /\ parent_id[s] # Front(pcb_tid[s])
         /\ \A s \in Slots : active[s] /\ parent_id[s] = Null /\ s = Front(pcb_tid[s]) =>
              /\ Height(pcb_tid[s]) = 1
              /\ \A q \in Slots : active[q] /\ pcb_tid[q] = pcb_tid[s] => q = s
  <1>1. PICK pos \in [Slots -> Nat] : Order(pos)
    BY DEF Chains
  <1>2. \A t \in Terminals : Height(t) \in Nat
    BY PreemptAssumption DEF Types, Height
  <1>3. \A s \in Slots : pcb_tid[s] \in Terminals /\ parent_id[s] \in SlotOrNull /\ pos[s] \in Nat
    BY DEF Types
  <1>4. \A t \in Terminals : Height(t) # 0 =>
          Front(t) \in Slots /\ active[Front(t)] /\ pcb_tid[Front(t)] = t /\ pos[Front(t)] = Height(t) - 1
    BY <1>1 DEF Order
  <1>5. \A s \in Slots : active[s] =>
          /\ pos[s] < Height(pcb_tid[s])
          /\ (parent_id[s] = Null => pos[s] = 0)
          /\ (parent_id[s] # Null => /\ active[parent_id[s]] /\ pcb_tid[parent_id[s]] = pcb_tid[s]
                                     /\ pos[s] = pos[parent_id[s]] + 1)
    BY <1>1 DEF Order
  <1>6. \A s \in Slots : active[s] => Height(pcb_tid[s]) # 0
    BY <1>2, <1>3, <1>5
  <1>7. ASSUME NEW s \in Slots, active[s], parent_id[s] # Null
        PROVE  /\ parent_id[s] \in Slots /\ active[parent_id[s]]
               /\ pcb_tid[parent_id[s]] = pcb_tid[s]
               /\ parent_id[s] # Front(pcb_tid[s])
    BY <1>2, <1>3, <1>4, <1>5, <1>6, <1>7 DEF SlotOrNull
  <1>8. ASSUME NEW s \in Slots, active[s], parent_id[s] = Null, s = Front(pcb_tid[s])
        PROVE  /\ Height(pcb_tid[s]) = 1
               /\ \A q \in Slots : active[q] /\ pcb_tid[q] = pcb_tid[s] => q = s
    <2>1. Height(pcb_tid[s]) = 1
      BY <1>2, <1>3, <1>4, <1>5, <1>6, <1>8
    <2>2. \A q \in Slots : active[q] /\ pcb_tid[q] = pcb_tid[s] => pos[q] = pos[s]
      BY <2>1, <1>3, <1>5, <1>8
    <2> QED BY <2>1, <2>2, <1>1, <1>8 DEF Order
  <1> QED BY <1>4, <1>6, <1>7, <1>8

(* What a push leaves: one context is written, those below and above it stay. *)
Pushed(stk, x, d, f) ==
  /\ stk \in [Stacks -> Seq(Frames)]
  /\ \A y \in Stacks : y # x => stk[y] = stack[y]
  /\ Len(stk[x]) = IF d < Len(stack[x]) THEN Len(stack[x]) ELSE d + 1
  /\ stk[x][d + 1] = f
  /\ \A i \in 1 .. Len(stk[x]) : i # d + 1 => i \in 1 .. Len(stack[x]) /\ stk[x][i] = stack[x][i]

(* Push does that.                                                          *)
LEMMA PushFacts ==
  ASSUME stack \in [Stacks -> Seq(Frames)], NEW x \in Stacks, NEW d \in Nat, d <= Len(stack[x]),
         NEW f \in Frames, NEW stk, stk = Push(x, d, f)
  PROVE  Pushed(stk, x, d, f)
  <1> DEFINE n == IF d < Len(stack[x]) THEN Len(stack[x]) ELSE d + 1
             new == [i \in 1 .. n |-> IF i = d + 1 THEN f ELSE stack[x][i]]
  <1>1. stack[x] \in Seq(Frames) /\ Len(stack[x]) \in Nat /\ n \in Nat
    OBVIOUS
  <1>2. \A i \in 1 .. n : i # d + 1 => i \in 1 .. Len(stack[x])
    BY <1>1
  <1>3. \A i \in 1 .. n : new[i] \in Frames
    BY <1>1, <1>2
  <1>4. new \in Seq(Frames) /\ Len(new) = n
    BY <1>1, <1>3
  <1>5. stk = [stack EXCEPT ![x] = new]
    BY DEF Push
  <1>6. d + 1 \in 1 .. n
    BY <1>1
  <1> HIDE DEF new
  <1>7. stk[x] = new /\ \A y \in Stacks : y # x => stk[y] = stack[y]
    BY <1>5
  <1>8. stk \in [Stacks -> Seq(Frames)]
    BY <1>4, <1>5
  <1> QED BY <1>2, <1>4, <1>6, <1>7, <1>8 DEF new, Pushed
(* A step that leaves the table, the heights and the fronts alone leaves the  *)
(* chains alone.                                                           *)
LEMMA SameChains ==
  ASSUME Types, Counted, Chains(Nat),
         active' = active, parent_id' = parent_id, pcb_tid' = pcb_tid,
         \A t \in Terminals : Height(t)' = Height(t),
         \A t \in Terminals : Height(t) # 0 => Front(t)' = Front(t)
  PROVE  Counted' /\ Chains(Nat)'
  <1>1. \A t \in Terminals : Members(t)' = Members(t)
    BY DEF Members
  <1>2. Counted'
    BY <1>1 DEF Counted
  <1>3. PICK pos \in [Slots -> Nat] : Order(pos)
    BY DEF Chains
  <1>4. \A s \in Slots : pcb_tid[s] \in Terminals
    BY DEF Types
  <1>5. Order(pos)'
    BY <1>3, <1>4 DEF Order
  <1> QED BY <1>2, <1>3, <1>5 DEF Chains

(* A step that leaves the stacks and the saved contexts alone.               *)
LEMMA SameStacks ==
  ASSUME Stack, stack' = stack, saved' = saved, tss_esp0' = tss_esp0, pcb_ptr' = pcb_ptr,
         active' = active, parent_id' = parent_id,
         \A t \in Terminals : Waits(t)' => Waits(t),
         at'.pc # "tail"
  PROVE  Stack'
  <1>1. \A p : (Paused(p)' <=> Paused(p)) /\ (Called(p)' <=> Called(p))
    BY DEF Paused, Called, Ticks
  <1>2. Stopped' /\ Callers'
    BY <1>1 DEF Stack, Stopped, Callers
  <1> QED BY <1>2 DEF Stack

-----------------------------------------------------------------------------
(* One lemma per action: the invariant is kept.                              *)

(* entry() of kernel.c starts the first shell.                              *)
LEMMA BootKeeps == IInv /\ Boot => IInv'
  <1> SUFFICES ASSUME IInv, Boot PROVE IInv'
    OBVIOUS
  <1> USE DEF Point
  <1>1. PICK s \in Slots : EmptyPcb(active, s) /\ pid' = s /\ page' = s
    BY DEF Boot, BeginExecute
  <1>2. /\ at.pc = "boot" /\ at' = [pc |-> "exec", parent |-> Null]
        /\ curr_pcb' = curr_pcb /\ active' = active /\ parent_id' = parent_id /\ pcb_tid' = pcb_tid
        /\ tss_esp0' = tss_esp0 /\ saved' = saved /\ scheduled' = scheduled /\ pcb_ptr' = pcb_ptr
        /\ count_pcb' = count_pcb /\ tss' = tss /\ image' = image /\ stack' = stack
        /\ who' = who /\ on' = on /\ sp' = sp
    BY DEF Boot, BeginExecute, pcbVars, termVars
  <1>3. Types'
    BY <1>1, <1>2 DEF IInv, Types, SlotOrNull, Controls, Points
  <1>4. /\ pid = -1 /\ curr_pcb = Null /\ on = BootStack /\ sp = 0
        /\ \A q \in Slots : ~active[q]
        /\ \A t \in Terminals : count_pcb[t] = 0
    BY <1>2 DEF IInv, Here, AtBoot
  <1>5. \A t \in Terminals : Height(t) = 0 /\ Height(t)' = 0
    BY <1>2, <1>4 DEF Height
  <1>6. Counted' /\ Chains(Nat)'
    BY <1>2, <1>5, SameChains DEF IInv, Table
  <1>7. OneEach' /\ BasesLow'
    BY <1>2, <1>4 DEF OneEach, BasesLow
  <1>8. Here'
    <2>1. AtExec'
      <3>1. \A q \in Slots : ~(q < s)
        BY <1>1, <1>4 DEF EmptyPcb
      <3>2. EmptyPcb(active, pid)'
        BY <1>1, <1>2 DEF EmptyPcb
      <3>3. scheduled' \in Terminals /\ count_pcb'[scheduled'] = 0 /\ on' \notin Slots
        BY <1>2, <1>4 DEF IInv, Types, BootStack, Slots
      <3> QED BY <1>1, <1>2, <3>1, <3>2, <3>3 DEF AtExec
    <2>2. AtBoot' /\ AtEnter' /\ AtUser' /\ AtHead' /\ AtTail' /\ AtSched'
      BY <1>2 DEF AtBoot, AtEnter, AtUser, AtHead, AtTail, AtSched, InUser
    <2>3. pid' # -1
      BY <1>1 DEF Slots
    <2>4. sp' <= Len(stack'[on'])
      BY <1>2, <1>4 DEF IInv, Types
    <2>5. \A q \in Slots : active'[q] => image'[q]
      BY <1>2, <1>4
    <2> QED BY <1>2, <2>1, <2>2, <2>3, <2>4, <2>5 DEF Here, InUser
  <1>9. Stack'
    BY <1>2, <1>5, SameStacks DEF IInv, Waits
  <1> QED BY <1>3, <1>6, <1>7, <1>8, <1>9 DEF IInv, Table

(* execute() starts in user mode.                                           *)
LEMMA ExecuteCallKeeps == IInv /\ AllLaunched /\ ExecuteCall => IInv'
  <1> SUFFICES ASSUME IInv, AllLaunched, ExecuteCall PROVE IInv'
    OBVIOUS
  <1> USE DEF Point
  <1>1. PICK s \in Slots : EmptyPcb(active, s) /\ pid' = s /\ page' = s
    BY DEF ExecuteCall, BeginExecute
  <1>2. /\ at.pc = "user" /\ at' = [pc |-> "exec", parent |-> Null]
        /\ curr_pcb' = curr_pcb /\ active' = active /\ parent_id' = parent_id /\ pcb_tid' = pcb_tid
        /\ tss_esp0' = tss_esp0 /\ saved' = saved /\ scheduled' = scheduled /\ pcb_ptr' = pcb_ptr
        /\ count_pcb' = count_pcb /\ tss' = tss /\ image' = image /\ stack' = stack
        /\ who' = who /\ on' = tss /\ sp' = 0
    BY DEF ExecuteCall, BeginExecute, pcbVars, termVars, InUser
  <1>3. curr_pcb \in Slots /\ who = curr_pcb /\ tss = curr_pcb
    BY <1>2 DEF IInv, Here, AtUser, InUser
  <1>4. Types'
    BY <1>1, <1>2, <1>3 DEF IInv, Types, SlotOrNull, Controls, Points, Stacks
  <1>5. \A t \in Terminals : Height(t)' = Height(t) /\ Front(t)' = Front(t)
    BY <1>2 DEF Height, Front, Turn
  <1>6. Counted' /\ Chains(Nat)'
    BY <1>2, <1>5, SameChains DEF IInv, Table
  <1>7. OneEach' /\ BasesLow'
    BY <1>2 DEF IInv, Table, OneEach, BasesLow, Restarting
  <1>8. Here'
    <2>1. AtExec'
      <3>1. EmptyPcb(active, pid)'
        BY <1>1, <1>2 DEF EmptyPcb
      <3>2. count_pcb'[scheduled'] # 0 /\ AllLaunched'
        BY <1>2 DEF IInv, Types, AllLaunched
      <3> QED BY <1>1, <1>2, <1>3, <3>1, <3>2 DEF AtExec
    <2>2. AtBoot' /\ AtEnter' /\ AtUser' /\ AtHead' /\ AtTail' /\ AtSched'
      BY <1>2 DEF AtBoot, AtEnter, AtUser, AtHead, AtTail, AtSched, InUser
    <2>3. pid' # -1
      BY <1>1 DEF Slots
    <2>4. sp' <= Len(stack'[on'])
      BY <1>2, <1>3 DEF IInv, Types, Stacks
    <2>5. \A q \in Slots : active'[q] => image'[q]
      BY <1>2 DEF IInv, Here
    <2> QED BY <1>2, <2>1, <2>2, <2>3, <2>4, <2>5 DEF Here, InUser
  <1>9. Stack'
    BY <1>2, <1>5, SameStacks DEF IInv, Waits
  <1> QED BY <1>4, <1>6, <1>7, <1>8, <1>9 DEF IInv, Table

(* execute() without a free PCB, or with a file that is no program.         *)
LEMMA ExecuteFailsKeeps == IInv /\ ExecuteFails => IInv'
  <1> SUFFICES ASSUME IInv, ExecuteFails PROVE IInv'
    OBVIOUS
  <1>1. pid' \in Slots \/ pid' = NoBlock
    BY DEF ExecuteFails
  <1>2. /\ at.pc = "user" /\ at' = at
        /\ curr_pcb' = curr_pcb /\ active' = active /\ parent_id' = parent_id /\ pcb_tid' = pcb_tid
        /\ tss_esp0' = tss_esp0 /\ saved' = saved /\ scheduled' = scheduled /\ pcb_ptr' = pcb_ptr
        /\ count_pcb' = count_pcb /\ tss' = tss /\ page' = page /\ image' = image /\ stack' = stack
        /\ who' = who /\ on' = on /\ sp' = sp
    BY DEF ExecuteFails, pcbVars, termVars, cpuVars, InUser
  <1>3. Types'
    BY <1>1, <1>2 DEF IInv, Types
  <1>4. \A t \in Terminals : Height(t)' = Height(t) /\ Front(t)' = Front(t)
    BY <1>2 DEF Height, Front, Turn
  <1>5. Counted' /\ Chains(Nat)'
    BY <1>2, <1>4, SameChains DEF IInv, Table
  <1>6. OneEach' /\ BasesLow'
    BY <1>2 DEF IInv, Table, OneEach, BasesLow, Restarting
  <1>7. Here'
    <2>1. AtUser'
      BY <1>2 DEF IInv, Here, AtUser, InUser
    <2>2. AtBoot' /\ AtExec' /\ AtEnter' /\ AtHead' /\ AtTail' /\ AtSched'
      BY <1>2 DEF AtBoot, AtExec, AtEnter, AtHead, AtTail, AtSched
    <2>3. pid' # -1
      BY <1>1 DEF Slots, NoBlock
    <2>4. curr_pcb' # Null
      BY <1>2 DEF IInv, Here
    <2>5. \A q \in Slots : active'[q] => image'[q]
      BY <1>2 DEF IInv, Here
    <2> QED BY <1>2, <2>1, <2>2, <2>3, <2>4, <2>5 DEF Here, InUser
  <1>8. Stack'
    BY <1>2, <1>4, SameStacks DEF IInv, Waits
  <1> QED BY <1>3, <1>5, <1>6, <1>7, <1>8 DEF IInv, Table
(* Another system call writes over the stack of the process that runs, which *)
(* is neither waiting for its turn nor for a child.                        *)
LEMMA OtherCallKeeps == IInv /\ OtherCall => IInv'
  <1> SUFFICES ASSUME IInv, OtherCall PROVE IInv'
    OBVIOUS
  <1>1. /\ at.pc = "user" /\ at' = at /\ pid' = pid
        /\ curr_pcb' = curr_pcb /\ active' = active /\ parent_id' = parent_id /\ pcb_tid' = pcb_tid
        /\ tss_esp0' = tss_esp0 /\ saved' = saved /\ scheduled' = scheduled /\ pcb_ptr' = pcb_ptr
        /\ count_pcb' = count_pcb /\ tss' = tss /\ page' = page /\ image' = image
        /\ who' = who /\ on' = on /\ sp' = sp
    BY DEF OtherCall, pcbVars, termVars, cpuVars, InUser
  <1>2. curr_pcb \in Slots /\ tss = curr_pcb /\ count_pcb[scheduled] # 0
    BY <1>1 DEF IInv, Here, AtUser, InUser
  <1>3. stack' = [stack EXCEPT ![curr_pcb] = << >>]
    BY <1>2 DEF OtherCall
  <1>4. /\ stack' \in [Stacks -> Seq(Frames)]
        /\ Len(stack'[curr_pcb]) = 0
        /\ \A x \in Stacks : x # curr_pcb => stack'[x] = stack[x]
    <2>1. << >> \in Seq(Frames) /\ curr_pcb \in Stacks
      BY <1>2 DEF Stacks
    <2> QED BY <1>3, <2>1 DEF IInv, Types
  <1>5. Types'
    BY <1>1, <1>4 DEF IInv, Types
  <1>6. \A t \in Terminals : Height(t)' = Height(t) /\ Front(t)' = Front(t)
    BY <1>1 DEF Height, Front, Turn
  <1>7. Counted' /\ Chains(Nat)'
    BY <1>1, <1>6, SameChains DEF IInv, Table
  <1>8. OneEach' /\ BasesLow'
    BY <1>1 DEF IInv, Table, OneEach, BasesLow, Restarting
  <1>9. Here'
    <2>1. AtUser'
      BY <1>1 DEF IInv, Here, AtUser, InUser
    <2>2. AtBoot' /\ AtExec' /\ AtEnter' /\ AtHead' /\ AtTail' /\ AtSched'
      BY <1>1 DEF AtBoot, AtExec, AtEnter, AtHead, AtTail, AtSched
    <2>3. pid' # -1 /\ curr_pcb' # Null
      BY <1>1 DEF IInv, Here
    <2>4. \A q \in Slots : active'[q] => image'[q]
      BY <1>1 DEF IInv, Here
    <2> QED BY <1>1, <2>1, <2>2, <2>3, <2>4 DEF Here, InUser
  <1>12. \A p \in Slots : p # curr_pcb => (Paused(p)' <=> Paused(p)) /\ (Called(p)' <=> Called(p))
    BY <1>1, <1>4 DEF Paused, Called, Ticks, Stacks
  <1>13. Front(scheduled) = curr_pcb /\ Height(scheduled) # 0
    BY <1>1, <1>2 DEF Front, Turn, Height
  <1>14. pcb_tid[curr_pcb] = scheduled
    BY <1>13, Places DEF IInv, Types
  <1>15. Stopped'
    <2>1. ASSUME NEW t \in Terminals, Waits(t)'
          PROVE  pcb_ptr[t] \in Slots /\ pcb_ptr[t] # curr_pcb /\ Waits(t)
      <3>1. t # scheduled /\ Height(t) # 0 /\ Waits(t)
        BY <1>1, <1>6, <2>1 DEF Waits
      <3>2. Front(t) = pcb_ptr[t]
        BY <3>1 DEF Front
      <3>3. pcb_ptr[t] \in Slots /\ pcb_tid[pcb_ptr[t]] = t
        BY <3>1, <3>2, Places DEF IInv
      <3> QED BY <3>1, <3>3, <1>14
    <2> QED BY <2>1, <1>1, <1>12 DEF IInv, Stack, Stopped
  <1>16. Callers'
    <2>1. ASSUME NEW s \in Slots, active[s], parent_id[s] # Null
          PROVE  parent_id[s] \in Slots /\ parent_id[s] # curr_pcb
      BY <2>1, <1>13, <1>14, Places DEF IInv
    <2> QED BY <2>1, <1>1, <1>12 DEF IInv, Stack, Callers
  <1> QED BY <1>5, <1>7, <1>8, <1>9, <1>15, <1>16 DEF IInv, Table, Stack

(* execute() ends with the switch to user mode.                             *)
LEMMA EnterUserKeeps == IInv /\ EnterUser => IInv'
  <1> SUFFICES ASSUME IInv, EnterUser PROVE IInv'
    OBVIOUS
  <1> USE DEF Point
  <1>1. /\ at.pc = "enter" /\ at' = [pc |-> "user", parent |-> Null] /\ pid' = pid
        /\ curr_pcb' = curr_pcb /\ active' = active /\ parent_id' = parent_id /\ pcb_tid' = pcb_tid
        /\ tss_esp0' = tss_esp0 /\ saved' = saved /\ scheduled' = scheduled /\ pcb_ptr' = pcb_ptr
        /\ count_pcb' = count_pcb /\ tss' = curr_pcb /\ page' = page /\ image' = image
        /\ stack' = stack /\ who' = curr_pcb /\ on' = on /\ sp' = sp
    BY DEF EnterUser, pcbVars, termVars
  <1>2. Types'
    BY <1>1 DEF IInv, Types, SlotOrNull, Controls
  <1>3. \A t \in Terminals : Height(t)' = Height(t) /\ Front(t)' = Front(t)
    BY <1>1 DEF Height, Front, Turn
  <1>4. Counted' /\ Chains(Nat)'
    BY <1>1, <1>3, SameChains DEF IInv, Table
  <1>5. OneEach' /\ BasesLow'
    BY <1>1 DEF IInv, Table, OneEach, BasesLow, Restarting
  <1>6. Here'
    <2>1. AtUser'
      BY <1>1 DEF IInv, Here, AtEnter, AtUser
    <2>2. AtBoot' /\ AtExec' /\ AtEnter' /\ AtHead' /\ AtTail' /\ AtSched'
      BY <1>1 DEF AtBoot, AtExec, AtEnter, AtHead, AtTail, AtSched
    <2>3. pid' # -1 /\ curr_pcb' # Null
      BY <1>1 DEF IInv, Here
    <2>4. \A q \in Slots : active'[q] => image'[q]
      BY <1>1 DEF IInv, Here
    <2> QED BY <1>1, <2>1, <2>2, <2>3, <2>4 DEF Here, InUser
  <1>7. Stack'
    BY <1>1, <1>3, SameStacks DEF IInv, Waits
  <1> QED BY <1>2, <1>4, <1>5, <1>6, <1>7 DEF IInv, Table

(* halt() takes the process off the count before it closes it.              *)
LEMMA HaltCallKeeps == IInv /\ HaltCall => IInv'
  <1> SUFFICES ASSUME IInv, HaltCall PROVE IInv'
    OBVIOUS
  <1> USE DEF Point
  <1>1. /\ at.pc = "user" /\ at' = [pc |-> "head", parent |-> Null] /\ pid' = pid
        /\ curr_pcb' = curr_pcb /\ active' = active /\ parent_id' = parent_id /\ pcb_tid' = pcb_tid
        /\ tss_esp0' = tss_esp0 /\ saved' = saved /\ scheduled' = scheduled /\ pcb_ptr' = pcb_ptr
        /\ count_pcb' = [count_pcb EXCEPT ![scheduled] = Down(@)]
        /\ tss' = tss /\ page' = page /\ image' = image
        /\ stack' = stack /\ who' = who /\ on' = tss /\ sp' = 0
    BY DEF HaltCall, pcbVars, InUser
  <1>2. curr_pcb \in Slots /\ tss = curr_pcb /\ count_pcb[scheduled] # 0
    BY <1>1 DEF IInv, Here, AtUser, InUser
  <1>3. /\ count_pcb' \in [Terminals -> 0 .. MaxCount]
        /\ count_pcb'[scheduled] = count_pcb[scheduled] - 1
        /\ \A t \in Terminals : t # scheduled => count_pcb'[t] = count_pcb[t]
    BY <1>1, <1>2, PreemptAssumption DEF IInv, Types, Down
  <1>4. Types'
    <2>1. at' \in Controls
      BY <1>1 DEF Controls, Points, SlotOrNull
    <2>2. on' \in Stacks /\ sp' \in Nat
      BY <1>1, <1>2 DEF Stacks
    <2> QED BY <1>1, <1>3, <2>1, <2>2 DEF IInv, Types
  <1>5. \A t \in Terminals : Height(t)' = Height(t) /\ Front(t)' = Front(t)
    BY <1>1, <1>3 DEF Height, Front, Turn, IInv, Types
  <1>6. Counted' /\ Chains(Nat)'
    BY <1>1, <1>5, SameChains DEF IInv, Table
  <1>7. OneEach'
    BY <1>1, <1>3 DEF IInv, Table, OneEach, Restarting
  <1>8. BasesLow'
    BY <1>1 DEF IInv, Table, BasesLow
  <1>9. Here'
    <2>1. AtHead'
      BY <1>1, <1>2 DEF AtHead
    <2>2. AtBoot' /\ AtExec' /\ AtEnter' /\ AtUser' /\ AtTail' /\ AtSched'
      BY <1>1 DEF AtBoot, AtExec, AtEnter, AtUser, AtTail, AtSched, InUser
    <2>3. pid' # -1 /\ curr_pcb' # Null
      BY <1>1 DEF IInv, Here
    <2>4. \A q \in Slots : active'[q] => image'[q]
      BY <1>1 DEF IInv, Here
    <2>5. sp' <= Len(stack'[on'])
      BY <1>1, <1>2 DEF IInv, Types, Stacks
    <2> QED BY <1>1, <2>1, <2>2, <2>3, <2>4, <2>5 DEF Here, InUser
  <1>10. Stack'
    BY <1>1, <1>5, SameStacks DEF IInv, Waits
  <1> QED BY <1>4, <1>6, <1>7, <1>8, <1>9, <1>10 DEF IInv, Table
(* halt() takes the last process off its terminal's chain; what is left is     *)
(* the chain that ends in its parent, or nothing.                          *)
LEMMA CloseChains ==
  ASSUME Types, Counted, Chains(Nat), at.pc = "head", curr_pcb \in Slots,
         active' = [active EXCEPT ![curr_pcb] = FALSE],
         parent_id' = parent_id, pcb_tid' = pcb_tid, count_pcb' = count_pcb,
         scheduled' = scheduled, curr_pcb' = curr_pcb, pcb_ptr' = pcb_ptr,
         at'.pc # "head",
         parent_id[curr_pcb] # Null => at'.pc = "tail" /\ at'.parent = parent_id[curr_pcb]
  PROVE  /\ Counted' /\ Chains(Nat)'
         /\ (count_pcb[scheduled] = 0 <=> parent_id[curr_pcb] = Null)
  <1>1. PICK pos \in [Slots -> Nat] : Order(pos)
    BY DEF Chains
  <1>2. /\ scheduled \in Terminals /\ count_pcb[scheduled] \in Nat
        /\ Height(scheduled) = count_pcb[scheduled] + 1 /\ Height(scheduled)' = count_pcb[scheduled]
        /\ \A t \in Terminals : t # scheduled => Height(t)' = Height(t)
        /\ \A t \in Terminals : Height(t) \in Nat
    BY PreemptAssumption DEF Types, Height
  <1>3. Front(scheduled) = curr_pcb
    BY DEF Front, Turn
  <1>4. active[curr_pcb] /\ pcb_tid[curr_pcb] = scheduled /\ pos[curr_pcb] = count_pcb[scheduled]
    BY <1>1, <1>2, <1>3 DEF Order
  <1>5. /\ ~active'[curr_pcb]
        /\ \A s \in Slots : s # curr_pcb => active'[s] = active[s]
    BY DEF Types
  <1>6. Counted'
    <2>1. Members(scheduled)' = Members(scheduled) \ {curr_pcb} /\ curr_pcb \in Members(scheduled)
      BY <1>4, <1>5 DEF Members
    <2>2. \A t \in Terminals : t # scheduled => Members(t)' = Members(t)
      BY <1>4, <1>5 DEF Members
    <2>3. IsFiniteSet(Slots)
      BY FS_Interval, PreemptAssumption DEF Slots
    <2>4. IsFiniteSet(Members(scheduled))
      BY <2>3, FS_Subset DEF Members
    <2>5. Cardinality(Members(scheduled) \ {curr_pcb}) = Cardinality(Members(scheduled)) - 1
      BY <2>1, <2>4, FS_RemoveElement
    <2>6. ASSUME NEW t \in Terminals PROVE Height(t)' = Cardinality(Members(t)')
      <3>1. Height(t) = Cardinality(Members(t))
        BY DEF Counted
      <3>2. CASE t = scheduled
        BY <3>1, <3>2, <2>1, <2>5, <1>2
      <3>3. CASE t # scheduled
        BY <3>1, <3>3, <2>2, <1>2
      <3> QED BY <3>2, <3>3
    <2> QED BY <2>6 DEF Counted
  <1>7. \A s \in Slots : pcb_tid[s] \in Terminals /\ parent_id[s] \in SlotOrNull /\ pos[s] \in Nat
    BY DEF Types
  <1>8. parent_id[curr_pcb] # Null =>
          /\ parent_id[curr_pcb] \in Slots /\ parent_id[curr_pcb] # curr_pcb
          /\ active[parent_id[curr_pcb]] /\ pcb_tid[parent_id[curr_pcb]] = scheduled
          /\ pos[parent_id[curr_pcb]] = count_pcb[scheduled] - 1
    BY <1>1, <1>2, <1>4, <1>7 DEF Order, SlotOrNull
  <1>9. count_pcb[scheduled] = 0 <=> parent_id[curr_pcb] = Null
    <2>1. parent_id[curr_pcb] = Null => pos[curr_pcb] = 0
      BY <1>1, <1>4 DEF Order
    <2>2. parent_id[curr_pcb] # Null => count_pcb[scheduled] # 0
      BY <1>7, <1>8
    <2> QED BY <2>1, <2>2, <1>4
  <1>10. ASSUME NEW s \in Slots, active'[s]
         PROVE  /\ s # curr_pcb /\ active[s] /\ pos[s] < Height(pcb_tid[s])'
                /\ (parent_id[s] = Null => pos[s] = 0)
                /\ (parent_id[s] # Null => /\ active'[parent_id[s]] /\ pcb_tid[parent_id[s]] = pcb_tid[s]
                                           /\ pos[s] = pos[parent_id[s]] + 1)
    <2>1. s # curr_pcb /\ active[s]
      BY <1>5, <1>10
    <2>2. pos[s] < Height(pcb_tid[s])
      BY <1>1, <2>1 DEF Order
    <2>3. pcb_tid[s] = scheduled => pos[s] # pos[curr_pcb]
      BY <1>1, <1>4, <2>1 DEF Order
    <2>4. pos[s] < Height(pcb_tid[s])'
      <3>1. CASE pcb_tid[s] = scheduled
        BY <3>1, <2>2, <2>3, <1>2, <1>4, <1>7
      <3>2. CASE pcb_tid[s] # scheduled
        BY <3>2, <2>2, <1>2, <1>7
      <3> QED BY <3>1, <3>2
    <2>5. /\ (parent_id[s] = Null => pos[s] = 0)
          /\ (parent_id[s] # Null => /\ active[parent_id[s]] /\ pcb_tid[parent_id[s]] = pcb_tid[s]
                                     /\ pos[s] = pos[parent_id[s]] + 1)
      BY <1>1, <2>1 DEF Order
    <2>6. parent_id[s] # Null => parent_id[s] \in Slots /\ parent_id[s] # curr_pcb
      BY <2>2, <2>5, <1>2, <1>4, <1>7 DEF SlotOrNull
    <2> QED BY <2>1, <2>4, <2>5, <2>6, <1>5
  <1>11. ASSUME NEW t \in Terminals, Height(t)' # 0
         PROVE  Front(t)' \in Slots /\ active'[Front(t)'] /\ pcb_tid[Front(t)'] = t
                /\ pos[Front(t)'] = Height(t)' - 1
    <2>1. CASE t = scheduled
      <3>1. parent_id[curr_pcb] # Null
        BY <2>1, <1>2, <1>9, <1>11
      <3>2. Front(t)' = parent_id[curr_pcb]
        BY <2>1, <3>1 DEF Front, Turn
      <3> QED BY <2>1, <3>1, <3>2, <1>2, <1>5, <1>8
    <2>2. CASE t # scheduled
      <3>1. Front(t)' = Front(t) /\ Height(t)' = Height(t)
        BY <2>2, <1>2 DEF Front
      <3>2. Front(t) \in Slots /\ active[Front(t)] /\ pcb_tid[Front(t)] = t /\ pos[Front(t)] = Height(t) - 1
        BY <3>1, <1>1, <1>11 DEF Order
      <3> QED BY <2>2, <3>1, <3>2, <1>4, <1>5
    <2> QED BY <2>1, <2>2
  <1>12. \A s, q \in Slots : active'[s] /\ active'[q] /\ pcb_tid[s] = pcb_tid[q] /\ pos[s] = pos[q] => s = q
    BY <1>1, <1>10 DEF Order
  <1>13. Order(pos)'
    BY <1>10, <1>11, <1>12 DEF Order
  <1> QED BY <1>1, <1>6, <1>9, <1>13 DEF Chains
(* The last process of a terminal is its base shell; it is restarted in the   *)
(* slot it had, because the base shells have the first slots.              *)
LEMMA RestartShellKeeps == IInv /\ RestartShell => IInv'
  <1> SUFFICES ASSUME IInv, RestartShell PROVE IInv'
    OBVIOUS
  <1> USE DEF Point
  <1>1. PICK s \in Slots : EmptyPcb(active', s) /\ pid' = s /\ page' = s
    BY DEF RestartShell, BeginExecute
  <1>2. /\ at.pc = "head" /\ at' = [pc |-> "exec", parent |-> Null] /\ parent_id[curr_pcb] = Null
        /\ active' = [active EXCEPT ![curr_pcb] = FALSE]
        /\ curr_pcb' = curr_pcb /\ parent_id' = parent_id /\ pcb_tid' = pcb_tid
        /\ tss_esp0' = tss_esp0 /\ saved' = saved /\ scheduled' = scheduled /\ pcb_ptr' = pcb_ptr
        /\ count_pcb' = count_pcb /\ tss' = tss /\ image' = image /\ stack' = stack
        /\ who' = who /\ on' = on /\ sp' = sp
    BY DEF RestartShell, BeginExecute, termVars
  <1>3. curr_pcb \in Slots /\ on = curr_pcb /\ sp = 0
    BY <1>2 DEF IInv, Here, AtHead
  <1>4. Types'
    BY <1>1, <1>2, <1>3 DEF IInv, Types, SlotOrNull, Controls, Points
  <1>5. Counted' /\ Chains(Nat)' /\ count_pcb[scheduled] = 0
    BY <1>2, <1>3, CloseChains DEF IInv, Table
  <1>6. /\ ~active'[curr_pcb]
        /\ \A q \in Slots : q # curr_pcb => active'[q] = active[q]
    BY <1>2, <1>3 DEF IInv, Types
  <1>7. active[curr_pcb]
    <2>1. Height(scheduled) # 0 /\ Front(scheduled) = curr_pcb /\ scheduled \in Terminals
      BY <1>2, <1>5 DEF Height, Front, Turn, IInv, Types
    <2> QED BY <2>1, Places DEF IInv
  <1>8. \A q \in Slots : q < curr_pcb => active'[q] /\ parent_id[q] = Null
    <2>1. \A q \in Slots : q < curr_pcb => active[q] /\ parent_id[q] = Null
      BY <1>2, <1>3, <1>7 DEF IInv, Table, BasesLow
    <2>2. \A q \in Slots : q < curr_pcb => q # curr_pcb
      BY <1>3 DEF Slots
    <2> QED BY <2>1, <2>2, <1>6
  <1>9. s = curr_pcb
    BY <1>1, <1>3, <1>6, <1>8 DEF EmptyPcb, Slots
  <1>10. OneEach'
    BY <1>2, <1>5, <1>6 DEF IInv, Table, OneEach, Restarting
  <1>11. BasesLow'
    <2>1. ASSUME NEW r \in Slots, NEW q \in Slots, active'[r], parent_id[r] = Null, q < r
          PROVE  (active'[q] /\ parent_id[q] = Null) \/ q = curr_pcb
      <3>1. active[r]
        BY <2>1, <1>6
      <3>2. active[q] /\ parent_id[q] = Null
        BY <2>1, <3>1, <1>2 DEF IInv, Table, BasesLow
      <3> QED BY <3>2, <1>6
    <2> QED BY <2>1, <1>1, <1>2, <1>5, <1>9 DEF BasesLow
  <1>12. Here'
    <2>1. AtExec'
      <3>1. EmptyPcb(active, pid)'
        BY <1>1 DEF EmptyPcb
      <3>2. \A q \in Slots : q < pid' => parent_id'[q] = Null
        BY <1>1, <1>2, <1>8, <1>9
      <3> QED BY <1>1, <1>2, <1>3, <1>5, <1>9, <3>1, <3>2 DEF AtExec
    <2>2. AtBoot' /\ AtEnter' /\ AtUser' /\ AtHead' /\ AtTail' /\ AtSched'
      BY <1>2 DEF AtBoot, AtEnter, AtUser, AtHead, AtTail, AtSched, InUser
    <2>3. pid' # -1
      BY <1>1 DEF Slots
    <2>4. sp' <= Len(stack'[on'])
      BY <1>2 DEF IInv, Here, InUser
    <2>5. \A q \in Slots : active'[q] => image'[q]
      BY <1>2, <1>6 DEF IInv, Here
    <2> QED BY <1>2, <2>1, <2>2, <2>3, <2>4, <2>5 DEF Here, InUser
  <1>14. \A p : (Paused(p)' <=> Paused(p)) /\ (Called(p)' <=> Called(p))
    BY <1>2 DEF Paused, Called, Ticks
  <1>15. Stopped'
    <2>1. \A t \in Terminals : Waits(t)' => Waits(t)
      BY <1>2 DEF Waits, Height
    <2> QED BY <2>1, <1>14, <1>2 DEF IInv, Stack, Stopped
  <1>16. Callers'
    BY <1>2, <1>6, <1>14 DEF IInv, Stack, Callers
  <1> QED BY <1>4, <1>5, <1>10, <1>11, <1>12, <1>15, <1>16 DEF IInv, Table, Stack

(* A process that is not a base shell is closed, and its parent is next.     *)
LEMMA CloseProcessKeeps == IInv /\ CloseProcess => IInv'
  <1> SUFFICES ASSUME IInv, CloseProcess PROVE IInv'
    OBVIOUS
  <1>1. /\ at.pc = "head" /\ at' = [pc |-> "tail", parent |-> parent_id[curr_pcb]]
        /\ parent_id[curr_pcb] # Null /\ page' = parent_id[curr_pcb] /\ pid' = pid
        /\ active' = [active EXCEPT ![curr_pcb] = FALSE]
        /\ curr_pcb' = curr_pcb /\ parent_id' = parent_id /\ pcb_tid' = pcb_tid
        /\ tss_esp0' = tss_esp0 /\ saved' = saved /\ scheduled' = scheduled /\ pcb_ptr' = pcb_ptr
        /\ count_pcb' = count_pcb /\ tss' = tss /\ image' = image /\ stack' = stack
        /\ who' = who /\ on' = on /\ sp' = sp
    BY DEF CloseProcess, termVars
  <1>2. curr_pcb \in Slots /\ on = curr_pcb /\ sp = 0
    BY <1>1 DEF IInv, Here, AtHead
  <1>3. Counted' /\ Chains(Nat)' /\ count_pcb[scheduled] # 0
    BY <1>1, <1>2, CloseChains DEF IInv, Table
  <1>4. /\ ~active'[curr_pcb]
        /\ \A q \in Slots : q # curr_pcb => active'[q] = active[q]
    BY <1>1, <1>2 DEF IInv, Types
  <1>5. active[curr_pcb] /\ parent_id[curr_pcb] \in Slots
    <2>1. Height(scheduled) # 0 /\ Front(scheduled) = curr_pcb /\ scheduled \in Terminals
      <3>1. count_pcb[scheduled] \in Nat /\ scheduled \in Terminals
        BY PreemptAssumption DEF IInv, Types
      <3> QED BY <3>1, <1>1 DEF Height, Front, Turn
    <2>2. active[curr_pcb]
      BY <2>1, Places DEF IInv
    <2> QED BY <2>2, <1>1, <1>2, Places DEF IInv
  <1>6. Types'
    <2>1. at' \in Controls
      BY <1>1, <1>5 DEF Controls, Points, SlotOrNull
    <2>2. active' \in [Slots -> BOOLEAN] /\ page' \in SlotOrNull
      BY <1>1, <1>5 DEF IInv, Types, SlotOrNull
    <2> QED BY <1>1, <2>1, <2>2 DEF IInv, Types
  <1>7. OneEach'
    BY <1>1, <1>3, <1>4 DEF IInv, Table, OneEach, Restarting
  <1>8. BasesLow'
    <2>1. ASSUME NEW r \in Slots, NEW q \in Slots, active'[r], parent_id[r] = Null, q < r
          PROVE  active'[q] /\ parent_id[q] = Null
      <3>1. active[r]
        BY <2>1, <1>4
      <3>2. active[q] /\ parent_id[q] = Null
        BY <2>1, <3>1, <1>1 DEF IInv, Table, BasesLow
      <3> QED BY <3>2, <1>1, <1>4
    <2> QED BY <2>1, <1>1 DEF BasesLow
  <1>9. Here'
    <2>1. AtTail'
      BY <1>1, <1>3, <1>5 DEF AtTail
    <2>2. AtBoot' /\ AtExec' /\ AtEnter' /\ AtUser' /\ AtHead' /\ AtSched'
      BY <1>1 DEF AtBoot, AtExec, AtEnter, AtUser, AtHead, AtSched, InUser
    <2>3. pid' # -1 /\ curr_pcb' # Null
      BY <1>1 DEF IInv, Here
    <2>4. sp' <= Len(stack'[on'])
      BY <1>1 DEF IInv, Here, InUser
    <2>5. \A q \in Slots : active'[q] => image'[q]
      BY <1>1, <1>4 DEF IInv, Here
    <2> QED BY <1>1, <2>1, <2>2, <2>3, <2>4, <2>5 DEF Here, InUser
  <1>11. \A p : (Paused(p)' <=> Paused(p)) /\ (Called(p)' <=> Called(p))
    BY <1>1 DEF Paused, Called, Ticks
  <1>12. Stopped'
    <2>1. \A t \in Terminals : Waits(t)' => Waits(t)
      BY <1>1 DEF Waits, Height
    <2> QED BY <2>1, <1>11, <1>1 DEF IInv, Stack, Stopped
  <1>13. Callers'
    <2>1. Called(parent_id[curr_pcb])
      BY <1>1, <1>2, <1>5 DEF IInv, Stack, Callers
    <2>2. at'.parent = parent_id[curr_pcb]
      BY <1>1
    <2>3. Called(at.parent)'
      BY <2>1, <2>2, <1>1 DEF Called
    <2>4. ASSUME NEW r \in Slots, active'[r], parent_id'[r] # Null
          PROVE  Called(parent_id[r])'
      <3>1. active[r] /\ parent_id[r] # Null
        BY <2>4, <1>1, <1>4
      <3>2. PICK q : q = parent_id[r]
        OBVIOUS
      <3> QED BY <3>1, <3>2, <1>1, <1>11 DEF IInv, Stack, Callers
    <2> QED BY <2>3, <2>4 DEF Callers
  <1> QED BY <1>3, <1>6, <1>7, <1>8, <1>9, <1>12, <1>13 DEF IInv, Table, Stack

(* The parent of a process that halted returns to its own user code.         *)
LEMMA ReturnToParentKeeps == IInv /\ ReturnToParent => IInv'
  <1> SUFFICES ASSUME IInv, ReturnToParent PROVE IInv'
    OBVIOUS
  <1> USE DEF Point
  <1>1. PICK p : p = at.parent
    OBVIOUS
  <1>2. /\ at.pc = "tail" /\ at' = [pc |-> "user", parent |-> Null] /\ pid' = pid
        /\ curr_pcb' = p /\ tss' = p
        /\ active' = active /\ parent_id' = parent_id /\ pcb_tid' = pcb_tid
        /\ tss_esp0' = tss_esp0 /\ saved' = saved /\ scheduled' = scheduled /\ pcb_ptr' = pcb_ptr
        /\ count_pcb' = count_pcb /\ page' = page /\ image' = image /\ stack' = stack
        /\ on' = saved[p].stack /\ sp' = saved[p].depth - 1 /\ who' = stack[saved[p].stack][saved[p].depth].who
    BY <1>1 DEF ReturnToParent, JumpTo, Frame, pcbVars, termVars
  <1>3. p \in Slots /\ page = p /\ count_pcb[scheduled] # 0
    BY <1>1, <1>2 DEF IInv, Here, AtTail
  <1>4. /\ saved[p].stack = p /\ saved[p].depth = 1 /\ 1 \in 1 .. Len(stack[p])
        /\ stack[p][1].kind = "execute" /\ stack[p][1].who = p
    BY <1>1, <1>2 DEF IInv, Stack, Callers, Called
  <1>5. who' = p
    BY <1>2, <1>4
  <1>6. Types'
    <2>1. at' \in Controls
      BY <1>2 DEF Controls, SlotOrNull
    <2>2. on' \in Stacks /\ sp' \in Nat /\ curr_pcb' \in SlotOrNull
      BY <1>2, <1>3, <1>4 DEF Stacks, SlotOrNull
    <2> QED BY <1>2, <1>3, <1>5, <2>1, <2>2 DEF IInv, Types, SlotOrNull
  <1>7. \A t \in Terminals : Height(t)' = Height(t) /\ Front(t)' = Front(t)
    BY <1>1, <1>2 DEF Height, Front, Turn
  <1>8. Counted' /\ Chains(Nat)'
    BY <1>2, <1>7, SameChains DEF IInv, Table
  <1>9. OneEach' /\ BasesLow'
    BY <1>2 DEF IInv, Table, OneEach, BasesLow, Restarting
  <1>10. Here'
    <2>1. AtUser'
      BY <1>2, <1>3, <1>5 DEF AtUser
    <2>2. AtBoot' /\ AtExec' /\ AtEnter' /\ AtHead' /\ AtTail' /\ AtSched'
      BY <1>2 DEF AtBoot, AtExec, AtEnter, AtHead, AtTail, AtSched
    <2>3. pid' # -1
      BY <1>2 DEF IInv, Here
    <2>4. curr_pcb' # Null
      BY <1>2, <1>3 DEF Slots, Null
    <2>5. \A q \in Slots : active'[q] => image'[q]
      BY <1>2 DEF IInv, Here
    <2> QED BY <1>2, <2>1, <2>2, <2>3, <2>4, <2>5 DEF Here, InUser
  <1>11. Stack'
    BY <1>2, <1>7, SameStacks DEF IInv, Waits
  <1> QED BY <1>6, <1>8, <1>9, <1>10, <1>11 DEF IInv, Table
(* The counter of a terminal has room for the process that takes a free slot, *)
(* and stays exact.                                                        *)
LEMMA LoadCount ==
  ASSUME Types, Counted, at.pc = "exec", at'.pc = "enter", pid \in Slots, ~active[pid],
         scheduled' = scheduled,
         active' = [active EXCEPT ![pid] = TRUE],
         pcb_tid' = [pcb_tid EXCEPT ![pid] = scheduled],
         count_pcb' = [count_pcb EXCEPT ![scheduled] = Up(@)]
  PROVE  /\ Counted'
         /\ count_pcb' \in [Terminals -> 0 .. MaxCount]
         /\ count_pcb'[scheduled] = count_pcb[scheduled] + 1
  <1>1. scheduled \in Terminals /\ \A t \in Terminals : Height(t) = count_pcb[t] /\ Height(t)' = count_pcb'[t]
    BY DEF Types, Height
  <1>2. IsFiniteSet(Slots) /\ Cardinality(Slots) = MAX_PCB
    BY FS_Interval, PreemptAssumption DEF Slots
  <1>3. /\ IsFiniteSet(Members(scheduled)) /\ pid \notin Members(scheduled)
        /\ Members(scheduled) \subseteq Slots \ {pid}
    BY <1>2, FS_Subset DEF Members
  <1>4. Cardinality(Members(scheduled)) <= MAX_PCB - 1
    <2>1. IsFiniteSet(Slots \ {pid}) /\ Cardinality(Slots \ {pid}) = MAX_PCB - 1
      BY <1>2, FS_RemoveElement
    <2> QED BY <2>1, <1>3, FS_Subset, FS_CardinalityType
  <1>5. count_pcb[scheduled] \in Nat /\ count_pcb[scheduled] < MaxCount
    BY <1>1, <1>4, PreemptAssumption DEF Counted, Types
  <1>6. /\ count_pcb' \in [Terminals -> 0 .. MaxCount]
        /\ count_pcb'[scheduled] = count_pcb[scheduled] + 1
        /\ \A t \in Terminals : t # scheduled => count_pcb'[t] = count_pcb[t]
    BY <1>1, <1>5, PreemptAssumption DEF Types, Up
  <1>7. /\ active'[pid] /\ pcb_tid'[pid] = scheduled
        /\ \A s \in Slots : s # pid => active'[s] = active[s] /\ pcb_tid'[s] = pcb_tid[s]
    BY DEF Types
  <1>8. Members(scheduled)' = Members(scheduled) \cup {pid}
    BY <1>7 DEF Members
  <1>9. \A t \in Terminals : t # scheduled => Members(t)' = Members(t)
    BY <1>7 DEF Members
  <1>10. Cardinality(Members(scheduled) \cup {pid}) = Cardinality(Members(scheduled)) + 1
    BY <1>3, FS_AddElement
  <1>11. ASSUME NEW t \in Terminals PROVE Height(t)' = Cardinality(Members(t)')
    <2>1. count_pcb[t] = Cardinality(Members(t)) /\ Height(t)' = count_pcb'[t]
      BY <1>1 DEF Counted
    <2>2. CASE t = scheduled
      BY <2>1, <2>2, <1>6, <1>8, <1>10
    <2>3. CASE t # scheduled
      BY <2>1, <2>3, <1>6, <1>9
    <2> QED BY <2>2, <2>3
  <1> QED BY <1>6, <1>11 DEF Counted

(* The PCB and the caller's context, when the program is in memory.          *)
LEMMA CreateProcessKeeps == IInv /\ CreateProcess => IInv'
  <1> SUFFICES ASSUME IInv, CreateProcess PROVE IInv'
    OBVIOUS
  <1> USE DEF Point
  <1> DEFINE base == count_pcb[scheduled] = 0
  <1>1. /\ at.pc = "exec" /\ at' = [pc |-> "enter", parent |-> Null] /\ pid \in Slots
        /\ (base \/ curr_pcb # Null) /\ pid' = pid /\ curr_pcb' = pid
        /\ image' = (IF page = pid THEN [image EXCEPT ![pid] = TRUE]
                     ELSE [image EXCEPT ![pid] = FALSE, ![page] = FALSE])
        /\ active'    = [active EXCEPT ![pid] = TRUE]
        /\ parent_id' = [parent_id EXCEPT ![pid] = IF base THEN Null ELSE curr_pcb]
        /\ pcb_tid'   = [pcb_tid EXCEPT ![pid] = scheduled]
        /\ tss_esp0'  = [tss_esp0 EXCEPT ![pid] = tss]
        /\ count_pcb' = [count_pcb EXCEPT ![scheduled] = Up(@)]
        /\ scheduled' = scheduled /\ pcb_ptr' = pcb_ptr /\ tss' = tss /\ page' = page
        /\ who' = who /\ on' = on
    BY DEF CreateProcess
  <1>2. base => saved' = saved /\ stack' = stack /\ sp' = sp
    BY DEF CreateProcess
  <1>3. ~base => /\ stack' = Push(on, sp, Suspended("execute"))
                 /\ saved' = [saved EXCEPT ![curr_pcb] = [stack |-> on, depth |-> sp + 1, by |-> "execute"]]
                 /\ sp' = sp + 1
    BY DEF CreateProcess
  <1>4. /\ EmptyPcb(active, pid) /\ page = pid
        /\ (base => \A q \in Slots : q < pid => parent_id[q] = Null)
        /\ (~base => on = curr_pcb /\ sp = 0 /\ who = curr_pcb /\ AllLaunched)
    BY <1>1 DEF IInv, Here, AtExec
  <1>5. ~active[pid]
    BY <1>4 DEF EmptyPcb
  <1>6. /\ Counted' /\ count_pcb' \in [Terminals -> 0 .. MaxCount]
        /\ count_pcb'[scheduled] = count_pcb[scheduled] + 1
    BY <1>1, <1>5, LoadCount DEF IInv, Table
  <1>7. /\ active'[pid] /\ pcb_tid'[pid] = scheduled /\ parent_id'[pid] = (IF base THEN Null ELSE curr_pcb)
        /\ \A s \in Slots : s # pid => /\ active'[s] = active[s] /\ pcb_tid'[s] = pcb_tid[s]
                                       /\ parent_id'[s] = parent_id[s] /\ tss_esp0'[s] = tss_esp0[s]
        /\ \A t \in Terminals : t # scheduled => count_pcb'[t] = count_pcb[t]
    BY <1>1 DEF IInv, Types
  <1>8. \A s \in Slots : active[s] => s # pid
    BY <1>5
  <1>9. scheduled \in Terminals /\ \A t \in Terminals : /\ Height(t) = count_pcb[t] /\ count_pcb[t] \in Nat
                                                        /\ Height(t)' = count_pcb'[t]
    BY <1>1, PreemptAssumption DEF IInv, Types, Height
  <1>10. Front(scheduled) = curr_pcb /\ \A t \in Terminals : t # scheduled => Front(t) = pcb_ptr[t]
    BY <1>1 DEF Front, Turn
  <1>11. ~base => curr_pcb \in Slots /\ active[curr_pcb] /\ pcb_tid[curr_pcb] = scheduled
    BY <1>9, <1>10, Places DEF IInv
  <1>12. Types' /\ stack' \in [Stacks -> Seq(Frames)]
    <2>1. at' \in Controls
      BY <1>1 DEF Controls, Points, SlotOrNull
    <2>2. stack' \in [Stacks -> Seq(Frames)] /\ saved' \in [Slots -> Contexts] /\ sp' \in Nat
      <3>1. CASE base
        BY <3>1, <1>2 DEF IInv, Types
      <3>2. CASE ~base
        <4>1. /\ Suspended("execute") \in Frames /\ on \in Stacks /\ sp \in Nat /\ sp <= Len(stack[on])
              /\ stack \in [Stacks -> Seq(Frames)]
          BY <1>1 DEF Suspended, Frames, IInv, Types, Here, InUser
        <4>2. stack' \in [Stacks -> Seq(Frames)]
          <5>1. Pushed(stack', on, sp, Suspended("execute"))
            BY <3>2, <4>1, <1>3, PushFacts
          <5> QED BY <5>1 DEF Pushed
        <4>3. [stack |-> on, depth |-> sp + 1, by |-> "execute"] \in Contexts
          BY <4>1 DEF Contexts
        <4>4. PICK c \in Contexts : c = [stack |-> on, depth |-> sp + 1, by |-> "execute"]
          BY <4>3
        <4>5. saved' = [saved EXCEPT ![curr_pcb] = c]
          BY <3>2, <4>4, <1>3
        <4>6. saved' \in [Slots -> Contexts]
          BY <4>5 DEF IInv, Types
        <4> QED BY <3>2, <4>1, <4>2, <4>6, <1>3
      <3> QED BY <3>1, <3>2
    <2>3. /\ active' \in [Slots -> BOOLEAN] /\ parent_id' \in [Slots -> SlotOrNull]
          /\ pcb_tid' \in [Slots -> Terminals] /\ tss_esp0' \in [Slots -> SlotOrNull]
          /\ image' \in [Slots -> BOOLEAN]
      BY <1>1, <1>4 DEF IInv, Types, SlotOrNull
    <2> QED BY <1>1, <1>6, <2>1, <2>2, <2>3 DEF IInv, Types, SlotOrNull
  <1>13. Chains(Nat)'
    <2>1. PICK pos \in [Slots -> Nat] : Order(pos)
      BY DEF IInv, Chains
    <2>2. PICK np : np = [pos EXCEPT ![pid] = count_pcb[scheduled]]
      OBVIOUS
    <2>3. /\ np \in [Slots -> Nat] /\ np[pid] = count_pcb[scheduled]
          /\ \A s \in Slots : s # pid => np[s] = pos[s]
      BY <1>1, <1>9, <2>2
    <2>4. \A s \in Slots : pcb_tid[s] \in Terminals /\ parent_id[s] \in SlotOrNull /\ pos[s] \in Nat
      BY DEF IInv, Types
    <2>5. \A s \in Slots : active[s] /\ pcb_tid[s] = scheduled => pos[s] < count_pcb[scheduled]
      BY <2>1, <1>9 DEF Order
    <2>6. ASSUME NEW s \in Slots, active'[s]
          PROVE  /\ np[s] < count_pcb'[pcb_tid'[s]]
                 /\ (parent_id'[s] = Null => np[s] = 0)
                 /\ (parent_id'[s] # Null => /\ active'[parent_id'[s]]
                                             /\ pcb_tid'[parent_id'[s]] = pcb_tid'[s]
                                             /\ np[s] = np[parent_id'[s]] + 1)
      <3>1. CASE s = pid
        <4>1. np[s] = count_pcb[scheduled] /\ pcb_tid'[s] = scheduled /\ count_pcb'[scheduled] = count_pcb[scheduled] + 1
          BY <3>1, <2>3, <1>6, <1>7
        <4>2. CASE base
          BY <3>1, <4>1, <4>2, <1>7
        <4>3. CASE ~base
          <5>1. pos[curr_pcb] = count_pcb[scheduled] - 1
            BY <4>3, <1>9, <1>10, <2>1 DEF Order
          <5>2. curr_pcb \in Slots /\ curr_pcb # pid /\ curr_pcb # Null
            BY <4>3, <1>8, <1>11 DEF Slots, Null
          <5>3. parent_id'[s] = curr_pcb /\ active'[curr_pcb] /\ pcb_tid'[curr_pcb] = scheduled
            BY <3>1, <4>3, <5>2, <1>7, <1>11
          <5>4. np[curr_pcb] = count_pcb[scheduled] - 1
            BY <5>1, <5>2, <2>3
          <5> QED BY <4>1, <5>2, <5>3, <5>4, <1>9
        <4> QED BY <4>2, <4>3
      <3>2. CASE s # pid
        <4>1. active[s] /\ np[s] = pos[s] /\ pcb_tid'[s] = pcb_tid[s] /\ parent_id'[s] = parent_id[s]
          BY <3>2, <2>3, <2>6, <1>7
        <4>2. /\ pos[s] < Height(pcb_tid[s])
              /\ (parent_id[s] = Null => pos[s] = 0)
              /\ (parent_id[s] # Null => /\ active[parent_id[s]] /\ pcb_tid[parent_id[s]] = pcb_tid[s]
                                         /\ pos[s] = pos[parent_id[s]] + 1)
          BY <4>1, <2>1 DEF Order
        <4>3. pos[s] < count_pcb'[pcb_tid[s]]
          <5>1. CASE pcb_tid[s] = scheduled
            BY <5>1, <4>2, <2>4, <1>6, <1>9
          <5>2. CASE pcb_tid[s] # scheduled
            BY <5>2, <4>2, <2>4, <1>7, <1>9
          <5> QED BY <5>1, <5>2
        <4>4. parent_id[s] # Null => /\ parent_id[s] \in Slots /\ parent_id[s] # pid
                                     /\ active'[parent_id[s]]
                                     /\ pcb_tid'[parent_id[s]] = pcb_tid[s]
                                     /\ np[parent_id[s]] = pos[parent_id[s]]
          BY <4>2, <2>3, <2>4, <1>7, <1>8 DEF SlotOrNull
        <4> QED BY <4>1, <4>2, <4>3, <4>4
      <3> QED BY <3>1, <3>2
    <2>7. ASSUME NEW s \in Slots, NEW q \in Slots, active'[s], active'[q], pcb_tid'[s] = pcb_tid'[q], np[s] = np[q]
          PROVE  s = q
      <3>1. \A r \in Slots : r # pid /\ active'[r] => active[r] /\ pcb_tid'[r] = pcb_tid[r] /\ np[r] = pos[r]
        BY <1>7, <2>3
      <3>2. \A r \in Slots : r # pid /\ active'[r] /\ pcb_tid'[r] = scheduled => np[r] < np[pid]
        BY <3>1, <2>3, <2>5
      <3>3. np[s] \in Nat /\ np[q] \in Nat /\ pcb_tid'[pid] = scheduled
        BY <2>3, <1>7
      <3>4. CASE s = pid \/ q = pid
        BY <3>2, <3>3, <3>4, <2>7
      <3>5. CASE s # pid /\ q # pid
        BY <3>1, <3>5, <2>1, <2>7 DEF Order
      <3> QED BY <3>4, <3>5
    <2>8. ASSUME NEW t \in Terminals, Height(t)' # 0
          PROVE  Front(t)' \in Slots /\ active'[Front(t)'] /\ pcb_tid'[Front(t)'] = t
                 /\ np[Front(t)'] = Height(t)' - 1
      <3>1. CASE t = scheduled
        <4>1. Front(t)' = pid
          BY <3>1, <1>1 DEF Front, Turn
        <4> QED BY <3>1, <4>1, <1>1, <1>6, <1>7, <1>9, <2>3
      <3>2. CASE t # scheduled
        <4>1. Front(t)' = Front(t) /\ Height(t)' = Height(t)
          BY <3>2, <1>1, <1>7, <1>9 DEF Front
        <4>2. Front(t) \in Slots /\ active[Front(t)] /\ pcb_tid[Front(t)] = t /\ pos[Front(t)] = Height(t) - 1
          BY <4>1, <2>1, <2>8 DEF Order
        <4>3. Front(t) # pid
          BY <4>2, <1>8
        <4> QED BY <4>1, <4>2, <4>3, <1>7, <2>3
      <3> QED BY <3>1, <3>2
    <2>9. Order(np)'
      <3>1. \A s \in Slots : active'[s] => np[s] < Height(pcb_tid[s])'
        BY <2>6, <1>1 DEF Height
      <3> QED BY <2>6, <2>7, <2>8, <3>1 DEF Order
    <2> QED BY <2>3, <2>9 DEF Chains
  <1>14. OneEach'
    <2>1. ASSUME NEW t \in Terminals, count_pcb'[t] = 0, NEW s \in Slots, active'[s]
          PROVE  parent_id'[s] = Null
      <3>1. t # scheduled /\ count_pcb[t] = 0
        BY <2>1, <1>6, <1>7, <1>9
      <3>2. base
        BY <3>1, <1>4 DEF AllLaunched
      <3>3. \A q \in Slots : active[q] => parent_id[q] = Null
        BY <3>1 DEF IInv, Table, OneEach
      <3> QED BY <2>1, <3>2, <3>3, <1>7
    <2> QED BY <2>1 DEF OneEach
  <1>15. BasesLow'
    <2>1. ASSUME NEW r \in Slots, NEW q \in Slots, active'[r], parent_id'[r] = Null, q < r
          PROVE  active'[q] /\ parent_id'[q] = Null
      <3>1. CASE r = pid
        <4>1. q # pid /\ active[q]
          BY <2>1, <3>1, <1>4 DEF EmptyPcb, Slots
        <4>2. base
          BY <3>1, <2>1, <1>1, <1>7
        <4>3. parent_id[q] = Null
          BY <2>1, <3>1, <4>2, <1>4
        <4> QED BY <4>1, <4>3, <1>7
      <3>2. CASE r # pid
        <4>1. active[r] /\ parent_id[r] = Null
          BY <2>1, <3>2, <1>7
        <4>2. (active[q] /\ parent_id[q] = Null) \/ (base /\ q = pid)
          BY <2>1, <4>1 DEF IInv, Table, BasesLow
        <4> QED BY <4>2, <1>7, <1>8
      <3> QED BY <3>1, <3>2
    <2> QED BY <2>1 DEF BasesLow
  <1>16. Here'
    <2>1. AtEnter'
      BY <1>1, <1>4, <1>6, <1>9 DEF AtEnter
    <2>2. AtBoot' /\ AtExec' /\ AtUser' /\ AtHead' /\ AtTail' /\ AtSched'
      BY <1>1 DEF AtBoot, AtExec, AtUser, AtHead, AtTail, AtSched, InUser
    <2>3. pid' # -1 /\ curr_pcb' # Null
      BY <1>1 DEF Slots, Null
    <2>4. sp' <= Len(stack'[on'])
      <3>1. on \in Stacks /\ sp \in Nat /\ sp <= Len(stack[on])
        BY <1>1 DEF IInv, Types, Here, InUser
      <3>2. CASE base
        BY <3>1, <3>2, <1>1, <1>2
      <3>3. CASE ~base
        <4>1. Suspended("execute") \in Frames
          BY DEF Suspended, Frames, IInv, Types
        <4>2. Len(stack'[on]) = IF sp < Len(stack[on]) THEN Len(stack[on]) ELSE sp + 1
          <5>1. Pushed(stack', on, sp, Suspended("execute"))
            BY <3>1, <3>3, <4>1, <1>3, PushFacts DEF IInv, Types
          <5> QED BY <5>1 DEF Pushed
        <4>3. Len(stack[on]) \in Nat
          BY <3>1 DEF IInv, Types
        <4> QED BY <3>1, <3>3, <4>2, <4>3, <1>1, <1>3
      <3> QED BY <3>2, <3>3
    <2>5. \A q \in Slots : active'[q] => image'[q]
      <3>1. image'[pid] /\ \A q \in Slots : q # pid => image'[q] = image[q]
        BY <1>1, <1>4 DEF IInv, Types
      <3> QED BY <3>1, <1>7 DEF IInv, Here
    <2> QED BY <1>1, <2>1, <2>2, <2>3, <2>4, <2>5 DEF Here, InUser
  <1>17. Stack'
    <2> DEFINE f == Suspended("execute")
    <2>1. /\ \A x \in Stacks : (base \/ x # curr_pcb) => stack'[x] = stack[x]
          /\ (~base => /\ 1 \in 1 .. Len(stack'[curr_pcb]) /\ stack'[curr_pcb][1] = f
                       /\ \A i \in 1 .. Len(stack'[curr_pcb]) : i # 1 =>
                            i \in 1 .. Len(stack[curr_pcb]) /\ stack'[curr_pcb][i] = stack[curr_pcb][i])
      <3>1. CASE base
        BY <3>1, <1>2
      <3>2. CASE ~base
        <4>1. curr_pcb \in Stacks /\ f \in Frames /\ stack \in [Stacks -> Seq(Frames)]
          BY <3>2, <1>11 DEF Suspended, Frames, IInv, Types, Stacks
        <4>2. 0 \in Nat /\ 0 <= Len(stack[curr_pcb]) /\ Len(stack[curr_pcb]) \in Nat
              /\ stack' = Push(curr_pcb, 0, f)
          BY <3>2, <4>1, <1>3, <1>4
        <4>3. /\ \A y \in Stacks : y # curr_pcb => stack'[y] = stack[y]
              /\ Len(stack'[curr_pcb]) = (IF 0 < Len(stack[curr_pcb]) THEN Len(stack[curr_pcb]) ELSE 0 + 1)
              /\ stack'[curr_pcb][0 + 1] = f
              /\ \A i \in 1 .. Len(stack'[curr_pcb]) : i # 0 + 1 =>
                   i \in 1 .. Len(stack[curr_pcb]) /\ stack'[curr_pcb][i] = stack[curr_pcb][i]
          <5> HIDE DEF f
          <5>1. Pushed(stack', curr_pcb, 0, f)
            BY <4>1, <4>2, PushFacts
          <5> QED BY <5>1 DEF Pushed
        <4> HIDE DEF f
        <4> QED BY <3>2, <4>2, <4>3
      <3> QED BY <3>1, <3>2
    <2>2. f.kind = "execute" /\ f.at = at /\ f.who = who
      BY DEF Suspended
    <2> HIDE DEF f
    <2>4. \A p \in Slots : /\ (base \/ p # curr_pcb) => saved'[p] = saved[p]
                           /\ (~base /\ p = curr_pcb => saved'[p] = [stack |-> curr_pcb, depth |-> 1, by |-> "execute"])
      BY <1>2, <1>3, <1>4 DEF IInv, Types
    <2>6. \A p \in Slots : (base \/ p # curr_pcb) =>
            (p # pid => Paused(p)' = Paused(p)) /\ Called(p)' = Called(p)
      BY <2>1, <2>4, <1>7 DEF Paused, Called, Ticks, Stacks
    <2>7. Stopped'
      <3>1. ASSUME NEW t \in Terminals, Waits(t)'
            PROVE  /\ Waits(t) /\ pcb_ptr[t] \in Slots /\ pcb_ptr[t] # pid
                   /\ (base \/ pcb_ptr[t] # curr_pcb)
        <4>1. t # scheduled /\ Height(t) # 0 /\ Waits(t)
          BY <3>1, <1>1, <1>7, <1>9 DEF Waits
        <4>2. pcb_ptr[t] \in Slots /\ active[pcb_ptr[t]] /\ pcb_tid[pcb_ptr[t]] = t
          BY <4>1, <1>10, Places DEF IInv
        <4> QED BY <4>1, <4>2, <1>8, <1>11
      <3> QED BY <3>1, <2>6, <1>1, <1>7 DEF IInv, Stack, Stopped
    <2>8. Callers'
      <3>1. ASSUME NEW s \in Slots, active'[s], NEW q, q = parent_id'[s], q # Null
            PROVE  Called(q)'
        <4>1. CASE s = pid
          <5>1. ~base /\ q = curr_pcb
            BY <3>1, <4>1, <1>7
          <5> QED BY <5>1, <2>1, <2>2, <2>4, <1>4, <1>11 DEF Called
        <4>2. CASE s # pid
          <5>1. active[s] /\ q = parent_id[s]
            BY <3>1, <4>2, <1>7
          <5>2. q \in Slots /\ q # Front(pcb_tid[s]) /\ pcb_tid[q] = pcb_tid[s]
            BY <3>1, <5>1, Places DEF IInv
          <5>3. base \/ q # curr_pcb
            BY <5>2, <1>10, <1>11
          <5> QED BY <3>1, <5>1, <5>2, <5>3, <2>6 DEF IInv, Stack, Callers
        <4> QED BY <4>1, <4>2
      <3>2. at'.pc # "tail"
        BY <1>1
      <3> QED BY <3>1, <3>2 DEF Callers
    <2> QED BY <2>7, <2>8 DEF Stack
  <1> QED BY <1>6, <1>12, <1>13, <1>14, <1>15, <1>16, <1>17 DEF IInv, Table
(* Where a tick finds the CPU, and the stack it suspends the context on:      *)
(* that of the process that curr_pcb names.                                *)
LEMMA TickPlace ==
  ASSUME IInv, Windows \subseteq {"leave"}, TickTaken
  PROVE  /\ at.pc \in {"boot", "user", "leave"}
         /\ (pid = -1 <=> at.pc = "boot")
         /\ (at.pc = "boot" => EntryStack = BootStack /\ EntryDepth = 0)
         /\ (at.pc # "boot" => /\ curr_pcb \in Slots /\ Height(scheduled) # 0 /\ Turn = curr_pcb
                               /\ EntryStack = curr_pcb /\ tss = curr_pcb)
         /\ (at.pc = "user" => EntryDepth = 0 /\ who = curr_pcb)
         /\ (at.pc = "leave" => Ticks(curr_pcb, EntryDepth))
         /\ EntryStack \in Stacks /\ EntryDepth \in Nat /\ EntryDepth <= Len(stack[EntryStack])
  <1>1. at.pc \in {"boot", "user", "leave"}
    BY DEF TickTaken
  <1>2. /\ stack \in [Stacks -> Seq(Frames)] /\ on \in Stacks /\ sp \in Nat
        /\ scheduled \in Terminals /\ curr_pcb \in SlotOrNull
    BY DEF IInv, Types
  <1>3. pid = -1 <=> at.pc = "boot"
    BY DEF IInv, Here, AtBoot
  <1>4. at.pc # "boot" => curr_pcb \in Slots /\ Height(scheduled) # 0 /\ Turn = curr_pcb
    <2>1. at.pc # "boot" => curr_pcb # Null
      BY <1>3 DEF TickTaken
    <2>2. at.pc # "boot" => count_pcb[scheduled] # 0
      BY <1>1 DEF IInv, Here, AtUser, AtSched, InUser
    <2> QED BY <2>1, <2>2, <1>1, <1>2 DEF SlotOrNull, Height, Turn
  <1>5. CASE at.pc = "user"
    <2>1. EntryStack = curr_pcb /\ EntryDepth = 0 /\ who = curr_pcb /\ tss = curr_pcb
      BY <1>5 DEF EntryStack, EntryDepth, InUser, IInv, Here, AtUser
    <2>2. curr_pcb \in Stacks
      BY <1>4, <1>5 DEF Stacks
    <2>3. 0 <= Len(stack[curr_pcb])
      BY <2>2, <1>2
    <2> QED BY <2>1, <2>2, <2>3, <1>1, <1>3, <1>4, <1>5
  <1>6. CASE at.pc # "user"
    <2>1. EntryStack = on /\ EntryDepth = sp
      BY <1>6 DEF EntryStack, EntryDepth, InUser
    <2>2. sp <= Len(stack[on])
      BY <1>6 DEF IInv, Here, InUser
    <2>3. at.pc = "boot" => on = BootStack /\ sp = 0
      BY DEF IInv, Here, AtBoot
    <2>4. at.pc = "leave" => on = curr_pcb /\ tss = curr_pcb /\ Ticks(curr_pcb, sp)
      BY DEF IInv, Here, AtSched
    <2> QED BY <2>1, <2>2, <2>3, <2>4, <1>1, <1>2, <1>3, <1>4, <1>6
  <1> QED BY <1>5, <1>6

(* What scheduler() saves keeps the invariant of the stacks, wherever the     *)
(* tick landed.                                                            *)
LEMMA TickSaves ==
  ASSUME IInv, Windows \subseteq {"leave"}, TickTaken, SaveOnTick,
         active' = active, parent_id' = parent_id, pcb_tid' = pcb_tid, count_pcb' = count_pcb,
         at'.pc \in {"exec", "sched"}
  PROVE  /\ stack' \in [Stacks -> Seq(Frames)] /\ saved' \in [Slots -> Contexts]
         /\ tss_esp0' \in [Slots -> SlotOrNull] /\ pcb_ptr' \in [Terminals -> SlotOrNull]
         /\ scheduled' \in Terminals /\ on' \in Stacks /\ sp' \in Nat
         /\ sp' <= Len(stack'[on'])
         /\ \A t \in Terminals : Height(t)' = Height(t)
         /\ \A t \in Terminals : Height(t) # 0 => Front(t) = pcb_ptr'[t]
         /\ Stack'
  <1> USE DEF Point
  <1> DEFINE x == EntryStack
             d == EntryDepth
             f == Suspended("tick")
  <1>1. /\ at.pc \in {"boot", "user", "leave"}
        /\ (pid = -1 <=> at.pc = "boot")
        /\ (at.pc = "boot" => x = BootStack /\ d = 0)
        /\ (at.pc # "boot" => /\ curr_pcb \in Slots /\ Height(scheduled) # 0 /\ Turn = curr_pcb
                              /\ x = curr_pcb /\ tss = curr_pcb)
        /\ (at.pc = "user" => d = 0 /\ who = curr_pcb)
        /\ (at.pc = "leave" => Ticks(curr_pcb, d))
        /\ x \in Stacks /\ d \in Nat /\ d <= Len(stack[x])
    BY TickPlace
  <1>2. f \in Frames /\ f.kind = "tick" /\ f.at = at /\ f.who = who
    BY DEF Suspended, Frames, IInv, Types
  <1>3. /\ on' = x /\ sp' = d + 1 /\ stack' = Push(x, d, f)
        /\ pcb_ptr' = [pcb_ptr EXCEPT ![scheduled] = curr_pcb]
        /\ scheduled' = NextTerminal(scheduled)
        /\ (pid = -1 => saved' = saved /\ tss_esp0' = tss_esp0)
        /\ (pid # -1 => /\ saved' = [saved EXCEPT ![curr_pcb] = [stack |-> x, depth |-> d + 1, by |-> "tick"]]
                        /\ tss_esp0' = [tss_esp0 EXCEPT ![curr_pcb] = tss])
    BY DEF SaveOnTick
  <1>4. [stack |-> x, depth |-> d + 1, by |-> "tick"] \in Contexts
    BY <1>1 DEF Contexts
  <1>5. PICK c \in Contexts : c = [stack |-> x, depth |-> d + 1, by |-> "tick"]
    BY <1>4
  <1>6. stack \in [Stacks -> Seq(Frames)]
    BY DEF IInv, Types
  <1> HIDE DEF x, d, f
  <1>7. /\ stack' \in [Stacks -> Seq(Frames)]
        /\ \A y \in Stacks : y # x => stack'[y] = stack[y]
        /\ Len(stack'[x]) = (IF d < Len(stack[x]) THEN Len(stack[x]) ELSE d + 1)
        /\ stack'[x][d + 1] = f
        /\ \A i \in 1 .. Len(stack'[x]) : i # d + 1 => i \in 1 .. Len(stack[x]) /\ stack'[x][i] = stack[x][i]
    <2>0. PICK stk : stk = stack'
      OBVIOUS
    <2>1. PICK y \in Stacks, e \in Nat, g \in Frames : y = x /\ e = d /\ g = f
      BY <1>1, <1>2
    <2>2. y \in Stacks /\ e \in Nat /\ g \in Frames /\ stk = Push(y, e, g) /\ e <= Len(stack[y])
      BY <2>0, <2>1, <1>1, <1>3
    <2>3. Pushed(stk, y, e, g)
      BY <2>2, <1>6, PushFacts
    <2> QED BY <2>0, <2>1, <2>3 DEF Pushed
  <1>8. Len(stack[x]) \in Nat /\ d + 1 \in 1 .. Len(stack'[x])
    BY <1>1, <1>6, <1>7
  <1>9. /\ scheduled' \in Terminals /\ on' \in Stacks /\ sp' \in Nat /\ sp' <= Len(stack'[on'])
        /\ pcb_ptr' \in [Terminals -> SlotOrNull]
    <2>1. scheduled' \in Terminals
      BY <1>3, PreemptAssumption DEF IInv, Types, NextTerminal, Terminals
    <2> QED BY <2>1, <1>1, <1>3, <1>7, <1>8 DEF IInv, Types
  <1>10. saved' \in [Slots -> Contexts] /\ tss_esp0' \in [Slots -> SlotOrNull]
    <2>1. CASE pid = -1
      BY <2>1, <1>3 DEF IInv, Types
    <2>2. CASE pid # -1
      BY <2>2, <1>3, <1>5 DEF IInv, Types
    <2> QED BY <2>1, <2>2
  <1>11. /\ \A p \in Slots : (pid = -1 \/ p # curr_pcb) => saved'[p] = saved[p] /\ tss_esp0'[p] = tss_esp0[p]
         /\ (pid # -1 => saved'[curr_pcb] = c /\ tss_esp0'[curr_pcb] = tss)
         /\ c.stack = x /\ c.depth = d + 1
    BY <1>1, <1>3, <1>5 DEF IInv, Types
  <1>12. /\ \A t \in Terminals : Height(t)' = Height(t)
         /\ at.pc = "boot" => \A t \in Terminals : Height(t) = 0
    BY <1>1 DEF Height, IInv, Here, AtBoot
  <1>13. \A t \in Terminals : Height(t) # 0 => Front(t) = pcb_ptr'[t]
    BY <1>1, <1>3, <1>12 DEF Front, IInv, Types
  <1>14. ASSUME NEW p \in Slots, p # curr_pcb
         PROVE  (Paused(p)' <=> Paused(p)) /\ (Called(p)' <=> Called(p))
    <2>1. saved'[p] = saved[p] /\ tss_esp0'[p] = tss_esp0[p]
      BY <1>11, <1>14
    <2>2. stack'[p] = stack[p]
      <3>1. p # x /\ p \in Stacks
        BY <1>1, <1>14 DEF Stacks, BootStack, Slots
      <3> QED BY <3>1, <1>7
    <2> QED BY <2>1, <2>2 DEF Paused, Called, Ticks
  <1>15. ASSUME NEW q \in Slots, q = curr_pcb, at.pc # "boot"
         PROVE  Paused(q)'
    <2>1. PICK k \in Nat : k = d + 1
      BY <1>1
    <2>2. PICK st : st = stack'[q]
      OBVIOUS
    <2>3. /\ saved'[q].stack = q /\ saved'[q].depth = k
          /\ tss_esp0'[q] = q
      BY <1>1, <1>11, <1>15, <2>1
    <2>4. k \in 1 .. Len(st) /\ st[k] = f
      BY <1>1, <1>7, <1>8, <1>15, <2>1, <2>2
    <2>5. ASSUME NEW e \in 1 .. k, NEW g, g = st[e]
          PROVE  /\ g.kind = "tick"
                 /\ (e = 1 => g.at.pc = "user" /\ g.who = q)
                 /\ (e # 1 => g.at.pc = "leave")
      <3>1. CASE at.pc = "user"
        <4>1. e = k /\ e = 1
          BY <3>1, <2>1, <2>5, <1>1
        <4>2. g = f
          BY <4>1, <2>4, <2>5
        <4> QED BY <3>1, <4>1, <4>2, <1>1, <1>2, <1>15
      <3>2. CASE at.pc = "leave"
        <4>1. Ticks(q, d)
          BY <3>2, <1>1, <1>15
        <4>2. d \in 1 .. Len(stack[q])
          BY <4>1 DEF Ticks
        <4>3. CASE e = k
          BY <3>2, <4>2, <4>3, <2>1, <2>4, <2>5, <1>2
        <4>4. CASE e # k
          <5>1. e \in 1 .. d /\ e # d + 1 /\ e \in 1 .. Len(st)
            BY <4>4, <2>1, <2>4, <1>1
          <5>2. g = stack[q][e]
            BY <5>1, <1>1, <1>7, <1>15, <2>2, <2>5
          <5> QED BY <4>1, <5>1, <5>2 DEF Ticks
        <4> QED BY <4>3, <4>4
      <3> QED BY <3>1, <3>2, <1>1, <1>15
    <2>6. /\ stack'[q] = st
          /\ \A e \in 1 .. k : /\ st[e].kind = "tick"
                               /\ (e = 1 => st[e].at.pc = "user" /\ st[e].who = q)
                               /\ (e # 1 => st[e].at.pc = "leave")
      BY <2>2, <2>5
    <2> QED BY <2>3, <2>4, <2>6 DEF Paused, Ticks
  <1>17. pcb_tid[curr_pcb] = scheduled \/ at.pc = "boot"
    <2>1. at.pc # "boot" => Front(scheduled) = curr_pcb /\ Height(scheduled) # 0 /\ scheduled \in Terminals
      BY <1>1 DEF Front, IInv, Types
    <2> QED BY <2>1, Places DEF IInv
  <1>18. Stopped'
    <2>1. ASSUME NEW t \in Terminals, Waits(t)', NEW p, p = pcb_ptr'[t]
          PROVE  Paused(p)'
      <3>1. Height(t) # 0 /\ at.pc # "boot"
        BY <2>1, <1>12 DEF Waits
      <3>2. p = Front(t) /\ p \in Slots /\ pcb_tid[p] = t
        BY <2>1, <3>1, <1>13, Places DEF IInv
      <3>3. CASE t = scheduled
        <4>1. p = curr_pcb
          BY <3>1, <3>2, <3>3, <1>1 DEF Front
        <4> QED BY <4>1, <3>1, <3>2, <1>15
      <3>4. CASE t # scheduled
        <4>1. p # curr_pcb
          BY <3>1, <3>2, <3>4, <1>17
        <4>2. Waits(t) /\ p = pcb_ptr[t]
          BY <2>1, <3>1, <3>4, <1>3 DEF Waits, IInv, Types
        <4>3. Paused(p)
          BY <4>2 DEF IInv, Stack, Stopped
        <4> QED BY <4>1, <4>3, <3>2, <1>14
      <3> QED BY <3>3, <3>4
    <2> QED BY <2>1 DEF Stopped
  <1>19. Callers'
    <2>1. ASSUME NEW s \in Slots, active[s], parent_id[s] # Null
          PROVE  parent_id[s] \in Slots /\ parent_id[s] # curr_pcb
      <3>1. at.pc # "boot"
        BY <2>1 DEF IInv, Here, AtBoot
      <3>2. Front(scheduled) = curr_pcb
        BY <3>1, <1>1 DEF Front
      <3> QED BY <2>1, <3>1, <3>2, <1>17, Places DEF IInv
    <2>2. ASSUME NEW s \in Slots, active[s], NEW q, q = parent_id[s], q # Null
          PROVE  Called(q)'
      BY <2>1, <2>2, <1>14 DEF IInv, Stack, Callers
    <2> QED BY <2>2 DEF Callers
  <1> QED BY <1>7, <1>9, <1>10, <1>12, <1>13, <1>18, <1>19 DEF Stack

(* A tick that finds the next terminal without a process starts its shell.    *)
LEMMA TickLaunchKeeps == Windows \subseteq {"leave"} /\ IInv /\ TickLaunch => IInv'
  <1> SUFFICES ASSUME Windows \subseteq {"leave"}, IInv, TickLaunch PROVE IInv'
    OBVIOUS
  <1> USE DEF Point
  <1>1. PICK s \in Slots : EmptyPcb(active, s) /\ pid' = s /\ page' = s
    BY DEF TickLaunch, BeginExecute
  <1>2. PICK t \in Terminals : t = NextTerminal(scheduled)
    <2>1. NextTerminal(scheduled) \in Terminals
      BY PreemptAssumption DEF IInv, Types, NextTerminal, Terminals
    <2> QED BY <2>1
  <1>3. /\ TickTaken /\ SaveOnTick /\ at' = [pc |-> "exec", parent |-> Null]
        /\ count_pcb[t] = 0
        /\ curr_pcb' = (IF pcb_ptr'[t] # Null THEN pcb_ptr'[t] ELSE curr_pcb)
        /\ active' = active /\ parent_id' = parent_id /\ pcb_tid' = pcb_tid
        /\ count_pcb' = count_pcb /\ tss' = tss /\ image' = image /\ who' = who
    BY <1>2 DEF TickLaunch, BeginExecute
  <1>4. scheduled' = t
    BY <1>2, <1>3 DEF SaveOnTick
  <1>5. /\ stack' \in [Stacks -> Seq(Frames)] /\ saved' \in [Slots -> Contexts]
        /\ tss_esp0' \in [Slots -> SlotOrNull] /\ pcb_ptr' \in [Terminals -> SlotOrNull]
        /\ scheduled' \in Terminals /\ on' \in Stacks /\ sp' \in Nat
        /\ sp' <= Len(stack'[on'])
        /\ \A u \in Terminals : Height(u)' = Height(u)
        /\ \A u \in Terminals : Height(u) # 0 => Front(u) = pcb_ptr'[u]
        /\ Stack'
    BY <1>3, TickSaves
  <1>6. at.pc \in {"boot", "user", "leave"}
    BY <1>3, TickPlace
  <1>7. Types'
    BY <1>1, <1>3, <1>5 DEF IInv, Types, SlotOrNull, Controls, Points
  <1>8. Counted' /\ Chains(Nat)'
    <2>1. \A u \in Terminals : Height(u) # 0 => Front(u)' = Front(u)
      <3>1. Height(t) = 0
        BY <1>3, <1>6 DEF Height
      <3> QED BY <3>1, <1>4, <1>5 DEF Front
    <2> QED BY <2>1, <1>3, <1>5, SameChains DEF IInv, Table
  <1>9. \A u \in Terminals : count_pcb[u] = 0 => \A q \in Slots : active[q] => parent_id[q] = Null
    BY <1>6 DEF IInv, Table, OneEach, Restarting
  <1>10. OneEach' /\ BasesLow'
    <2>1. OneEach'
      BY <1>3, <1>9 DEF OneEach
    <2>2. BasesLow'
      BY <1>3, <1>6 DEF IInv, Table, BasesLow
    <2> QED BY <2>1, <2>2
  <1>11. Here'
    <2>1. AtExec'
      <3>1. EmptyPcb(active, pid)'
        BY <1>1, <1>3 DEF EmptyPcb
      <3>2. \A q \in Slots : q < pid' => parent_id'[q] = Null
        BY <1>1, <1>3, <1>9 DEF EmptyPcb
      <3> QED BY <1>1, <1>3, <1>4, <1>5, <3>1, <3>2 DEF AtExec
    <2>2. AtBoot' /\ AtEnter' /\ AtUser' /\ AtHead' /\ AtTail' /\ AtSched'
      BY <1>3 DEF AtBoot, AtEnter, AtUser, AtHead, AtTail, AtSched, InUser
    <2>3. pid' # -1
      BY <1>1 DEF Slots
    <2>4. \A q \in Slots : active'[q] => image'[q]
      BY <1>3 DEF IInv, Here
    <2> QED BY <1>3, <1>5, <2>1, <2>2, <2>3, <2>4 DEF Here, InUser
  <1> QED BY <1>5, <1>7, <1>8, <1>10, <1>11 DEF IInv, Table

(* A tick that finds a process to switch to.                                *)
LEMMA TickSwitchKeeps == Windows \subseteq {"leave"} /\ IInv /\ TickSwitch => IInv'
  <1> SUFFICES ASSUME Windows \subseteq {"leave"}, IInv, TickSwitch PROVE IInv'
    OBVIOUS
  <1> USE DEF Point
  <1>1. PICK t \in Terminals : t = NextTerminal(scheduled)
    <2>1. NextTerminal(scheduled) \in Terminals
      BY PreemptAssumption DEF IInv, Types, NextTerminal, Terminals
    <2> QED BY <2>1
  <1>2. /\ TickTaken /\ SaveOnTick /\ at' = [pc |-> "sched", parent |-> Null]
        /\ count_pcb[t] # 0 /\ pcb_ptr'[t] # Null /\ curr_pcb' = pcb_ptr'[t] /\ page' = pcb_ptr'[t]
        /\ pid' = pid /\ active' = active /\ parent_id' = parent_id /\ pcb_tid' = pcb_tid
        /\ count_pcb' = count_pcb /\ tss' = tss /\ image' = image /\ who' = who
    BY <1>1 DEF TickSwitch
  <1>3. scheduled' = t
    BY <1>1, <1>2 DEF SaveOnTick
  <1>4. /\ stack' \in [Stacks -> Seq(Frames)] /\ saved' \in [Slots -> Contexts]
        /\ tss_esp0' \in [Slots -> SlotOrNull] /\ pcb_ptr' \in [Terminals -> SlotOrNull]
        /\ scheduled' \in Terminals /\ on' \in Stacks /\ sp' \in Nat
        /\ sp' <= Len(stack'[on'])
        /\ \A u \in Terminals : Height(u)' = Height(u)
        /\ \A u \in Terminals : Height(u) # 0 => Front(u) = pcb_ptr'[u]
        /\ Stack'
    BY <1>2, TickSaves
  <1>5. at.pc \in {"user", "leave"}
    <2>1. at.pc # "boot"
      BY <1>2 DEF IInv, Here, AtBoot
    <2> QED BY <2>1, <1>2, TickPlace
  <1>6. Types'
    BY <1>2, <1>4 DEF IInv, Types, Controls, Points, SlotOrNull
  <1>7. Counted' /\ Chains(Nat)'
    <2>1. \A u \in Terminals : Height(u) # 0 => Front(u)' = Front(u)
      BY <1>2, <1>3, <1>4 DEF Front, Turn
    <2> QED BY <2>1, <1>2, <1>4, SameChains DEF IInv, Table
  <1>8. OneEach' /\ BasesLow'
    BY <1>2, <1>5 DEF IInv, Table, OneEach, BasesLow, Restarting
  <1>9. Here'
    <2>1. AtSched'
      BY <1>2, <1>3, <1>4 DEF AtSched
    <2>2. AtBoot' /\ AtExec' /\ AtEnter' /\ AtUser' /\ AtHead' /\ AtTail'
      BY <1>2 DEF AtBoot, AtExec, AtEnter, AtUser, AtHead, AtTail, InUser
    <2>3. pid' # -1
      BY <1>2, <1>5 DEF IInv, Here
    <2>4. \A q \in Slots : active'[q] => image'[q]
      BY <1>2 DEF IInv, Here
    <2> QED BY <1>2, <1>4, <2>1, <2>2, <2>3, <2>4 DEF Here, InUser
  <1> QED BY <1>4, <1>6, <1>7, <1>8, <1>9 DEF IInv, Table

(* scheduler() loads the stack pointer of the process it switches to.         *)
LEMMA SwitchStackKeeps == IInv /\ SwitchStack => IInv'
  <1> SUFFICES ASSUME IInv, SwitchStack PROVE IInv'
    OBVIOUS
  <1> USE DEF Point
  <1>1. PICK p : p = pcb_ptr[scheduled]
    OBVIOUS
  <1>2. /\ at.pc = "sched" /\ at' = [pc |-> "esp", parent |-> Null] /\ pid' = pid /\ curr_pcb' = p
        /\ active' = active /\ parent_id' = parent_id /\ pcb_tid' = pcb_tid
        /\ tss_esp0' = tss_esp0 /\ saved' = saved /\ scheduled' = scheduled /\ pcb_ptr' = pcb_ptr
        /\ count_pcb' = count_pcb /\ tss' = tss /\ page' = page /\ image' = image /\ stack' = stack
        /\ on' = saved[p].stack /\ sp' = saved[p].depth /\ who' = who
    BY <1>1 DEF SwitchStack, pcbVars, termVars
  <1>3. curr_pcb = p /\ page = p /\ count_pcb[scheduled] # 0
    BY <1>1, <1>2 DEF IInv, Here, AtSched
  <1>4. p \in Slots /\ Waits(scheduled) /\ scheduled \in Terminals
    <2>1. p \in SlotOrNull /\ p # Null
      BY <1>2, <1>3 DEF IInv, Types, Here
    <2> QED BY <2>1, <1>2, <1>3 DEF SlotOrNull, Waits, Height, IInv, Types
  <1>5. Paused(p)
    BY <1>1, <1>4 DEF IInv, Stack, Stopped
  <1>6. on' = p /\ Ticks(p, sp') /\ sp' \in 1 .. Len(stack[p])
    BY <1>2, <1>5 DEF Paused, Ticks
  <1>7. Types'
    <2>1. on' \in Stacks /\ sp' \in Nat /\ curr_pcb' \in SlotOrNull
      BY <1>2, <1>4, <1>6 DEF Stacks, SlotOrNull
    <2>2. at' \in Controls
      BY <1>2 DEF Controls, Points, SlotOrNull
    <2> QED BY <2>1, <2>2, <1>2 DEF IInv, Types
  <1>8. \A t \in Terminals : Height(t)' = Height(t) /\ Front(t)' = Front(t)
    BY <1>2, <1>3 DEF Height, Front, Turn
  <1>9. Counted' /\ Chains(Nat)'
    BY <1>2, <1>8, SameChains DEF IInv, Table
  <1>10. OneEach' /\ BasesLow'
    BY <1>2 DEF IInv, Table, OneEach, BasesLow, Restarting
  <1>11. Here'
    <2>1. AtSched'
      <3>1. Ticks(curr_pcb, sp)'
        BY <1>2, <1>6 DEF Ticks
      <3> QED BY <3>1, <1>1, <1>2, <1>3, <1>6 DEF AtSched
    <2>2. AtBoot' /\ AtExec' /\ AtEnter' /\ AtUser' /\ AtHead' /\ AtTail'
      BY <1>2 DEF AtBoot, AtExec, AtEnter, AtUser, AtHead, AtTail, InUser
    <2>3. pid' # -1
      BY <1>2 DEF IInv, Here
    <2>4. curr_pcb' # Null /\ sp' <= Len(stack'[on'])
      BY <1>2, <1>4, <1>6 DEF Slots, Null
    <2>5. \A q \in Slots : active'[q] => image'[q]
      BY <1>2 DEF IInv, Here
    <2> QED BY <1>2, <2>1, <2>2, <2>3, <2>4, <2>5 DEF Here
  <1>12. Stack'
    <2>1. \A t \in Terminals : Waits(t)' => Waits(t)
      BY <1>2, <1>8 DEF Waits
    <2> QED BY <2>1, <1>2, SameStacks DEF IInv
  <1> QED BY <1>7, <1>9, <1>10, <1>11, <1>12 DEF IInv, Table

(* Then its kernel stack: a process that waits has its own in tss_esp0.       *)
LEMMA SwitchTssKeeps == IInv /\ SwitchTss => IInv'
  <1> SUFFICES ASSUME IInv, SwitchTss PROVE IInv'
    OBVIOUS
  <1> USE DEF Point
  <1>1. PICK p : p = pcb_ptr[scheduled]
    OBVIOUS
  <1>2. /\ at.pc = "esp" /\ at' = [pc |-> "leave", parent |-> Null] /\ pid' = pid
        /\ curr_pcb' = curr_pcb /\ active' = active /\ parent_id' = parent_id /\ pcb_tid' = pcb_tid
        /\ tss_esp0' = tss_esp0 /\ saved' = saved /\ scheduled' = scheduled /\ pcb_ptr' = pcb_ptr
        /\ count_pcb' = count_pcb /\ tss' = tss_esp0[p] /\ page' = page /\ image' = image
        /\ stack' = stack /\ on' = on /\ sp' = sp /\ who' = who
    BY <1>1 DEF SwitchTss, pcbVars, termVars
  <1>3. curr_pcb = p /\ page = p /\ count_pcb[scheduled] # 0 /\ on = p /\ Ticks(p, sp)
    BY <1>1, <1>2 DEF IInv, Here, AtSched
  <1>4. p \in Slots /\ Waits(scheduled) /\ scheduled \in Terminals
    <2>1. p \in SlotOrNull /\ p # Null
      BY <1>2, <1>3 DEF IInv, Types, Here
    <2> QED BY <2>1, <1>2, <1>3 DEF SlotOrNull, Waits, Height, IInv, Types
  <1>5. tss' = p
    BY <1>1, <1>2, <1>4 DEF IInv, Stack, Stopped, Paused
  <1>6. Types'
    <2>1. at' \in Controls /\ tss' \in SlotOrNull
      BY <1>2, <1>4, <1>5 DEF Controls, Points, SlotOrNull
    <2> QED BY <2>1, <1>2 DEF IInv, Types
  <1>7. \A t \in Terminals : Height(t)' = Height(t) /\ Front(t)' = Front(t)
    BY <1>2 DEF Height, Front, Turn
  <1>8. Counted' /\ Chains(Nat)'
    BY <1>2, <1>7, SameChains DEF IInv, Table
  <1>9. OneEach' /\ BasesLow'
    BY <1>2 DEF IInv, Table, OneEach, BasesLow, Restarting
  <1>10. Here'
    <2>1. AtSched'
      <3>1. Ticks(curr_pcb, sp)'
        BY <1>2, <1>3 DEF Ticks
      <3> QED BY <3>1, <1>2, <1>3, <1>5 DEF AtSched
    <2>2. AtBoot' /\ AtExec' /\ AtEnter' /\ AtUser' /\ AtHead' /\ AtTail'
      BY <1>2 DEF AtBoot, AtExec, AtEnter, AtUser, AtHead, AtTail, InUser
    <2>3. pid' # -1 /\ curr_pcb' # Null /\ sp' <= Len(stack'[on'])
      BY <1>2 DEF IInv, Here, InUser
    <2>4. \A q \in Slots : active'[q] => image'[q]
      BY <1>2 DEF IInv, Here
    <2> QED BY <1>2, <2>1, <2>2, <2>3, <2>4 DEF Here
  <1>11. Stack'
    <2>1. \A t \in Terminals : Waits(t)' => Waits(t)
      BY <1>2, <1>7 DEF Waits
    <2> QED BY <2>1, <1>2, SameStacks DEF IInv
  <1> QED BY <1>6, <1>8, <1>9, <1>10, <1>11 DEF IInv, Table

(* scheduler() ends by resuming what the terminal's process was doing: its     *)
(* user code, or the switch to it that a tick cut short.                   *)
LEMMA LeaveSwitchKeeps == IInv /\ LeaveSwitch => IInv'
  <1> SUFFICES ASSUME IInv, LeaveSwitch PROVE IInv'
    OBVIOUS
  <1>1. PICK f : f = stack[on][sp]
    OBVIOUS
  <1>2. /\ at.pc = "leave" /\ at' = f.at /\ pid' = pid /\ curr_pcb' = curr_pcb
        /\ active' = active /\ parent_id' = parent_id /\ pcb_tid' = pcb_tid
        /\ tss_esp0' = tss_esp0 /\ saved' = saved /\ scheduled' = scheduled /\ pcb_ptr' = pcb_ptr
        /\ count_pcb' = count_pcb /\ tss' = tss /\ page' = page /\ image' = image
        /\ stack' = stack /\ on' = on /\ sp' = sp - 1 /\ who' = f.who
    BY <1>1 DEF LeaveSwitch, pcbVars, termVars
  <1>3. /\ on = curr_pcb /\ page = curr_pcb /\ tss = curr_pcb /\ count_pcb[scheduled] # 0
        /\ Ticks(curr_pcb, sp)
    BY <1>2 DEF IInv, Here, AtSched
  <1>4. curr_pcb \in Slots
    BY <1>2 DEF IInv, Types, Here, SlotOrNull
  <1>5. /\ sp \in 1 .. Len(stack[curr_pcb]) /\ f = stack[curr_pcb][sp] /\ f.kind = "tick"
        /\ (sp = 1 => f.at.pc = "user" /\ f.who = curr_pcb)
        /\ (sp # 1 => f.at.pc = "leave")
    BY <1>1, <1>3 DEF Ticks
  <1>6. Len(stack[curr_pcb]) \in Nat /\ f \in Frames
    <2>1. stack[curr_pcb] \in Seq(Frames)
      BY <1>4 DEF IInv, Types, Stacks
    <2> QED BY <2>1, <1>5
  <1>7. Types'
    <2>1. at' \in Controls /\ who' \in SlotOrNull /\ sp' \in Nat
      BY <1>2, <1>5, <1>6 DEF Frames
    <2> QED BY <2>1, <1>2 DEF IInv, Types
  <1>8. at'.pc \in {"user", "leave"}
    BY <1>2, <1>5
  <1>9. \A t \in Terminals : Height(t)' = Height(t) /\ Front(t)' = Front(t)
    BY <1>2, <1>8 DEF Height, Front, Turn
  <1>10. Counted' /\ Chains(Nat)'
    BY <1>2, <1>9, SameChains DEF IInv, Table
  <1>11. OneEach' /\ BasesLow'
    BY <1>2, <1>8 DEF IInv, Table, OneEach, BasesLow, Restarting
  <1>12. Here'
    <2>1. AtUser'
      BY <1>2, <1>3, <1>4, <1>5 DEF AtUser, InUser
    <2>2. AtSched'
      <3>1. CASE sp = 1
        BY <3>1, <1>2, <1>5 DEF AtSched
      <3>2. CASE sp # 1
        <4>1. sp - 1 \in 1 .. Len(stack[curr_pcb]) /\ 1 .. sp - 1 \subseteq 1 .. sp
          BY <3>2, <1>5, <1>6
        <4>2. Ticks(curr_pcb, sp)'
          BY <4>1, <1>2, <1>3 DEF Ticks
        <4> QED BY <3>2, <4>2, <1>2, <1>3, <1>5 DEF AtSched
      <3> QED BY <3>1, <3>2
    <2>3. AtBoot' /\ AtExec' /\ AtEnter' /\ AtHead' /\ AtTail'
      BY <1>8 DEF AtBoot, AtExec, AtEnter, AtHead, AtTail
    <2>4. pid' # -1 /\ curr_pcb' # Null
      BY <1>2 DEF IInv, Here
    <2>5. sp' <= Len(stack'[on'])
      BY <1>2, <1>3, <1>5, <1>6
    <2>6. \A q \in Slots : active'[q] => image'[q]
      BY <1>2 DEF IInv, Here
    <2> QED BY <2>1, <2>2, <2>3, <2>4, <2>5, <2>6 DEF Here
  <1>13. Stack'
    <2>1. \A t \in Terminals : Waits(t)' => Waits(t)
      BY <1>2, <1>8, <1>9 DEF Waits
    <2> QED BY <2>1, <1>2, <1>8, SameStacks DEF IInv
  <1> QED BY <1>7, <1>10, <1>11, <1>12, <1>13 DEF IInv, Table

(* Every step keeps the invariant when ticks land where the windows say.      *)
LEMMA NextKeeps == Windows \subseteq {"leave"} /\ IInv /\ [Next]_vars => IInv'
  <1> SUFFICES ASSUME Windows \subseteq {"leave"}, IInv, [Next]_vars PROVE IInv'
    OBVIOUS
  <1>1. CASE Next
    <2>1. CASE Boot
      BY <2>1, BootKeeps
    <2>2. CASE Tick
      BY <2>2, TickLaunchKeeps, TickSwitchKeeps DEF Tick
    <2>3. CASE AllLaunched /\ (ExecuteCall \/ ExecuteFails)
      BY <2>3, ExecuteCallKeeps, ExecuteFailsKeeps
    <2>4. CASE HaltCall \/ OtherCall
      BY <2>4, HaltCallKeeps, OtherCallKeeps
    <2>5. CASE Handler
      BY <2>5, CreateProcessKeeps, EnterUserKeeps, RestartShellKeeps, CloseProcessKeeps,
         ReturnToParentKeeps, SwitchStackKeeps, SwitchTssKeeps, LeaveSwitchKeeps DEF Handler
    <2> QED BY <1>1, <2>1, <2>2, <2>3, <2>4, <2>5 DEF Next
  <1>2. CASE UNCHANGED vars
    <2>1. /\ pid' = pid /\ curr_pcb' = curr_pcb /\ active' = active /\ parent_id' = parent_id
          /\ pcb_tid' = pcb_tid /\ tss_esp0' = tss_esp0 /\ saved' = saved /\ scheduled' = scheduled
          /\ pcb_ptr' = pcb_ptr /\ count_pcb' = count_pcb /\ tss' = tss /\ page' = page
          /\ image' = image /\ stack' = stack /\ at' = at /\ who' = who /\ on' = on /\ sp' = sp
      BY <1>2 DEF vars, pcbVars, termVars, cpuVars
    <2>2. Types'
      BY <2>1 DEF IInv, Types
    <2>3. \A t \in Terminals : Height(t)' = Height(t) /\ Front(t)' = Front(t)
      BY <2>1 DEF Height, Front, Turn
    <2>4. Counted' /\ Chains(Nat)'
      BY <2>1, <2>3, SameChains DEF IInv, Table
    <2>5. OneEach' /\ BasesLow'
      BY <2>1 DEF IInv, Table, OneEach, BasesLow, Restarting
    <2>6. AtBoot' /\ AtExec' /\ AtEnter'
      BY <2>1 DEF IInv, Here, AtBoot, AtExec, AtEnter, EmptyPcb, AllLaunched
    <2>7. AtUser' /\ AtHead' /\ AtTail' /\ AtSched'
      BY <2>1 DEF IInv, Here, AtUser, AtHead, AtTail, AtSched, Ticks, InUser
    <2>8. Here'
      BY <2>1, <2>6, <2>7 DEF IInv, Here, InUser
    <2>9. \A p : (Paused(p)' <=> Paused(p)) /\ (Called(p)' <=> Called(p))
      BY <2>1 DEF Paused, Called, Ticks
    <2>10. Stopped' /\ Callers'
      BY <2>1, <2>3, <2>9 DEF IInv, Stack, Stopped, Callers, Waits
    <2> QED BY <2>2, <2>4, <2>5, <2>8, <2>10 DEF IInv, Table, Stack
  <1> QED BY <1>1, <1>2
-----------------------------------------------------------------------------
(* What the invariant says of the code.                                     *)

(* The process in user mode is the last one of its terminal's chain.         *)
LEMMA InvUser == IInv /\ InUser =>
                   /\ who \in Slots /\ active[who] /\ pcb_tid[who] = scheduled
                   /\ curr_pcb = who /\ tss = who /\ page = who /\ image[who]
  <1> SUFFICES ASSUME IInv, InUser
               PROVE  /\ who \in Slots /\ active[who] /\ pcb_tid[who] = scheduled
                      /\ curr_pcb = who /\ tss = who /\ page = who /\ image[who]
    OBVIOUS
  <1>1. /\ curr_pcb \in Slots /\ count_pcb[scheduled] # 0
        /\ who = curr_pcb /\ tss = curr_pcb /\ page = curr_pcb
    BY DEF IInv, Here, AtUser
  <1>2. scheduled \in Terminals /\ Height(scheduled) # 0 /\ Front(scheduled) = curr_pcb
    BY <1>1 DEF InUser, Height, Front, Turn, IInv, Types
  <1>3. active[curr_pcb] /\ pcb_tid[curr_pcb] = scheduled
    BY <1>2, Places DEF IInv
  <1>4. image[curr_pcb]
    BY <1>1, <1>3 DEF IInv, Here
  <1> QED BY <1>1, <1>3, <1>4

(* Two base shells of one terminal would share its first place.              *)
LEMMA InvOneBaseShell == IInv => OneBaseShell
  <1> SUFFICES ASSUME IInv PROVE OneBaseShell
    OBVIOUS
  <1>1. PICK pos \in [Slots -> Nat] : Order(pos)
    BY DEF IInv, Chains
  <1>2. \A s \in Slots : active[s] /\ parent_id[s] = Null => pos[s] = 0
    BY <1>1 DEF Order
  <1>3. \A s, q \in Slots : active[s] /\ active[q] /\ pcb_tid[s] = pcb_tid[q] /\ pos[s] = pos[q] => s = q
    BY <1>1 DEF Order
  <1> QED BY <1>2, <1>3 DEF OneBaseShell

(* What a handler needs next is there.                                       *)
LEMMA InvNeverLost == IInv => NeverLost
  <1> SUFFICES ASSUME IInv PROVE NeverLost
    OBVIOUS
  <1>1. at.pc = "exec" => pid \in Slots
    BY DEF IInv, Here, AtExec
  <1>2. at.pc = "tail" => Intact(at.parent, "execute")
    BY DEF IInv, Stack, Callers, Called, Intact
  <1>3. ASSUME at.pc = "sched" PROVE Intact(pcb_ptr[scheduled], "tick")
    <2>1. scheduled \in Terminals /\ count_pcb[scheduled] # 0
      BY <1>3 DEF IInv, Types, Here, AtSched
    <2>2. Waits(scheduled)
      BY <1>3, <2>1 DEF Waits, Height
    <2>3. Paused(pcb_ptr[scheduled])
      BY <2>1, <2>2 DEF IInv, Stack, Stopped
    <2> QED BY <2>3 DEF Paused, Ticks, Intact
  <1>4. ASSUME at.pc = "leave" PROVE TopIntact
    <2>1. on = curr_pcb /\ Ticks(curr_pcb, sp)
      BY <1>4 DEF IInv, Here, AtSched
    <2> QED BY <2>1 DEF Ticks, TopIntact
  <1> QED BY <1>1, <1>2, <1>3, <1>4 DEF NeverLost

(* The invariant holds of every behaviour whose ticks land in user mode, or    *)
(* in scheduler() once it has loaded the TSS of the process it resumes.    *)
LEMMA SpecInv == Windows \subseteq {"leave"} /\ Spec => []IInv
  <1>1. IInv /\ [Next]_vars /\ Windows \subseteq {"leave"} => IInv'
    BY NextKeeps
  <1>2. CASE Windows \subseteq {"leave"}
    <2>1. IInv /\ [Next]_vars => IInv'
      BY <1>1, <1>2
    <2> QED BY <2>1, InitInv, PTL DEF Spec
  <1>3. CASE ~(Windows \subseteq {"leave"})
    BY <1>3
  <1> QED BY <1>2, <1>3

(* For every number of slots and terminals and every depth of nesting: user   *)
(* code runs with its own page mapped and its own program in it            *)
(* (execute.c:45, 118), when ticks land in user mode and in scheduler()    *)
(* after line 317, where the switch to a process can be cut short again    *)
(* and again.                                                              *)
THEOREM PreemptOwnProgram ==
  ASSUME Windows \subseteq {"leave"}
  PROVE  Spec => []RunsOwnProgram
  <1>1. IInv => RunsOwnProgram
    BY InvUser DEF RunsOwnProgram
  <1>2. Spec => []IInv
    BY SpecInv
  <1> QED BY <1>1, <1>2, PTL

(* Under the same ticks curr_pcb, the TSS and the turn stand for the process  *)
(* that runs (execute.c:276).                                              *)
THEOREM PreemptKnowsWho ==
  ASSUME Windows \subseteq {"leave"}
  PROVE  Spec => []KernelKnowsWho
  <1>1. IInv => KernelKnowsWho
    BY InvUser DEF KernelKnowsWho
  <1>2. Spec => []IInv
    BY SpecInv
  <1> QED BY <1>1, <1>2, PTL

(* Under the same ticks a terminal has one base shell (execute.c:303).        *)
THEOREM PreemptOneShell ==
  ASSUME Windows \subseteq {"leave"}
  PROVE  Spec => []OneBaseShell
  <1>1. Spec => []IInv
    BY SpecInv
  <1> QED BY <1>1, InvOneBaseShell, PTL

(* Under the same ticks no handler of execute.c jumps to a context that is no  *)
(* longer on its stack (execute.c:152-160, 308-321): the three theorems    *)
(* before this one leave out no state of the code.                         *)
THEOREM PreemptNeverLost ==
  ASSUME Windows \subseteq {"leave"}
  PROVE  Spec => []NeverLost
  <1>1. Spec => []IInv
    BY SpecInv
  <1> QED BY <1>1, InvNeverLost, PTL

-----------------------------------------------------------------------------
(* With ticks in user mode only, each step of a handler that module        *)
(* ProcessPreempt cuts at its sti() is a step of module Process or changes  *)
(* nothing there: HandlersAreAtomic without its fairness, for every number *)
(* of slots and terminals.                                                 *)

(* A context is saved at the start of its process's own stack.               *)
Flat == \A s \in Slots : saved[s].depth = 0 \/ (saved[s].depth = 1 /\ saved[s].stack = s)

-----------------------------------------------------------------------------
(* What a handler that is not finished has made of the state seen.  Process   *)
(* finds this in kstack, when the handler is finished, except for the      *)
(* process that runs then.                                                 *)
Left(s) == IF active[s] /\ Intact(s, saved[s].by) THEN saved[s].by ELSE "user"
SavedBy == [s \in Slots |-> saved[s].by]

(* The three ways to the body of execute(): a call (also that of entry()), a  *)
(* base shell that halts, a tick; and what each hands over to it.          *)
Loading(way) ==
  CASE way = "call" ->
         [cp |-> seen.curr_pcb, t |-> seen.scheduled, act |-> seen.active,
          cnt |-> seen.count_pcb, sav |-> seen.saved_esp, te |-> seen.tss_esp0,
          ptr |-> seen.pcb_ptr,
          left |-> IF seen.curr_pcb = Null THEN seen.kstack
                   ELSE [seen.kstack EXCEPT ![seen.curr_pcb] = "execute"]]
    [] way = "restart" ->
         [cp |-> seen.curr_pcb, t |-> seen.scheduled,
          act |-> [seen.active EXCEPT ![seen.curr_pcb] = FALSE],
          cnt |-> [seen.count_pcb EXCEPT ![seen.scheduled] = Down(@)],
          sav |-> seen.saved_esp, te |-> seen.tss_esp0, ptr |-> seen.pcb_ptr,
          left |-> seen.kstack]
    [] way = "tick" ->
         [cp |-> Atomic!PcbAfterTick(NextTerminal(seen.scheduled)),
          t |-> NextTerminal(seen.scheduled), act |-> seen.active,
          cnt |-> seen.count_pcb, sav |-> Atomic!SavedOnTick, te |-> Atomic!TssOnTick,
          ptr |-> Atomic!PtrOnTick, left |-> Atomic!StackOnTick]

(* When each of them is taken, and whether a base shell is loaded.          *)
Taken(way, base) ==
  \/ /\ way = "call" /\ base /\ seen.curr_pcb = Null
     /\ \A s \in Slots : seen.kstack[s] = "user"
  \/ way = "call" /\ ~base /\ seen.curr_pcb \in Slots /\ Atomic!AllLaunched
  \/ way = "restart" /\ base /\ seen.curr_pcb \in Slots /\ seen.parent_id[seen.curr_pcb] = Null
  \/ way = "tick" /\ base

Begun(way) ==
  LET o == Loading(way)
      base == o.cnt[o.t] = 0
  IN  /\ Taken(way, base)
      /\ curr_pcb = o.cp /\ scheduled = o.t /\ active = o.act /\ count_pcb = o.cnt
      /\ SavedBy = o.sav /\ tss_esp0 = o.te /\ pcb_ptr = o.ptr
      /\ parent_id = seen.parent_id /\ pcb_tid = seen.pcb_tid /\ tss = seen.tss
      /\ \A s \in Slots : base \/ s # curr_pcb => o.left[s] = Left(s)

Created(way) ==
  LET o == Loading(way)
      base == o.cnt[o.t] = 0
  IN  /\ Taken(way, base)
      /\ EmptyPcb(o.act, pid) /\ curr_pcb = pid /\ page = pid /\ scheduled = o.t
      /\ active    = [o.act EXCEPT ![pid] = TRUE]
      /\ parent_id = [seen.parent_id EXCEPT ![pid] = IF base THEN Null ELSE o.cp]
      /\ pcb_tid   = [seen.pcb_tid EXCEPT ![pid] = o.t]
      /\ tss_esp0  = [o.te EXCEPT ![pid] = seen.tss]
      /\ count_pcb = [o.cnt EXCEPT ![o.t] = Up(@)]
      /\ SavedBy   = IF base THEN o.sav ELSE [o.sav EXCEPT ![o.cp] = "execute"]
      /\ pcb_ptr = o.ptr /\ tss = seen.tss
      /\ \A s \in Slots : s # pid => o.left[s] = Left(s)

Ways == {"call", "restart", "tick"}

(* What halt() and scheduler() leave alone on their way.                     *)
Copied == /\ seen.pid = pid /\ seen.curr_pcb = curr_pcb /\ seen.scheduled = scheduled
          /\ seen.parent_id = parent_id /\ seen.pcb_tid = pcb_tid /\ seen.tss_esp0 = tss_esp0
          /\ seen.saved_esp = SavedBy /\ seen.pcb_ptr = pcb_ptr /\ seen.tss = tss

(* halt(), after it counted and after it closed the process.                *)
Counting == /\ Copied /\ who = curr_pcb
            /\ count_pcb = [seen.count_pcb EXCEPT ![scheduled] = Down(@)]
            /\ seen.active = active /\ seen.page = page
            /\ \A s \in Slots : seen.kstack[s] = IF s = who THEN "user" ELSE Left(s)
Closing  == /\ Copied /\ curr_pcb \in Slots
            /\ at.parent = parent_id[curr_pcb] /\ at.parent # Null
            /\ count_pcb = [seen.count_pcb EXCEPT ![scheduled] = Down(@)]
            /\ active = [seen.active EXCEPT ![curr_pcb] = FALSE]
            /\ \A s \in Slots : seen.kstack[s] = Left(s)

(* scheduler(), on its way to a process, in three steps.                    *)
Switching ==
  LET t == NextTerminal(seen.scheduled) IN
  /\ seen.curr_pcb \in Slots /\ seen.count_pcb[t] # 0
  /\ scheduled = t /\ pcb_ptr = Atomic!PtrOnTick /\ SavedBy = Atomic!SavedOnTick
  /\ tss_esp0 = Atomic!TssOnTick
  /\ pid = seen.pid /\ active = seen.active /\ parent_id = seen.parent_id
  /\ pcb_tid = seen.pcb_tid /\ count_pcb = seen.count_pcb
  /\ (at.pc # "sched" => sp = saved[curr_pcb].depth)
  /\ (at.pc = "leave" => tss = tss_esp0[curr_pcb] /\ curr_pcb = pcb_ptr[scheduled])
  /\ \A s \in Slots : Atomic!StackOnTick[s] = Left(s)

Sees == /\ seen.kstack \in [Slots -> {"user", "execute", "tick"}]
        /\ at.pc \in {"boot", "user"} => seen = View
        /\ at.pc = "exec"  => \E way \in Ways : Begun(way)
        /\ at.pc = "enter" => \E way \in Ways : Created(way)
        /\ at.pc = "head"  => Counting
        /\ at.pc = "tail"  => Closing
        /\ at.pc \in {"sched", "esp", "leave"} => Switching

AInv == IInv /\ Flat /\ Sees

(* The safety part of HandlersAreAtomic.                                    *)
AtomicSafe == Atomic!Init /\ [][Atomic!QuietNext]_(Atomic!vars)

-----------------------------------------------------------------------------
(* Contexts on the stacks.                                                  *)

(* With ticks in user mode only, a context is stored at the start of the     *)
(* stack of the process that curr_pcb names.                               *)
LEMMA Stored ==
  ASSUME stack \in [Stacks -> Seq(Frames)], saved \in [Slots -> Contexts], NEW c \in Slots,
         NEW kind \in {"tick", "execute"}, Suspended(kind) \in Frames,
         stack' = Push(c, 0, Suspended(kind)),
         saved' = [saved EXCEPT ![c] = [stack |-> c, depth |-> 1, by |-> kind]]
  PROVE  /\ \A y \in Stacks : y # c => stack'[y] = stack[y]
         /\ 1 \in 1 .. Len(stack'[c]) /\ stack'[c][1] = Suspended(kind)
         /\ \A i \in 1 .. Len(stack'[c]) : i # 1 => i \in 1 .. Len(stack[c]) /\ stack'[c][i] = stack[c][i]
         /\ saved'[c].stack = c /\ saved'[c].depth = 1 /\ saved'[c].by = kind
         /\ \A s \in Slots : s # c => saved'[s] = saved[s]
         /\ SavedBy' = [SavedBy EXCEPT ![c] = kind]
  <1>1. c \in Stacks /\ 0 <= Len(stack[c]) /\ Len(stack[c]) \in Nat /\ stack[c] \in Seq(Frames)
    BY DEF Stacks
  <1>0. PICK stk : stk = stack'
    OBVIOUS
  <1>2. PICK f \in Frames : f = Suspended(kind)
    OBVIOUS
  <1>3. Pushed(stk, c, 0, f)
    BY <1>0, <1>1, <1>2, PushFacts
  <1>4. PICK r : r = [stack |-> c, depth |-> 1, by |-> kind]
    OBVIOUS
  <1>5. saved' = [saved EXCEPT ![c] = r] /\ r.stack = c /\ r.depth = 1 /\ r.by = kind
    BY <1>4
  <1>6. saved'[c] = r /\ \A s \in Slots : s # c => saved'[s] = saved[s]
    BY <1>5
  <1>7. SavedBy' = [SavedBy EXCEPT ![c] = kind]
    BY <1>5, <1>6 DEF SavedBy
  <1>8. 1 \in 1 .. Len(stk[c]) /\ 0 + 1 = 1
    BY <1>1, <1>3 DEF Pushed
  <1> QED BY <1>0, <1>2, <1>3, <1>5, <1>6, <1>7, <1>8 DEF Pushed

(* What is left of a process depends on its own PCB and stack only.          *)
LEMMA SameLeft ==
  ASSUME Flat, NEW s \in Slots, saved'[s] = saved[s], stack'[s] = stack[s], active'[s] = active[s]
  PROVE  Left(s)' = Left(s)
  <1>1. CASE saved[s].depth = 0
    BY <1>1 DEF Left, Intact
  <1>2. CASE saved[s].depth = 1 /\ saved[s].stack = s
    BY <1>2 DEF Left, Intact
  <1> QED BY <1>1, <1>2 DEF Flat

LEMMA NowLeft ==
  ASSUME NEW s \in Slots, active'[s], saved'[s].stack = s, saved'[s].depth = 1,
         1 \in 1 .. Len(stack'[s]), stack'[s][1].kind = saved'[s].by
  PROVE  Left(s)' = saved'[s].by
  BY DEF Left, Intact

(* Where a tick in user mode, or one before the first process, saves.        *)
LEMMA TickStores ==
  ASSUME IInv, Windows = {}, TickTaken, SaveOnTick
  PROVE  /\ at.pc \in {"boot", "user"}
         /\ (at.pc = "boot" => /\ pid = -1 /\ saved' = saved /\ tss_esp0' = tss_esp0
                               /\ \A y \in Slots : stack'[y] = stack[y]
                               /\ stack' = Push(BootStack, 0, Suspended("tick")))
         /\ (at.pc = "user" => /\ pid # -1 /\ curr_pcb \in Slots /\ who = curr_pcb
                               /\ stack' = Push(curr_pcb, 0, Suspended("tick"))
                               /\ saved' = [saved EXCEPT ![curr_pcb] =
                                              [stack |-> curr_pcb, depth |-> 1, by |-> "tick"]]
                               /\ tss_esp0' = [tss_esp0 EXCEPT ![curr_pcb] = tss])
  <1>1. at.pc \in {"boot", "user"}
    BY DEF TickTaken
  <1>2. CASE at.pc = "boot"
    <2>1. pid = -1 /\ EntryStack = BootStack /\ EntryDepth = 0
      BY <1>2 DEF IInv, Here, AtBoot, EntryStack, EntryDepth, InUser
    <2>2. stack' = Push(BootStack, 0, Suspended("tick")) /\ saved' = saved /\ tss_esp0' = tss_esp0
      BY <2>1 DEF SaveOnTick
    <2>3. \A y \in Slots : y # BootStack /\ y \in Stacks
      BY DEF Slots, BootStack, Stacks
    <2>4. \A y \in Slots : stack'[y] = stack[y]
      BY <2>2, <2>3 DEF Push, IInv, Types
    <2> QED BY <1>2, <2>1, <2>2, <2>4
  <1>3. CASE at.pc = "user"
    <2>1. /\ EntryStack = curr_pcb /\ EntryDepth = 0 /\ who = curr_pcb /\ pid # -1 /\ curr_pcb \in Slots
      BY <1>3, TickPlace
    <2> QED BY <1>3, <2>1 DEF SaveOnTick
  <1> QED BY <1>1, <1>2, <1>3

LEMMA ContextsKept ==
  ASSUME Windows = {}, IInv, Flat, Next
  PROVE  Flat'
  <1>1. stack \in [Stacks -> Seq(Frames)] /\ saved \in [Slots -> Contexts]
    BY DEF IInv, Types
  <1>2. CASE UNCHANGED <<saved, stack>>
    BY <1>2 DEF Flat
  <1>3. ASSUME NEW c \in Slots, NEW kind \in {"tick", "execute"}, Suspended(kind) \in Frames,
               stack' = Push(c, 0, Suspended(kind)),
               saved' = [saved EXCEPT ![c] = [stack |-> c, depth |-> 1, by |-> kind]]
        PROVE  Flat'
    <2>1. PICK r : r = [stack |-> c, depth |-> 1, by |-> kind]
      OBVIOUS
    <2>2. saved'[c] = r /\ r.stack = c /\ r.depth = 1 /\ \A s \in Slots : s # c => saved'[s] = saved[s]
      BY <1>1, <1>3, <2>1
    <2> QED BY <2>2 DEF Flat
  <1>4. ASSUME NEW kind \in {"tick", "execute"} PROVE Suspended(kind) \in Frames
    BY DEF IInv, Types, Suspended, Frames
  <1>5. CASE OtherCall
    BY <1>5 DEF OtherCall, Flat
  <1>6. CASE CreateProcess
    <2>1. CASE count_pcb[scheduled] = 0
      BY <1>2, <1>6, <2>1 DEF CreateProcess
    <2>2. CASE count_pcb[scheduled] # 0
      <3>1. on = curr_pcb /\ sp = 0 /\ curr_pcb \in SlotOrNull /\ curr_pcb # Null
        BY <1>6, <2>2 DEF CreateProcess, IInv, Here, AtExec, Types
      <3>2. /\ stack' = Push(curr_pcb, 0, Suspended("execute"))
            /\ saved' = [saved EXCEPT ![curr_pcb] = [stack |-> curr_pcb, depth |-> 1, by |-> "execute"]]
        BY <1>6, <2>2, <3>1 DEF CreateProcess
      <3> QED BY <1>3, <1>4, <3>1, <3>2 DEF SlotOrNull
    <2> QED BY <2>1, <2>2
  <1>7. CASE Tick
    <2>1. TickTaken /\ SaveOnTick
      BY <1>7 DEF Tick, TickLaunch, TickSwitch
    <2>2. at.pc \in {"boot", "user"}
      BY <2>1, TickStores
    <2>3. CASE at.pc = "user"
      BY <1>3, <1>4, <2>1, <2>3, TickStores
    <2>4. CASE at.pc = "boot"
      BY <2>1, <2>4, TickStores DEF Flat
    <2> QED BY <2>2, <2>3, <2>4
  <1>8. CASE Boot \/ ExecuteCall \/ ExecuteFails \/ HaltCall \/ EnterUser
    BY <1>2, <1>8 DEF Boot, ExecuteCall, ExecuteFails, HaltCall, EnterUser
  <1>9. CASE RestartShell \/ CloseProcess \/ ReturnToParent
    BY <1>2, <1>9 DEF RestartShell, CloseProcess, ReturnToParent
  <1>10. CASE SwitchStack \/ SwitchTss \/ LeaveSwitch
    BY <1>2, <1>10 DEF SwitchStack, SwitchTss, LeaveSwitch
  <1> QED BY <1>5, <1>6, <1>7, <1>8, <1>9, <1>10 DEF Next, Handler

-----------------------------------------------------------------------------
(* What each way hands over.                                                *)
LEMMA CallWay ==
  LET o == Loading("call") IN
  /\ o.cp = seen.curr_pcb /\ o.t = seen.scheduled /\ o.act = seen.active /\ o.cnt = seen.count_pcb
  /\ o.sav = seen.saved_esp /\ o.te = seen.tss_esp0 /\ o.ptr = seen.pcb_ptr
  /\ o.left = IF seen.curr_pcb = Null THEN seen.kstack
              ELSE [seen.kstack EXCEPT ![seen.curr_pcb] = "execute"]
  BY DEF Loading

LEMMA RestartWay ==
  LET o == Loading("restart") IN
  /\ o.cp = seen.curr_pcb /\ o.t = seen.scheduled
  /\ o.act = [seen.active EXCEPT ![seen.curr_pcb] = FALSE]
  /\ o.cnt = [seen.count_pcb EXCEPT ![seen.scheduled] = Down(@)]
  /\ o.sav = seen.saved_esp /\ o.te = seen.tss_esp0 /\ o.ptr = seen.pcb_ptr
  /\ o.left = seen.kstack
  BY DEF Loading

LEMMA TickWay ==
  LET o == Loading("tick")
      t == NextTerminal(seen.scheduled)
  IN
  /\ o.cp = Atomic!PcbAfterTick(t) /\ o.t = t /\ o.act = seen.active /\ o.cnt = seen.count_pcb
  /\ o.sav = Atomic!SavedOnTick /\ o.te = Atomic!TssOnTick /\ o.ptr = Atomic!PtrOnTick
  /\ o.left = Atomic!StackOnTick
  BY DEF Loading

(* In user mode, and before the first process, Process sees what is there.   *)
LEMMA SeenNow ==
  ASSUME IInv, Sees, at.pc \in {"boot", "user"}
  PROVE  /\ Copied /\ seen.active = active /\ seen.count_pcb = count_pcb /\ seen.page = page
         /\ \A s \in Slots : seen.kstack[s] = IF s = who THEN "user" ELSE Left(s)
  <1>1. seen = View
    BY DEF Sees
  <1>2. Copied /\ seen.active = active /\ seen.count_pcb = count_pcb /\ seen.page = page
    BY <1>1 DEF View, Copied, SavedBy
  <1>3. seen.kstack = [s \in Slots |-> FrameOf(s)]
    BY <1>1 DEF View
  <1>4. \A s \in Slots : FrameOf(s) = IF s = who THEN "user" ELSE Left(s)
    BY DEF FrameOf, Left
  <1> QED BY <1>2, <1>3, <1>4

-----------------------------------------------------------------------------
(* The first step of each handler: what Process sees has not moved yet.      *)

(* entry() calls execute().                                                 *)
LEMMA BootSees == ASSUME IInv, Sees, Boot, See PROVE Sees' /\ seen' = seen
  <1>1. /\ at.pc = "boot" /\ at'.pc = "exec" /\ curr_pcb' = curr_pcb /\ scheduled' = scheduled
        /\ active' = active /\ count_pcb' = count_pcb /\ saved' = saved /\ tss_esp0' = tss_esp0
        /\ pcb_ptr' = pcb_ptr /\ parent_id' = parent_id /\ pcb_tid' = pcb_tid /\ tss' = tss
    BY DEF Boot, BeginExecute, Point, pcbVars, termVars
  <1>2. seen' = seen
    BY <1>1 DEF See
  <1>3. Copied /\ seen.active = active /\ seen.count_pcb = count_pcb /\ SavedBy' = SavedBy
    BY <1>1, SeenNow DEF SavedBy
  <1>4. /\ curr_pcb = Null /\ who \in SlotOrNull /\ scheduled \in Terminals
        /\ \A s \in Slots : ~active[s] /\ Left(s) = "user" /\ Left(s)' = "user"
        /\ \A t \in Terminals : count_pcb[t] = 0
    BY <1>1 DEF IInv, Types, Here, AtBoot, Left
  <1>5. \A s \in Slots : seen.kstack[s] = "user"
    BY <1>1, <1>4, SeenNow
  <1>6. Loading("call")' = Loading("call")
    BY <1>2 DEF Loading, Atomic!PcbAfterTick, Atomic!PtrOnTick, Atomic!SavedOnTick, Atomic!TssOnTick,
                Atomic!StackOnTick
  <1>7. PICK o : o = Loading("call")
    OBVIOUS
  <1>8. /\ o.cp = curr_pcb /\ o.t = scheduled /\ o.act = active /\ o.cnt = count_pcb
        /\ o.sav = SavedBy /\ o.te = tss_esp0 /\ o.ptr = pcb_ptr /\ o.left = seen.kstack
    BY <1>3, <1>4, <1>7, CallWay DEF Copied
  <1>9. Taken("call", TRUE)'
    BY <1>2, <1>3, <1>4, <1>5 DEF Taken, Copied
  <1>10. Begun("call")'
    BY <1>1, <1>2, <1>3, <1>4, <1>5, <1>6, <1>7, <1>8, <1>9 DEF Begun, Copied
  <1> QED BY <1>1, <1>2, <1>10 DEF Sees, Ways

(* A program calls execute().                                               *)
LEMMA ExecuteCallSees ==
  ASSUME IInv, Flat, Sees, AllLaunched, ExecuteCall, See
  PROVE  Sees' /\ seen' = seen
  <1>1. /\ at.pc = "user" /\ at'.pc = "exec" /\ curr_pcb' = curr_pcb /\ scheduled' = scheduled
        /\ active' = active /\ count_pcb' = count_pcb /\ saved' = saved /\ tss_esp0' = tss_esp0
        /\ pcb_ptr' = pcb_ptr /\ parent_id' = parent_id /\ pcb_tid' = pcb_tid /\ tss' = tss
        /\ stack' = stack
    BY DEF ExecuteCall, InUser, BeginExecute, Point, pcbVars, termVars
  <1>2. seen' = seen
    BY <1>1 DEF See
  <1>3. Copied /\ seen.active = active /\ seen.count_pcb = count_pcb /\ SavedBy' = SavedBy
    BY <1>1, SeenNow DEF SavedBy
  <1>4. curr_pcb \in Slots /\ who = curr_pcb /\ count_pcb[scheduled] # 0 /\ curr_pcb # Null
    BY <1>1 DEF IInv, Here, AtUser, InUser, Slots, Null
  <1>5. \A s \in Slots : s # curr_pcb => seen.kstack[s] = Left(s) /\ Left(s)' = Left(s)
    BY <1>1, <1>4, SeenNow, SameLeft
  <1>6. Loading("call")' = Loading("call")
    BY <1>2 DEF Loading, Atomic!PcbAfterTick, Atomic!PtrOnTick, Atomic!SavedOnTick, Atomic!TssOnTick,
                Atomic!StackOnTick
  <1>7. PICK o : o = Loading("call")
    OBVIOUS
  <1>8. /\ o.cp = curr_pcb /\ o.t = scheduled /\ o.act = active /\ o.cnt = count_pcb
        /\ o.sav = SavedBy /\ o.te = tss_esp0 /\ o.ptr = pcb_ptr
        /\ o.left = [seen.kstack EXCEPT ![curr_pcb] = "execute"]
    BY <1>3, <1>4, <1>7, CallWay DEF Copied
  <1>9. Taken("call", FALSE)'
    BY <1>2, <1>3, <1>4 DEF Taken, Copied, AllLaunched, Atomic!AllLaunched, Terminals, Atomic!Terminals
  <1>10. \A s \in Slots : s # curr_pcb => o.left[s] = Left(s)'
    BY <1>5, <1>8 DEF Sees
  <1>11. Begun("call")'
    BY <1>1, <1>2, <1>3, <1>4, <1>6, <1>7, <1>8, <1>9, <1>10 DEF Begun, Copied
  <1> QED BY <1>1, <1>2, <1>11 DEF Sees, Ways

(* A program halts.                                                         *)
LEMMA HaltCallSees == ASSUME IInv, Flat, Sees, HaltCall, See PROVE Sees' /\ seen' = seen
  <1>1. /\ at.pc = "user" /\ at'.pc = "head" /\ pid' = pid /\ curr_pcb' = curr_pcb /\ scheduled' = scheduled
        /\ active' = active /\ saved' = saved /\ tss_esp0' = tss_esp0 /\ page' = page
        /\ pcb_ptr' = pcb_ptr /\ parent_id' = parent_id /\ pcb_tid' = pcb_tid /\ tss' = tss
        /\ stack' = stack /\ who' = who
        /\ count_pcb' = [count_pcb EXCEPT ![scheduled] = Down(@)]
    BY DEF HaltCall, InUser, Point, pcbVars
  <1>2. seen' = seen
    BY <1>1 DEF See
  <1>3. /\ Copied /\ seen.active = active /\ seen.count_pcb = count_pcb /\ seen.page = page
        /\ SavedBy' = SavedBy
    BY <1>1, SeenNow DEF SavedBy
  <1>4. who = curr_pcb
    BY <1>1 DEF IInv, Here, AtUser, InUser
  <1>5. \A s \in Slots : seen.kstack[s] = (IF s = who THEN "user" ELSE Left(s)) /\ Left(s)' = Left(s)
    BY <1>1, SeenNow, SameLeft
  <1>6. Copied'
    BY <1>1, <1>2, <1>3 DEF Copied
  <1>7. Counting'
    BY <1>1, <1>2, <1>3, <1>4, <1>5, <1>6 DEF Counting
  <1> QED BY <1>1, <1>2, <1>7 DEF Sees

(* What a tick saves, as Process sees it.                                   *)
LEMMA TickSeen ==
  ASSUME IInv, Windows = {}, Flat, Sees, TickTaken, SaveOnTick, seen' = seen, active' = active
  PROVE  /\ Copied /\ seen.active = active /\ seen.count_pcb = count_pcb
         /\ scheduled' = NextTerminal(seen.scheduled) /\ pcb_ptr' = Atomic!PtrOnTick
         /\ SavedBy' = Atomic!SavedOnTick /\ tss_esp0' = Atomic!TssOnTick
         /\ \A s \in Slots : Atomic!StackOnTick[s] = Left(s)'
  <1>1. at.pc \in {"boot", "user"}
    BY TickStores
  <1>2. Copied /\ seen.active = active /\ seen.count_pcb = count_pcb
    BY <1>1, SeenNow
  <1>3. /\ scheduled' = NextTerminal(scheduled)
        /\ pcb_ptr' = [pcb_ptr EXCEPT ![scheduled] = curr_pcb]
    BY DEF SaveOnTick
  <1>4. scheduled' = NextTerminal(seen.scheduled) /\ pcb_ptr' = Atomic!PtrOnTick
    BY <1>2, <1>3 DEF Copied, Atomic!PtrOnTick
  <1>5. CASE at.pc = "boot"
    <2>1. pid = -1 /\ saved' = saved /\ tss_esp0' = tss_esp0 /\ \A y \in Slots : stack'[y] = stack[y]
      BY <1>5, TickStores
    <2>2. SavedBy' = SavedBy /\ seen.pid = -1
      BY <1>2, <2>1 DEF SavedBy, Copied
    <2>3. SavedBy' = Atomic!SavedOnTick /\ tss_esp0' = Atomic!TssOnTick
      BY <1>2, <2>1, <2>2 DEF Copied, Atomic!SavedOnTick, Atomic!TssOnTick
    <2>4. \A s \in Slots : ~active[s]
      BY <1>5 DEF IInv, Here, AtBoot
    <2>5. \A s \in Slots : seen.kstack[s] = "user" /\ Left(s)' = "user"
      BY <2>4, <1>5, SeenNow DEF Left
    <2> QED BY <1>2, <1>4, <2>2, <2>3, <2>5 DEF Atomic!StackOnTick
  <1>6. CASE at.pc = "user"
    <2>1. /\ pid # -1 /\ curr_pcb \in Slots /\ who = curr_pcb
          /\ stack' = Push(curr_pcb, 0, Suspended("tick"))
          /\ saved' = [saved EXCEPT ![curr_pcb] = [stack |-> curr_pcb, depth |-> 1, by |-> "tick"]]
          /\ tss_esp0' = [tss_esp0 EXCEPT ![curr_pcb] = tss]
      BY <1>6, TickStores
    <2>2. /\ stack \in [Stacks -> Seq(Frames)] /\ saved \in [Slots -> Contexts]
          /\ Suspended("tick") \in Frames /\ Suspended("tick").kind = "tick"
      BY DEF IInv, Types, Suspended, Frames
    <2>3. /\ \A y \in Stacks : y # curr_pcb => stack'[y] = stack[y]
          /\ 1 \in 1 .. Len(stack'[curr_pcb]) /\ stack'[curr_pcb][1] = Suspended("tick")
          /\ saved'[curr_pcb].stack = curr_pcb /\ saved'[curr_pcb].depth = 1 /\ saved'[curr_pcb].by = "tick"
          /\ \A s \in Slots : s # curr_pcb => saved'[s] = saved[s]
          /\ SavedBy' = [SavedBy EXCEPT ![curr_pcb] = "tick"]
      BY <2>1, <2>2, Stored
    <2>4. active[curr_pcb]
      BY <1>6, InvUser DEF InUser, IInv, Here, AtUser
    <2>5. ASSUME NEW s \in Slots, s = curr_pcb PROVE Left(s)' = "tick"
      <3>1. Left(s)' = saved'[s].by
        BY <2>2, <2>3, <2>4, <2>5, NowLeft
      <3> QED BY <2>3, <2>5, <3>1
    <2>6. \A s \in Slots : s # curr_pcb => Left(s)' = Left(s)
      BY <2>3, SameLeft DEF Stacks
    <2>7. \A s \in Slots : s # curr_pcb => seen.kstack[s] = Left(s)
      BY <1>6, <2>1, SeenNow
    <2>8. seen.pid = pid /\ seen.curr_pcb = curr_pcb
      BY <1>2 DEF Copied
    <2>9. Atomic!StackOnTick = [seen.kstack EXCEPT ![curr_pcb] = "tick"]
      BY <2>1, <2>8 DEF Atomic!StackOnTick
    <2>10. \A s \in Slots : Atomic!StackOnTick[s] = IF s = curr_pcb THEN "tick" ELSE seen.kstack[s]
      BY <2>9 DEF Sees
    <2>11. SavedBy' = Atomic!SavedOnTick /\ tss_esp0' = Atomic!TssOnTick
      BY <1>2, <2>1, <2>3 DEF Copied, Atomic!SavedOnTick, Atomic!TssOnTick
    <2> QED BY <1>2, <1>4, <2>5, <2>6, <2>7, <2>10, <2>11
  <1> QED BY <1>1, <1>5, <1>6

(* A tick launches the shell of the next terminal.                          *)
LEMMA TickLaunchSees ==
  ASSUME IInv, Windows = {}, Flat, Sees, TickLaunch, See
  PROVE  Sees' /\ seen' = seen
  <1>1. /\ TickTaken /\ SaveOnTick /\ at'.pc = "exec"
        /\ active' = active /\ count_pcb' = count_pcb
        /\ parent_id' = parent_id /\ pcb_tid' = pcb_tid /\ tss' = tss
        /\ count_pcb[NextTerminal(scheduled)] = 0
        /\ curr_pcb' = IF pcb_ptr'[NextTerminal(scheduled)] # Null
                       THEN pcb_ptr'[NextTerminal(scheduled)] ELSE curr_pcb
    BY DEF TickLaunch, BeginExecute, Point
  <1>2. seen' = seen
    BY <1>1 DEF See
  <1>3. /\ Copied /\ seen.active = active /\ seen.count_pcb = count_pcb
        /\ scheduled' = NextTerminal(seen.scheduled) /\ pcb_ptr' = Atomic!PtrOnTick
        /\ SavedBy' = Atomic!SavedOnTick /\ tss_esp0' = Atomic!TssOnTick
        /\ \A s \in Slots : Atomic!StackOnTick[s] = Left(s)'
    BY <1>1, <1>2, TickSeen
  <1>4. curr_pcb' = Atomic!PcbAfterTick(NextTerminal(seen.scheduled))
    BY <1>1, <1>3 DEF Copied, Atomic!PcbAfterTick, Null, Atomic!Null
  <1>5. Loading("tick")' = Loading("tick")
    BY <1>2 DEF Loading, Atomic!PcbAfterTick, Atomic!PtrOnTick, Atomic!SavedOnTick, Atomic!TssOnTick,
                Atomic!StackOnTick
  <1>6. PICK o : o = Loading("tick")
    OBVIOUS
  <1>7. /\ o.cp = curr_pcb' /\ o.t = scheduled' /\ o.act = active' /\ o.cnt = count_pcb'
        /\ o.sav = SavedBy' /\ o.te = tss_esp0' /\ o.ptr = pcb_ptr'
        /\ \A s \in Slots : o.left[s] = Left(s)'
    BY <1>1, <1>3, <1>4, <1>6, TickWay
  <1>8. o.cnt[o.t] = 0
    BY <1>1, <1>3, <1>7 DEF Copied
  <1>9. Taken("tick", TRUE)'
    BY DEF Taken
  <1>10. Begun("tick")'
    BY <1>1, <1>2, <1>3, <1>5, <1>6, <1>7, <1>8, <1>9 DEF Begun, Copied
  <1> QED BY <1>1, <1>2, <1>10 DEF Sees, Ways

(* A tick switches to the process of the next terminal.                     *)
LEMMA TickSwitchSees ==
  ASSUME IInv, Windows = {}, Flat, Sees, TickSwitch, See
  PROVE  Sees' /\ seen' = seen
  <1>1. /\ TickTaken /\ SaveOnTick /\ at'.pc = "sched" /\ pid' = pid
        /\ active' = active /\ count_pcb' = count_pcb
        /\ parent_id' = parent_id /\ pcb_tid' = pcb_tid /\ tss' = tss
        /\ count_pcb[NextTerminal(scheduled)] # 0
    BY DEF TickSwitch, Point
  <1>2. seen' = seen
    BY <1>1 DEF See
  <1>3. /\ Copied /\ seen.active = active /\ seen.count_pcb = count_pcb
        /\ scheduled' = NextTerminal(seen.scheduled) /\ pcb_ptr' = Atomic!PtrOnTick
        /\ SavedBy' = Atomic!SavedOnTick /\ tss_esp0' = Atomic!TssOnTick
        /\ \A s \in Slots : Atomic!StackOnTick[s] = Left(s)'
    BY <1>1, <1>2, TickSeen
  <1>4. at.pc = "user" /\ curr_pcb \in Slots
    <2>1. NextTerminal(scheduled) \in Terminals
      BY PreemptAssumption DEF IInv, Types, NextTerminal, Terminals
    <2>2. at.pc # "boot"
      BY <1>1, <2>1 DEF IInv, Here, AtBoot
    <2> QED BY <1>1, <2>2, TickStores
  <1>5. /\ (Atomic!PtrOnTick)' = Atomic!PtrOnTick /\ (Atomic!SavedOnTick)' = Atomic!SavedOnTick
        /\ (Atomic!TssOnTick)' = Atomic!TssOnTick /\ (Atomic!StackOnTick)' = Atomic!StackOnTick
    BY <1>2 DEF Atomic!PtrOnTick, Atomic!SavedOnTick, Atomic!TssOnTick, Atomic!StackOnTick
  <1>6. Switching'
    BY <1>1, <1>2, <1>3, <1>4, <1>5 DEF Switching, Copied
  <1> QED BY <1>1, <1>2, <1>6 DEF Sees

-----------------------------------------------------------------------------
(* Steps in the middle of handlers.                                         *)

(* halt() finds a base shell and calls execute().                           *)
LEMMA RestartShellSees ==
  ASSUME IInv, Flat, Sees, RestartShell, See
  PROVE  Sees' /\ seen' = seen
  <1>1. /\ at.pc = "head" /\ at'.pc = "exec" /\ parent_id[curr_pcb] = Null
        /\ curr_pcb' = curr_pcb /\ scheduled' = scheduled
        /\ active' = [active EXCEPT ![curr_pcb] = FALSE]
        /\ count_pcb' = count_pcb /\ saved' = saved /\ tss_esp0' = tss_esp0
        /\ pcb_ptr' = pcb_ptr /\ parent_id' = parent_id /\ pcb_tid' = pcb_tid /\ tss' = tss
        /\ stack' = stack
    BY DEF RestartShell, BeginExecute, Point, termVars
  <1>2. seen' = seen
    BY <1>1 DEF See
  <1>3. /\ Copied /\ seen.active = active /\ who = curr_pcb /\ SavedBy' = SavedBy
        /\ count_pcb = [seen.count_pcb EXCEPT ![scheduled] = Down(@)]
        /\ \A s \in Slots : seen.kstack[s] = IF s = who THEN "user" ELSE Left(s)
    BY <1>1 DEF Sees, Counting, SavedBy
  <1>4. curr_pcb \in Slots /\ curr_pcb # Null /\ scheduled \in Terminals
    BY <1>1 DEF IInv, Types, Here, AtHead, Slots, Null
  <1>5. count_pcb[scheduled] = 0
    <2>1. Height(scheduled) = count_pcb[scheduled] + 1 /\ count_pcb[scheduled] \in Nat
      BY <1>1, PreemptAssumption DEF Height, IInv, Types
    <2>2. Front(scheduled) = curr_pcb
      BY <1>1 DEF Front, Turn
    <2>3. active[curr_pcb] /\ pcb_tid[curr_pcb] = scheduled
      BY <1>4, <2>1, <2>2, Places DEF IInv
    <2>4. Height(scheduled) = 1
      BY <1>1, <1>4, <2>2, <2>3, Places DEF IInv
    <2> QED BY <2>1, <2>4
  <1>6. \A s \in Slots : seen.kstack[s] = Left(s)'
    <2>1. ASSUME NEW s \in Slots, s = curr_pcb PROVE seen.kstack[s] = "user" /\ Left(s)' = "user"
      BY <1>1, <1>3, <2>1 DEF Left, IInv, Types
    <2>2. ASSUME NEW s \in Slots, s # curr_pcb PROVE seen.kstack[s] = Left(s) /\ Left(s)' = Left(s)
      <3>1. active'[s] = active[s]
        BY <1>1, <2>2 DEF IInv, Types
      <3> QED BY <1>1, <1>3, <2>2, <3>1, SameLeft
    <2> QED BY <2>1, <2>2
  <1>7. Loading("restart")' = Loading("restart")
    BY <1>2 DEF Loading, Atomic!PcbAfterTick, Atomic!PtrOnTick, Atomic!SavedOnTick, Atomic!TssOnTick,
                Atomic!StackOnTick
  <1>8. PICK o : o = Loading("restart")
    OBVIOUS
  <1>9. /\ o.cp = curr_pcb /\ o.t = scheduled /\ o.act = active' /\ o.cnt = count_pcb
        /\ o.sav = SavedBy /\ o.te = tss_esp0 /\ o.ptr = pcb_ptr /\ o.left = seen.kstack
    BY <1>1, <1>3, <1>8, RestartWay DEF Copied
  <1>10. Taken("restart", TRUE)'
    BY <1>1, <1>2, <1>3, <1>4 DEF Taken, Copied
  <1>11. Begun("restart")'
    <2>1. o.cnt[o.t] = 0 /\ \A s \in Slots : o.left[s] = Left(s)'
      BY <1>5, <1>6, <1>9
    <2>2. /\ SavedBy' = o.sav /\ tss_esp0' = o.te /\ pcb_ptr' = o.ptr /\ count_pcb' = o.cnt
          /\ curr_pcb' = o.cp /\ scheduled' = o.t /\ active' = o.act
          /\ parent_id' = seen'.parent_id /\ pcb_tid' = seen'.pcb_tid /\ tss' = seen'.tss
      BY <1>1, <1>2, <1>3, <1>9 DEF Copied
    <2> QED BY <2>1, <2>2, <1>7, <1>8, <1>10 DEF Begun
  <1> QED BY <1>1, <1>2, <1>11 DEF Sees, Ways

(* halt() closes a process with a parent.                                   *)
LEMMA CloseProcessSees ==
  ASSUME IInv, Flat, Sees, CloseProcess, See
  PROVE  Sees' /\ seen' = seen
  <1>1. /\ at.pc = "head" /\ at'.pc = "tail" /\ at'.parent = parent_id[curr_pcb]
        /\ parent_id[curr_pcb] # Null
        /\ pid' = pid /\ curr_pcb' = curr_pcb /\ scheduled' = scheduled
        /\ active' = [active EXCEPT ![curr_pcb] = FALSE]
        /\ count_pcb' = count_pcb /\ saved' = saved /\ tss_esp0' = tss_esp0
        /\ pcb_ptr' = pcb_ptr /\ parent_id' = parent_id /\ pcb_tid' = pcb_tid /\ tss' = tss
        /\ stack' = stack
    BY DEF CloseProcess, termVars
  <1>2. seen' = seen
    BY <1>1 DEF See
  <1>3. /\ Copied /\ seen.active = active /\ who = curr_pcb /\ SavedBy' = SavedBy
        /\ count_pcb = [seen.count_pcb EXCEPT ![scheduled] = Down(@)]
        /\ \A s \in Slots : seen.kstack[s] = IF s = who THEN "user" ELSE Left(s)
    BY <1>1 DEF Sees, Counting, SavedBy
  <1>4. curr_pcb \in Slots
    BY <1>1 DEF IInv, Here, AtHead
  <1>5. \A s \in Slots : seen.kstack[s] = Left(s)'
    <2>1. ASSUME NEW s \in Slots, s = curr_pcb PROVE seen.kstack[s] = "user" /\ Left(s)' = "user"
      BY <1>1, <1>3, <2>1 DEF Left, IInv, Types
    <2>2. ASSUME NEW s \in Slots, s # curr_pcb PROVE seen.kstack[s] = Left(s) /\ Left(s)' = Left(s)
      <3>1. active'[s] = active[s]
        BY <1>1, <2>2 DEF IInv, Types
      <3> QED BY <1>1, <1>3, <2>2, <3>1, SameLeft
    <2> QED BY <2>1, <2>2
  <1>6. Copied'
    BY <1>1, <1>2, <1>3 DEF Copied
  <1>7. Closing'
    BY <1>1, <1>2, <1>3, <1>4, <1>5, <1>6 DEF Closing
  <1> QED BY <1>1, <1>2, <1>7 DEF Sees

(* execute() sets up the process.                                           *)
LEMMA CreateProcessSees ==
  ASSUME IInv, Flat, Sees, CreateProcess, See
  PROVE  Sees' /\ seen' = seen
  <1> DEFINE base == count_pcb[scheduled] = 0
  <1>1. /\ at.pc = "exec" /\ at'.pc = "enter" /\ pid \in Slots /\ (base \/ curr_pcb # Null)
        /\ pid' = pid /\ curr_pcb' = pid /\ page' = page
        /\ active'    = [active EXCEPT ![pid] = TRUE]
        /\ parent_id' = [parent_id EXCEPT ![pid] = IF base THEN Null ELSE curr_pcb]
        /\ pcb_tid'   = [pcb_tid EXCEPT ![pid] = scheduled]
        /\ tss_esp0'  = [tss_esp0 EXCEPT ![pid] = tss]
        /\ count_pcb' = [count_pcb EXCEPT ![scheduled] = Up(@)]
        /\ scheduled' = scheduled /\ pcb_ptr' = pcb_ptr /\ tss' = tss
    BY DEF CreateProcess, Point
  <1>2. seen' = seen
    BY <1>1 DEF See
  <1>3. PICK way \in Ways : Begun(way)
    BY <1>1 DEF Sees
  <1>4. PICK o : o = Loading(way)
    OBVIOUS
  <1>5. /\ Taken(way, base)
        /\ curr_pcb = o.cp /\ scheduled = o.t /\ active = o.act /\ count_pcb = o.cnt
        /\ SavedBy = o.sav /\ tss_esp0 = o.te /\ pcb_ptr = o.ptr
        /\ parent_id = seen.parent_id /\ pcb_tid = seen.pcb_tid /\ tss = seen.tss
        /\ \A s \in Slots : base \/ s # curr_pcb => o.left[s] = Left(s)
    BY <1>3, <1>4 DEF Begun
  <1>6. /\ EmptyPcb(active, pid) /\ page = pid
        /\ (~base => on = curr_pcb /\ sp = 0)
    BY <1>1 DEF IInv, Here, AtExec
  <1>7. \A s \in Slots : s # pid => active'[s] = active[s]
    BY <1>1 DEF IInv, Types
  <1>8. /\ SavedBy' = (IF base THEN o.sav ELSE [o.sav EXCEPT ![o.cp] = "execute"])
        /\ \A s \in Slots : s # pid => o.left[s] = Left(s)'
    <2>1. CASE base
      <3>1. saved' = saved /\ stack' = stack
        BY <2>1 DEF CreateProcess
      <3>2. \A s \in Slots : s # pid => Left(s)' = Left(s)
        BY <1>7, <3>1, SameLeft
      <3> QED BY <1>5, <2>1, <3>1, <3>2 DEF SavedBy
    <2>2. CASE ~base
      <3>1. curr_pcb \in Slots /\ active[curr_pcb]
        <4>1. scheduled \in Terminals /\ Height(scheduled) # 0 /\ Front(scheduled) = curr_pcb
          BY <1>1, <2>2 DEF IInv, Types, Height, Front, Turn
        <4> QED BY <4>1, Places DEF IInv
      <3>2. /\ stack' = Push(curr_pcb, 0, Suspended("execute"))
            /\ saved' = [saved EXCEPT ![curr_pcb] = [stack |-> curr_pcb, depth |-> 1, by |-> "execute"]]
        BY <1>6, <2>2 DEF CreateProcess
      <3>3. /\ stack \in [Stacks -> Seq(Frames)] /\ saved \in [Slots -> Contexts]
            /\ Suspended("execute") \in Frames /\ Suspended("execute").kind = "execute"
        BY DEF IInv, Types, Suspended, Frames
      <3>4. /\ \A y \in Stacks : y # curr_pcb => stack'[y] = stack[y]
            /\ 1 \in 1 .. Len(stack'[curr_pcb]) /\ stack'[curr_pcb][1] = Suspended("execute")
            /\ saved'[curr_pcb].stack = curr_pcb /\ saved'[curr_pcb].depth = 1
            /\ saved'[curr_pcb].by = "execute"
            /\ \A s \in Slots : s # curr_pcb => saved'[s] = saved[s]
            /\ SavedBy' = [SavedBy EXCEPT ![curr_pcb] = "execute"]
        BY <3>1, <3>2, <3>3, Stored
      <3>5. curr_pcb # pid
        BY <1>6, <3>1 DEF EmptyPcb
      <3>6. ASSUME NEW s \in Slots, s = curr_pcb PROVE o.left[s] = "execute" /\ Left(s)' = "execute"
        <4>1. way = "call" /\ o.left = [seen.kstack EXCEPT ![seen.curr_pcb] = "execute"]
              /\ seen.curr_pcb = s
          BY <1>4, <1>5, <2>2, <3>6, CallWay DEF Taken, Slots, Null
        <4>2. active'[s]
          BY <1>7, <3>1, <3>5, <3>6
        <4>3. Left(s)' = saved'[s].by
          BY <3>3, <3>4, <3>6, <4>2, NowLeft
        <4> QED BY <3>4, <3>6, <4>1, <4>3 DEF Sees
      <3>7. ASSUME NEW s \in Slots, s # pid, s # curr_pcb PROVE o.left[s] = Left(s)'
        BY <1>5, <1>7, <3>4, <3>7, SameLeft DEF Stacks
      <3> QED BY <1>5, <2>2, <3>4, <3>6, <3>7
    <2> QED BY <2>1, <2>2
  <1>9. Loading(way)' = Loading(way)
    BY <1>2 DEF Loading, Atomic!PcbAfterTick, Atomic!PtrOnTick, Atomic!SavedOnTick, Atomic!TssOnTick,
                Atomic!StackOnTick
  <1>10. Taken(way, o.cnt[o.t] = 0)'
    BY <1>2, <1>5 DEF Taken, Atomic!AllLaunched
  <1>11. Created(way)'
    BY <1>1, <1>2, <1>4, <1>5, <1>6, <1>8, <1>9, <1>10 DEF Created
  <1> QED BY <1>1, <1>2, <1>3, <1>11 DEF Sees

-----------------------------------------------------------------------------
(* The last step of each handler is the step of Process.                    *)

(* What is seen when a handler ends.                                        *)
LEMMA SeesEnd ==
  ASSUME at'.pc = "user", See, IInv'
  PROVE  /\ Sees'
         /\ seen'.pid = pid' /\ seen'.curr_pcb = curr_pcb' /\ seen'.scheduled = scheduled'
         /\ seen'.active = active' /\ seen'.parent_id = parent_id' /\ seen'.pcb_tid = pcb_tid'
         /\ seen'.tss_esp0 = tss_esp0' /\ seen'.saved_esp = SavedBy' /\ seen'.pcb_ptr = pcb_ptr'
         /\ seen'.count_pcb = count_pcb' /\ seen'.tss = tss' /\ seen'.page = page'
         /\ seen'.kstack = [s \in Slots |-> FrameOf(s)']
         /\ \A s \in Slots : FrameOf(s)' = IF s = who' THEN "user" ELSE Left(s)'
  <1>1. seen' = View'
    BY DEF See
  <1>2. \A s \in Slots : FrameOf(s)' \in {"user", "execute", "tick"}
    <2>1. saved' \in [Slots -> Contexts]
      BY DEF IInv, Types
    <2>2. \A s \in Slots : saved'[s].by \in {"user", "tick", "execute"}
      BY <2>1 DEF Contexts
    <2> QED BY <2>2 DEF FrameOf
  <1>3. seen'.kstack = [s \in Slots |-> FrameOf(s)']
    BY <1>1 DEF View
  <1>4. Sees'
    BY <1>1, <1>2, <1>3 DEF Sees
  <1>5. \A s \in Slots : FrameOf(s)' = IF s = who' THEN "user" ELSE Left(s)'
    BY DEF FrameOf, Left
  <1> QED BY <1>1, <1>3, <1>4, <1>5 DEF View, SavedBy

(* context_switch() ends execute(), however it was called.                  *)
LEMMA EnterUserEnds ==
  ASSUME IInv, Flat, Sees, EnterUser, See
  PROVE  Sees' /\ Atomic!QuietNext
  <1>1. /\ at.pc = "enter" /\ at'.pc = "user" /\ tss' = curr_pcb /\ who' = curr_pcb
        /\ pid' = pid /\ curr_pcb' = curr_pcb /\ scheduled' = scheduled /\ active' = active
        /\ parent_id' = parent_id /\ pcb_tid' = pcb_tid /\ tss_esp0' = tss_esp0 /\ saved' = saved
        /\ pcb_ptr' = pcb_ptr /\ count_pcb' = count_pcb /\ page' = page /\ stack' = stack
    BY DEF EnterUser, Point, pcbVars, termVars
  <1>2. IInv'
    BY EnterUserKeeps
  <1>3. /\ Sees'
        /\ seen'.pid = pid /\ seen'.curr_pcb = curr_pcb /\ seen'.scheduled = scheduled
        /\ seen'.active = active /\ seen'.parent_id = parent_id /\ seen'.pcb_tid = pcb_tid
        /\ seen'.tss_esp0 = tss_esp0 /\ seen'.saved_esp = SavedBy /\ seen'.pcb_ptr = pcb_ptr
        /\ seen'.count_pcb = count_pcb /\ seen'.tss = curr_pcb /\ seen'.page = page
        /\ seen'.kstack = [s \in Slots |-> FrameOf(s)']
        /\ \A s \in Slots : FrameOf(s)' = IF s = curr_pcb THEN "user" ELSE Left(s)
    <2>1. \A s \in Slots : Left(s)' = Left(s)
      BY <1>1, SameLeft
    <2>2. SavedBy' = SavedBy
      BY <1>1 DEF SavedBy
    <2> QED BY <1>1, <1>2, <2>1, <2>2, SeesEnd
  <1>4. PICK way \in Ways : Created(way)
    BY <1>1 DEF Sees
  <1>5. PICK o : o = Loading(way)
    OBVIOUS
  <1>6. PICK base : base = (o.cnt[o.t] = 0)
    OBVIOUS
  <1>7. /\ Taken(way, base)
        /\ EmptyPcb(o.act, pid) /\ curr_pcb = pid /\ page = pid /\ scheduled = o.t
        /\ active    = [o.act EXCEPT ![pid] = TRUE]
        /\ parent_id = [seen.parent_id EXCEPT ![pid] = IF base THEN Null ELSE o.cp]
        /\ pcb_tid   = [seen.pcb_tid EXCEPT ![pid] = o.t]
        /\ tss_esp0  = [o.te EXCEPT ![pid] = seen.tss]
        /\ count_pcb = [o.cnt EXCEPT ![o.t] = Up(@)]
        /\ SavedBy   = (IF base THEN o.sav ELSE [o.sav EXCEPT ![o.cp] = "execute"])
        /\ pcb_ptr = o.ptr /\ tss = seen.tss
        /\ \A s \in Slots : s # pid => o.left[s] = Left(s)
    BY <1>4, <1>5, <1>6 DEF Created
  <1>8. pid \in Slots
    BY <1>1, <1>7 DEF IInv, Here, AtEnter
  <1>9. Atomic!LoadProcess(pid, o.cp, o.t, o.act, o.cnt, o.sav, o.te)
    BY <1>3, <1>6, <1>7 DEF Atomic!LoadProcess, Atomic!Up, Up, Atomic!Null, Null
  <1>10. ASSUME o.left \in [Slots -> {"user", "execute", "tick"}]
         PROVE  seen'.kstack = [o.left EXCEPT ![pid] = "user"]
    BY <1>3, <1>7, <1>8, <1>10
  <1>11. Atomic!EmptyPcb(o.act, pid) /\ pid \in Atomic!Slots
    BY <1>7, <1>8 DEF EmptyPcb, Atomic!EmptyPcb, Slots, Atomic!Slots
  <1>12. CASE way = "call"
    <2>1. /\ o.cp = seen.curr_pcb /\ o.t = seen.scheduled /\ o.act = seen.active /\ o.cnt = seen.count_pcb
          /\ o.sav = seen.saved_esp /\ o.te = seen.tss_esp0 /\ o.ptr = seen.pcb_ptr
          /\ o.left = IF seen.curr_pcb = Null THEN seen.kstack
                      ELSE [seen.kstack EXCEPT ![seen.curr_pcb] = "execute"]
      BY <1>5, <1>12, CallWay
    <2>2. o.left \in [Slots -> {"user", "execute", "tick"}]
      BY <2>1 DEF Sees
    <2>3. CASE seen.curr_pcb = Null
      <3>1. seen'.kstack = seen.kstack
        <4>1. seen.kstack[pid] = "user" /\ o.left = seen.kstack
          BY <1>7, <1>8, <1>12, <2>1, <2>3 DEF Taken, Slots, Null
        <4> QED BY <1>10, <2>2, <4>1
      <3>2. Atomic!Boot
        BY <1>3, <1>7, <1>9, <1>11, <2>1, <2>3, <3>1 DEF Atomic!Boot, Atomic!Null, Null
      <3> QED BY <1>3, <3>2 DEF Atomic!QuietNext
    <2>4. CASE seen.curr_pcb # Null
      <3>1. Atomic!AllLaunched
        BY <1>7, <1>12, <2>4 DEF Taken
      <3>2. seen'.kstack = [seen.kstack EXCEPT ![seen.curr_pcb] = "execute", ![pid] = "user"]
        BY <1>10, <2>1, <2>2, <2>4
      <3>3. Atomic!Execute
        BY <1>3, <1>7, <1>9, <1>11, <2>1, <2>4, <3>2 DEF Atomic!Execute, Atomic!Null, Null
      <3> QED BY <1>3, <3>1, <3>3 DEF Atomic!QuietNext
    <2> QED BY <2>3, <2>4
  <1>13. CASE way = "restart"
    <2>1. /\ o.cp = seen.curr_pcb /\ o.t = seen.scheduled
          /\ o.act = [seen.active EXCEPT ![seen.curr_pcb] = FALSE]
          /\ o.cnt = [seen.count_pcb EXCEPT ![seen.scheduled] = Down(@)]
          /\ o.sav = seen.saved_esp /\ o.te = seen.tss_esp0 /\ o.ptr = seen.pcb_ptr
          /\ o.left = seen.kstack
      BY <1>5, <1>13, RestartWay
    <2>2. base /\ seen.curr_pcb \in Slots /\ seen.parent_id[seen.curr_pcb] = Null
      BY <1>7, <1>13 DEF Taken
    <2>3. seen'.kstack = [seen.kstack EXCEPT ![seen.curr_pcb] = @, ![pid] = "user"]
      BY <1>10, <2>1, <2>2 DEF Sees
    <2>4. o.cnt[seen.scheduled] = 0
      BY <1>6, <2>1, <2>2
    <2>5. Atomic!HaltBase
      <3>1. seen.curr_pcb # Atomic!Null /\ seen.parent_id[seen.curr_pcb] = Atomic!Null
        BY <2>2 DEF Atomic!Null, Null, Slots
      <3>2. o.cnt = [seen.count_pcb EXCEPT ![seen.scheduled] = Atomic!Down(@)]
        BY <2>1 DEF Down, Atomic!Down
      <3>3. seen'.scheduled = seen.scheduled /\ seen'.pcb_ptr = seen.pcb_ptr
        BY <1>3, <1>7, <2>1
      <3>4. /\ Atomic!EmptyPcb([seen.active EXCEPT ![seen.curr_pcb] = FALSE], pid)
            /\ Atomic!LoadProcess(pid, seen.curr_pcb, seen.scheduled,
                 [seen.active EXCEPT ![seen.curr_pcb] = FALSE],
                 [seen.count_pcb EXCEPT ![seen.scheduled] = Atomic!Down(@)],
                 seen.saved_esp, seen.tss_esp0)
        BY <1>9, <1>11, <2>1, <3>2
      <3>5. seen'.kstack = [seen.kstack EXCEPT
                 ![seen.curr_pcb] = IF [seen.count_pcb EXCEPT ![seen.scheduled] = Atomic!Down(@)][seen.scheduled] = 0
                                    THEN @ ELSE "execute",
                 ![pid] = "user"]
        BY <2>3, <2>4, <3>2
      <3> QED BY <1>11, <3>1, <3>3, <3>4, <3>5 DEF Atomic!HaltBase
    <2> QED BY <1>3, <2>5 DEF Atomic!QuietNext
  <1>14. CASE way = "tick"
    <2>1. PICK t : t = NextTerminal(seen.scheduled)
      OBVIOUS
    <2>2. /\ o.cp = Atomic!PcbAfterTick(t) /\ o.t = t /\ o.act = seen.active /\ o.cnt = seen.count_pcb
          /\ o.sav = Atomic!SavedOnTick /\ o.te = Atomic!TssOnTick /\ o.ptr = Atomic!PtrOnTick
          /\ o.left = Atomic!StackOnTick
      BY <1>5, <1>14, <2>1, TickWay
    <2>3. base
      BY <1>7, <1>14 DEF Taken
    <2>4. t = Atomic!NextTerminal(seen.scheduled) /\ seen.count_pcb[t] = 0
      BY <1>6, <2>1, <2>2, <2>3 DEF NextTerminal, Atomic!NextTerminal
    <2>5. o.left \in [Slots -> {"user", "execute", "tick"}]
      BY <2>2 DEF Sees, Atomic!StackOnTick
    <2>6. Atomic!TickLaunch
      <3>1. PICK n : n = Atomic!NextTerminal(seen.scheduled)
        OBVIOUS
      <3>2. t = n /\ seen.count_pcb[n] = 0
        BY <2>4, <3>1
      <3>3. seen'.scheduled = n /\ seen'.pcb_ptr = Atomic!PtrOnTick
        BY <1>3, <1>7, <2>2, <3>2
      <3>4. /\ Atomic!EmptyPcb(seen.active, pid)
            /\ Atomic!LoadProcess(pid, Atomic!PcbAfterTick(n), n, seen.active, seen.count_pcb,
                                  Atomic!SavedOnTick, Atomic!TssOnTick)
        BY <1>9, <1>11, <2>2, <3>2
      <3>5. seen'.kstack = [Atomic!StackOnTick EXCEPT ![pid] = "user"]
        BY <1>10, <2>2, <2>5
      <3> QED BY <1>11, <3>1, <3>2, <3>3, <3>4, <3>5 DEF Atomic!TickLaunch
    <2> QED BY <1>3, <2>6 DEF Atomic!QuietNext
  <1> QED BY <1>3, <1>12, <1>13, <1>14 DEF Ways

(* halt() returns into the parent's execute().                              *)
LEMMA ReturnToParentEnds ==
  ASSUME IInv, Flat, Sees, ReturnToParent, See
  PROVE  Sees' /\ Atomic!QuietNext
  <1>1. PICK p : p = at.parent
    OBVIOUS
  <1>2. /\ at.pc = "tail" /\ at'.pc = "user" /\ curr_pcb' = p /\ tss' = p
        /\ pid' = pid /\ scheduled' = scheduled /\ active' = active
        /\ parent_id' = parent_id /\ pcb_tid' = pcb_tid /\ tss_esp0' = tss_esp0 /\ saved' = saved
        /\ pcb_ptr' = pcb_ptr /\ count_pcb' = count_pcb /\ page' = page /\ stack' = stack
    BY <1>1 DEF ReturnToParent, Point, pcbVars, termVars
  <1>3. IInv'
    BY ReturnToParentKeeps
  <1>4. p \in Slots /\ page = p /\ who' = p
    BY <1>1, <1>2, <1>3 DEF IInv, Here, AtTail, AtUser, InUser
  <1>5. /\ Copied /\ curr_pcb \in Slots /\ p = parent_id[curr_pcb] /\ p # Null
        /\ count_pcb = [seen.count_pcb EXCEPT ![scheduled] = Down(@)]
        /\ active = [seen.active EXCEPT ![curr_pcb] = FALSE]
        /\ \A s \in Slots : seen.kstack[s] = Left(s)
    BY <1>1, <1>2 DEF Sees, Closing
  <1>6. SavedBy' = SavedBy /\ \A s \in Slots : Left(s)' = Left(s)
    BY <1>2, SameLeft DEF SavedBy
  <1>7. /\ Sees'
        /\ seen'.pid = pid /\ seen'.curr_pcb = p /\ seen'.scheduled = scheduled
        /\ seen'.active = active /\ seen'.parent_id = parent_id /\ seen'.pcb_tid = pcb_tid
        /\ seen'.tss_esp0 = tss_esp0 /\ seen'.saved_esp = SavedBy /\ seen'.pcb_ptr = pcb_ptr
        /\ seen'.count_pcb = count_pcb /\ seen'.tss = p /\ seen'.page = p
        /\ seen'.kstack = [s \in Slots |-> FrameOf(s)']
        /\ \A s \in Slots : FrameOf(s)' = IF s = p THEN "user" ELSE Left(s)
    BY <1>2, <1>3, <1>4, <1>6, SeesEnd
  <1>8. seen'.kstack = [seen.kstack EXCEPT ![p] = "user"]
    BY <1>4, <1>5, <1>7 DEF Sees
  <1>9. Atomic!Halt
    <2>1. seen.curr_pcb = curr_pcb /\ seen.curr_pcb # Atomic!Null
      BY <1>5 DEF Copied, Slots, Atomic!Null
    <2>2. seen.parent_id[seen.curr_pcb] = p /\ p # Atomic!Null
      BY <1>5 DEF Copied, Null, Atomic!Null
    <2>3. seen'.active = [seen.active EXCEPT ![seen.curr_pcb] = FALSE]
      BY <1>5, <1>7, <2>1
    <2>4. seen'.count_pcb = [seen.count_pcb EXCEPT ![seen.scheduled] = Atomic!Down(@)]
      BY <1>5, <1>7 DEF Copied, Down, Atomic!Down
    <2>5. /\ seen'.pid = seen.pid /\ seen'.parent_id = seen.parent_id
          /\ seen'.pcb_tid = seen.pcb_tid /\ seen'.saved_esp = seen.saved_esp
          /\ seen'.tss_esp0 = seen.tss_esp0 /\ seen'.scheduled = seen.scheduled
          /\ seen'.pcb_ptr = seen.pcb_ptr
      BY <1>5, <1>7 DEF Copied
    <2> QED BY <1>7, <1>8, <2>1, <2>2, <2>3, <2>4, <2>5 DEF Atomic!Halt
  <1> QED BY <1>7, <1>9 DEF Atomic!QuietNext

(* scheduler() loads the stack pointer and the TSS: Process has not seen the  *)
(* switch yet.                                                             *)
LEMMA SwitchStackSees ==
  ASSUME IInv, Flat, Sees, SwitchStack, See
  PROVE  Sees' /\ seen' = seen
  <1>1. PICK p : p = pcb_ptr[scheduled]
    OBVIOUS
  <1>2. /\ at.pc = "sched" /\ at'.pc = "esp" /\ curr_pcb' = p /\ sp' = saved[p].depth
        /\ pid' = pid /\ scheduled' = scheduled /\ active' = active
        /\ parent_id' = parent_id /\ pcb_tid' = pcb_tid /\ tss_esp0' = tss_esp0 /\ saved' = saved
        /\ pcb_ptr' = pcb_ptr /\ count_pcb' = count_pcb /\ stack' = stack
    BY <1>1 DEF SwitchStack, Point, pcbVars, termVars
  <1>3. seen' = seen
    BY <1>2 DEF See
  <1>4. SavedBy' = SavedBy /\ \A s \in Slots : Left(s)' = Left(s)
    BY <1>2, SameLeft DEF SavedBy
  <1>5. Switching
    BY <1>2 DEF Sees
  <1>6. /\ (Atomic!PtrOnTick)' = Atomic!PtrOnTick /\ (Atomic!SavedOnTick)' = Atomic!SavedOnTick
        /\ (Atomic!TssOnTick)' = Atomic!TssOnTick /\ (Atomic!StackOnTick)' = Atomic!StackOnTick
    BY <1>3 DEF Atomic!PtrOnTick, Atomic!SavedOnTick, Atomic!TssOnTick, Atomic!StackOnTick
  <1>7. Switching'
    BY <1>2, <1>3, <1>4, <1>5, <1>6 DEF Switching
  <1> QED BY <1>2, <1>3, <1>7 DEF Sees

LEMMA SwitchTssSees ==
  ASSUME IInv, Flat, Sees, SwitchTss, See
  PROVE  Sees' /\ seen' = seen
  <1>1. PICK p : p = pcb_ptr[scheduled]
    OBVIOUS
  <1>2. /\ at.pc = "esp" /\ at'.pc = "leave" /\ curr_pcb' = curr_pcb /\ sp' = sp /\ tss' = tss_esp0[p]
        /\ pid' = pid /\ scheduled' = scheduled /\ active' = active
        /\ parent_id' = parent_id /\ pcb_tid' = pcb_tid /\ tss_esp0' = tss_esp0 /\ saved' = saved
        /\ pcb_ptr' = pcb_ptr /\ count_pcb' = count_pcb /\ stack' = stack
    BY <1>1 DEF SwitchTss, Point, pcbVars, termVars
  <1>3. seen' = seen
    BY <1>2 DEF See
  <1>4. SavedBy' = SavedBy /\ \A s \in Slots : Left(s)' = Left(s)
    BY <1>2, SameLeft DEF SavedBy
  <1>5. Switching /\ curr_pcb = p
    BY <1>1, <1>2 DEF Sees, IInv, Here, AtSched
  <1>6. /\ (Atomic!PtrOnTick)' = Atomic!PtrOnTick /\ (Atomic!SavedOnTick)' = Atomic!SavedOnTick
        /\ (Atomic!TssOnTick)' = Atomic!TssOnTick /\ (Atomic!StackOnTick)' = Atomic!StackOnTick
    BY <1>3 DEF Atomic!PtrOnTick, Atomic!SavedOnTick, Atomic!TssOnTick, Atomic!StackOnTick
  <1>7. Switching'
    BY <1>1, <1>2, <1>3, <1>4, <1>5, <1>6 DEF Switching
  <1> QED BY <1>2, <1>3, <1>7 DEF Sees

(* scheduler() resumes the process of the next terminal, which was in user   *)
(* mode when it lost the CPU.                                              *)
LEMMA LeaveSwitchEnds ==
  ASSUME IInv, Flat, Sees, LeaveSwitch, See
  PROVE  Sees' /\ Atomic!QuietNext
  <1>1. PICK p : p = pcb_ptr[scheduled]
    OBVIOUS
  <1>2. /\ at.pc = "leave" /\ at' = stack[on][sp].at /\ curr_pcb' = curr_pcb /\ tss' = tss
        /\ pid' = pid /\ scheduled' = scheduled /\ active' = active
        /\ parent_id' = parent_id /\ pcb_tid' = pcb_tid /\ tss_esp0' = tss_esp0 /\ saved' = saved
        /\ pcb_ptr' = pcb_ptr /\ count_pcb' = count_pcb /\ page' = page /\ stack' = stack
    BY DEF LeaveSwitch, pcbVars, termVars
  <1>3. IInv'
    BY LeaveSwitchKeeps
  <1>4. curr_pcb = p /\ page = p /\ p \in Slots /\ on = p /\ Ticks(p, sp)
        /\ tss = tss_esp0[p] /\ sp = saved[p].depth
    <2>1. curr_pcb = p /\ tss = tss_esp0[p] /\ sp = saved[p].depth
      BY <1>1, <1>2 DEF Sees, Switching
    <2>2. page = p /\ on = p /\ Ticks(p, sp)
      BY <1>2, <2>1 DEF IInv, Here, AtSched
    <2>3. p \in SlotOrNull /\ p # Null
      BY <1>2, <2>1 DEF IInv, Types, Here
    <2> QED BY <2>1, <2>2, <2>3 DEF SlotOrNull
  <1>5. at'.pc = "user"
    <2>1. sp # 0 /\ (sp = 1 => stack[p][1].at.pc = "user")
      BY <1>4 DEF Ticks
    <2>2. sp = 1
      BY <1>4, <2>1 DEF Flat
    <2> QED BY <1>2, <1>4, <2>1, <2>2
  <1>6. who' = p
    BY <1>2, <1>3, <1>4, <1>5 DEF IInv, Here, AtUser, InUser
  <1>7. PICK t : t = NextTerminal(seen.scheduled)
    OBVIOUS
  <1>8. /\ seen.curr_pcb \in Slots /\ seen.count_pcb[t] # 0
        /\ scheduled = t /\ pcb_ptr = Atomic!PtrOnTick /\ SavedBy = Atomic!SavedOnTick
        /\ tss_esp0 = Atomic!TssOnTick
        /\ pid = seen.pid /\ active = seen.active /\ parent_id = seen.parent_id
        /\ pcb_tid = seen.pcb_tid /\ count_pcb = seen.count_pcb
        /\ \A s \in Slots : Atomic!StackOnTick[s] = Left(s)
    BY <1>2, <1>7 DEF Sees, Switching
  <1>9. SavedBy' = SavedBy /\ \A s \in Slots : Left(s)' = Left(s)
    BY <1>2, SameLeft DEF SavedBy
  <1>10. /\ Sees'
         /\ seen'.pid = pid /\ seen'.curr_pcb = p /\ seen'.scheduled = scheduled
         /\ seen'.active = active /\ seen'.parent_id = parent_id /\ seen'.pcb_tid = pcb_tid
         /\ seen'.tss_esp0 = tss_esp0 /\ seen'.saved_esp = SavedBy /\ seen'.pcb_ptr = pcb_ptr
         /\ seen'.count_pcb = count_pcb /\ seen'.tss = tss_esp0[p] /\ seen'.page = p
         /\ seen'.kstack = [s \in Slots |-> FrameOf(s)']
         /\ \A s \in Slots : FrameOf(s)' = IF s = p THEN "user" ELSE Left(s)
    BY <1>2, <1>3, <1>4, <1>5, <1>6, <1>9, SeesEnd
  <1>11. Atomic!StackOnTick \in [Slots -> {"user", "execute", "tick"}]
    BY DEF Sees, Atomic!StackOnTick
  <1>12. seen'.kstack = [Atomic!StackOnTick EXCEPT ![p] = "user"]
    <2>1. PICK k : k = Atomic!StackOnTick
      OBVIOUS
    <2>2. k \in [Slots -> {"user", "execute", "tick"}] /\ \A s \in Slots : k[s] = Left(s)
      BY <1>8, <1>11, <2>1
    <2>3. \A s \in Slots : FrameOf(s)' = IF s = p THEN "user" ELSE k[s]
      BY <1>10, <2>2
    <2>4. [s \in Slots |-> FrameOf(s)'] = [k EXCEPT ![p] = "user"]
      BY <2>2, <2>3
    <2> QED BY <1>10, <2>1, <2>4
  <1>13. Atomic!TickResume
    <2>1. PICK n : n = Atomic!NextTerminal(seen.scheduled)
      OBVIOUS
    <2>2. n = t
      BY <1>7, <2>1 DEF NextTerminal, Atomic!NextTerminal
    <2>3. seen.curr_pcb # Atomic!Null /\ seen.count_pcb[n] # 0
      BY <1>8, <2>2 DEF Slots, Atomic!Null
    <2>4. PICK q : q = Atomic!PtrOnTick[n]
      OBVIOUS
    <2>5. q = p /\ q # Atomic!Null
      BY <1>1, <1>4, <1>8, <2>2, <2>4 DEF Slots, Atomic!Null
    <2>6. /\ seen'.scheduled = n /\ seen'.pcb_ptr = Atomic!PtrOnTick
          /\ seen'.saved_esp = Atomic!SavedOnTick /\ seen'.tss_esp0 = Atomic!TssOnTick
          /\ seen'.curr_pcb = q /\ seen'.page = q /\ seen'.tss = Atomic!TssOnTick[q]
          /\ seen'.kstack = [Atomic!StackOnTick EXCEPT ![q] = "user"]
          /\ seen'.pid = seen.pid /\ seen'.active = seen.active
          /\ seen'.parent_id = seen.parent_id /\ seen'.pcb_tid = seen.pcb_tid
          /\ seen'.count_pcb = seen.count_pcb
      BY <1>8, <1>10, <1>12, <2>2, <2>5
    <2> QED BY <2>1, <2>3, <2>4, <2>5, <2>6 DEF Atomic!TickResume
  <1> QED BY <1>10, <1>13 DEF Atomic!QuietNext

(* A call of execute() that fails changes the global pid.                    *)
LEMMA ExecuteFailsEnds ==
  ASSUME IInv, Sees, AllLaunched, ExecuteFails, See
  PROVE  Sees' /\ Atomic!QuietNext
  <1>1. /\ at.pc = "user" /\ at'.pc = "user" /\ curr_pcb' = curr_pcb /\ scheduled' = scheduled
        /\ active' = active /\ parent_id' = parent_id /\ pcb_tid' = pcb_tid
        /\ tss_esp0' = tss_esp0 /\ saved' = saved /\ pcb_ptr' = pcb_ptr /\ count_pcb' = count_pcb
        /\ tss' = tss /\ page' = page /\ stack' = stack /\ who' = who
    BY DEF ExecuteFails, InUser, pcbVars, termVars, cpuVars
  <1>2. IInv'
    BY ExecuteFailsKeeps
  <1>3. \A s \in Slots : FrameOf(s)' = FrameOf(s)
    BY <1>1 DEF FrameOf, Intact
  <1>4. /\ Sees'
        /\ seen'.pid = pid' /\ seen'.curr_pcb = curr_pcb /\ seen'.scheduled = scheduled
        /\ seen'.active = active /\ seen'.parent_id = parent_id /\ seen'.pcb_tid = pcb_tid
        /\ seen'.tss_esp0 = tss_esp0 /\ seen'.saved_esp = SavedBy' /\ seen'.pcb_ptr = pcb_ptr
        /\ seen'.count_pcb = count_pcb /\ seen'.tss = tss /\ seen'.page = page
        /\ seen'.kstack = [s \in Slots |-> FrameOf(s)']
    BY <1>1, <1>2, SeesEnd
  <1>5. SavedBy' = SavedBy
    BY <1>1 DEF SavedBy
  <1>6. /\ Copied /\ seen.active = active /\ seen.count_pcb = count_pcb /\ seen.page = page
    BY <1>1, SeenNow
  <1>7. seen'.kstack = seen.kstack
    BY <1>1, <1>3, <1>4 DEF Sees, View
  <1>8. \/ Atomic!NoEmptyPcb(seen.active) /\ seen'.pid = Atomic!NoBlock
        \/ \E s \in Atomic!Slots : Atomic!EmptyPcb(seen.active, s) /\ seen'.pid = s
    BY <1>4, <1>6 DEF ExecuteFails, NoEmptyPcb, Atomic!NoEmptyPcb, NoBlock, Atomic!NoBlock,
                      Slots, Atomic!Slots, EmptyPcb, Atomic!EmptyPcb
  <1>9. seen.curr_pcb # Atomic!Null
    BY <1>1, <1>6 DEF Copied, IInv, Here, AtUser, InUser, Slots, Atomic!Null
  <1>10. Atomic!ExecuteFails
    BY <1>4, <1>5, <1>6, <1>7, <1>8, <1>9
       DEF Copied, Atomic!ExecuteFails, Atomic!pcbVars, Atomic!termVars, Atomic!cpuVars
  <1>11. Atomic!AllLaunched
    BY <1>6 DEF AllLaunched, Atomic!AllLaunched, Terminals, Atomic!Terminals
  <1> QED BY <1>4, <1>10, <1>11 DEF Atomic!QuietNext

(* Another system call writes over what lies below the process's own frames, *)
(* where no context is in use.                                             *)
LEMMA OtherCallEnds ==
  ASSUME IInv, Flat, Sees, OtherCall, See
  PROVE  Sees' /\ seen' = seen
  <1>1. /\ at.pc = "user" /\ at'.pc = "user" /\ pid' = pid /\ curr_pcb' = curr_pcb
        /\ scheduled' = scheduled
        /\ active' = active /\ parent_id' = parent_id /\ pcb_tid' = pcb_tid
        /\ tss_esp0' = tss_esp0 /\ saved' = saved /\ pcb_ptr' = pcb_ptr /\ count_pcb' = count_pcb
        /\ tss' = tss /\ page' = page /\ who' = who /\ stack' = [stack EXCEPT ![tss] = << >>]
    BY DEF OtherCall, InUser, pcbVars, termVars, cpuVars
  <1>2. IInv'
    BY OtherCallKeeps
  <1>3. tss = who /\ who \in Slots
    BY <1>1, InvUser DEF InUser
  <1>4. ASSUME NEW s \in Slots, s # who PROVE FrameOf(s)' = FrameOf(s)
    <2>1. stack'[s] = stack[s]
      BY <1>1, <1>3, <1>4 DEF IInv, Types, Stacks
    <2>2. Left(s)' = Left(s)
      BY <1>1, <2>1, SameLeft
    <2> QED BY <1>1, <1>4, <2>2 DEF FrameOf, Left
  <1>5. \A s \in Slots : s = who => FrameOf(s)' = FrameOf(s)
    BY <1>1 DEF FrameOf
  <1>6. [s \in Slots |-> FrameOf(s)'] = [s \in Slots |-> FrameOf(s)]
    BY <1>4, <1>5
  <1>7. View' = View
    BY <1>1, <1>6 DEF View
  <1>8. seen' = seen
    BY <1>1, <1>7 DEF Sees, See
  <1> QED BY <1>1, <1>2, <1>8, SeesEnd

-----------------------------------------------------------------------------
(* All together.                                                            *)

(* Nothing happens.                                                         *)
LEMMA StutterSees ==
  ASSUME IInv, Flat, Sees, UNCHANGED <<vars, seen>>
  PROVE  Flat' /\ Sees' /\ seen' = seen
  <1>1. /\ pid' = pid /\ curr_pcb' = curr_pcb /\ active' = active /\ parent_id' = parent_id
        /\ pcb_tid' = pcb_tid /\ tss_esp0' = tss_esp0 /\ saved' = saved /\ scheduled' = scheduled
        /\ pcb_ptr' = pcb_ptr /\ count_pcb' = count_pcb /\ tss' = tss /\ page' = page
        /\ stack' = stack /\ at' = at /\ who' = who /\ sp' = sp /\ seen' = seen
    BY DEF vars, pcbVars, termVars, cpuVars
  <1>2. Flat'
    BY <1>1 DEF Flat
  <1>3. SavedBy' = SavedBy /\ \A s \in Slots : Left(s)' = Left(s)
    BY <1>1, SameLeft DEF SavedBy
  <1>4. View' = View
    BY <1>1 DEF View, FrameOf, Intact
  <1>5. /\ (Atomic!PtrOnTick)' = Atomic!PtrOnTick /\ (Atomic!SavedOnTick)' = Atomic!SavedOnTick
        /\ (Atomic!TssOnTick)' = Atomic!TssOnTick /\ (Atomic!StackOnTick)' = Atomic!StackOnTick
    BY <1>1 DEF Atomic!PtrOnTick, Atomic!SavedOnTick, Atomic!TssOnTick, Atomic!StackOnTick
  <1>6. Copied => Copied'
    BY <1>1, <1>3 DEF Copied
  <1>7. (Counting => Counting') /\ (Closing => Closing')
    BY <1>1, <1>3, <1>6 DEF Counting, Closing
  <1>8. Switching => Switching'
    BY <1>1, <1>3, <1>5 DEF Switching
  <1>9. ASSUME NEW way \in Ways PROVE Loading(way)' = Loading(way)
    BY <1>1 DEF Loading, Atomic!PcbAfterTick, Atomic!PtrOnTick, Atomic!SavedOnTick, Atomic!TssOnTick,
                Atomic!StackOnTick
  <1>10. ASSUME NEW way \in Ways, NEW base \in BOOLEAN PROVE Taken(way, base)' <=> Taken(way, base)
    BY <1>1 DEF Taken, Atomic!AllLaunched
  <1>11. ASSUME NEW way \in Ways
         PROVE  (Begun(way) => Begun(way)') /\ (Created(way) => Created(way)')
    <2>1. PICK o : o = Loading(way)
      OBVIOUS
    <2>2. PICK base \in BOOLEAN : base <=> (o.cnt[o.t] = 0)
      OBVIOUS
    <2>3. Loading(way)' = o /\ (Taken(way, base)' <=> Taken(way, base))
      BY <1>9, <1>10, <2>1
    <2>4. Begun(way) => Begun(way)'
      BY <1>1, <1>3, <2>1, <2>2, <2>3 DEF Begun
    <2>5. Created(way) => Created(way)'
      BY <1>1, <1>3, <2>1, <2>2, <2>3 DEF Created, EmptyPcb
    <2> QED BY <2>4, <2>5
  <1>12. Sees'
    <2>1. at.pc \in {"boot", "user"} => seen' = View'
      BY <1>1, <1>4 DEF Sees
    <2>2. /\ (at.pc = "exec"  => \E way \in Ways : Begun(way)')
          /\ (at.pc = "enter" => \E way \in Ways : Created(way)')
      BY <1>11 DEF Sees
    <2>3. /\ (at.pc = "head"  => Counting')
          /\ (at.pc = "tail"  => Closing')
          /\ (at.pc \in {"sched", "esp", "leave"} => Switching')
      BY <1>7, <1>8 DEF Sees
    <2>4. seen'.kstack \in [Slots -> {"user", "execute", "tick"}]
      BY <1>1 DEF Sees
    <2> QED BY <1>1, <2>1, <2>2, <2>3, <2>4 DEF Sees
  <1> QED BY <1>1, <1>2, <1>12

(* A step leaves what is seen alone or is the step of Process that ends a     *)
(* handler.                                                                *)
LEMMA NextSees ==
  ASSUME Windows = {}, AInv, [Next /\ See]_<<vars, seen>>
  PROVE  AInv' /\ [Atomic!QuietNext]_(Atomic!vars)
  <1> USE DEF AInv
  <1>1. IInv'
    BY NextKeeps
  <1>2. CASE Next /\ See
    <2>1. Flat'
      BY <1>2, ContextsKept
    <2>2. Sees' /\ (seen' = seen \/ Atomic!QuietNext)
      <3>1. CASE Boot
        BY <1>2, <3>1, BootSees
      <3>2. CASE Tick
        BY <1>2, <3>2, TickLaunchSees, TickSwitchSees DEF Tick
      <3>3. CASE AllLaunched /\ (ExecuteCall \/ ExecuteFails)
        BY <1>2, <3>3, ExecuteCallSees, ExecuteFailsEnds
      <3>4. CASE HaltCall \/ OtherCall
        BY <1>2, <3>4, HaltCallSees, OtherCallEnds
      <3>5. CASE CreateProcess \/ EnterUser
        BY <1>2, <3>5, CreateProcessSees, EnterUserEnds
      <3>6. CASE RestartShell \/ CloseProcess \/ ReturnToParent
        BY <1>2, <3>6, RestartShellSees, CloseProcessSees, ReturnToParentEnds
      <3>7. CASE SwitchStack \/ SwitchTss \/ LeaveSwitch
        BY <1>2, <3>7, SwitchStackSees, SwitchTssSees, LeaveSwitchEnds
      <3> QED BY <1>2, <3>1, <3>2, <3>3, <3>4, <3>5, <3>6, <3>7 DEF Next, Handler
    <2>3. seen' = seen => UNCHANGED (Atomic!vars)
      BY DEF Atomic!vars, Atomic!pcbVars, Atomic!termVars, Atomic!cpuVars
    <2> QED BY <1>1, <2>1, <2>2, <2>3
  <1>3. CASE UNCHANGED <<vars, seen>>
    <2>1. Flat' /\ Sees' /\ seen' = seen
      BY <1>3, StutterSees
    <2>2. UNCHANGED (Atomic!vars)
      BY <2>1 DEF Atomic!vars, Atomic!pcbVars, Atomic!termVars, Atomic!cpuVars
    <2> QED BY <1>1, <2>1, <2>2
  <1> QED BY <1>2, <1>3

(* The boot of the one is the boot of the other.                             *)
LEMMA InitSees ==
  ASSUME Init, seen = View
  PROVE  AInv /\ Atomic!Init
  <1>1. IInv
    BY InitInv
  <1>2. at.pc = "boot" /\ \A s \in Slots : FrameOf(s) = "user"
    BY DEF Init, Point, FrameOf
  <1>3. Flat
    BY DEF Init, Flat
  <1>4. Sees
    BY <1>2 DEF Sees, View
  <1>5. Atomic!Init
    BY <1>2 DEF View, Init, Atomic!Init, Slots, Atomic!Slots, Terminals, Atomic!Terminals,
                Null, Atomic!Null
  <1> QED BY <1>1, <1>3, <1>4, <1>5 DEF AInv

(* For every number of slots and terminals and every number of processes:    *)
(* when no tick lands between a handler's sti() and its end, the "critical  *)
(* section start" and "end" of page.c:69 and 84, every behaviour of the     *)
(* handlers cut at their sti() is one of the handlers of Process, each in   *)
(* one step.  Only the fairness of HandlersAreAtomic is left out.           *)
THEOREM HandlersImplemented == Windows = {} /\ RefSpec => AtomicSafe
  <1>1. Windows = {} /\ AInv /\ [Next /\ See]_<<vars, seen>>
          => AInv' /\ [Atomic!QuietNext]_(Atomic!vars)
    BY NextSees
  <1>2. Init /\ seen = View => AInv /\ Atomic!Init
    BY InitSees
  <1>3. CASE Windows = {}
    <2>1. AInv /\ [Next /\ See]_<<vars, seen>> => AInv' /\ [Atomic!QuietNext]_(Atomic!vars)
      BY <1>1, <1>3
    <2> QED BY <1>2, <2>1, PTL DEF RefSpec, AtomicSafe
  <1>4. CASE Windows # {}
    BY <1>4
  <1> QED BY <1>3, <1>4
=============================================================================
