--------------------------- MODULE ProcessProofs ---------------------------
(***************************************************************************)
(* What holds of the process layer for every number of slots and terminals *)
(* (module Process, used as intended: QuietSpec).                          *)
(***************************************************************************)
EXTENDS ProcessRefinement, FiniteSetTheorems, WellFoundedInduction, TLAPS

-----------------------------------------------------------------------------
(* The type invariant is inductive by itself.                               *)

(* Every variable starts in its type.                                       *)
LEMMA InitType == Init => TypeOK
  <1> USE SizeAssumption DEF Slots, Terminals, Null, NoBlock
  <1> SUFFICES ASSUME Init PROVE TypeOK
    OBVIOUS
  <1> QED BY DEF Init, TypeOK, SlotOrNull, FrameKinds

(* The body of execute() keeps the type invariant, whatever its caller      *)
(* assigned before it.                                                     *)
LEMMA LoadType ==
  ASSUME TypeOK,
         NEW s \in Slots, NEW cp \in SlotOrNull, NEW t \in Terminals,
         NEW act \in [Slots -> BOOLEAN], NEW cnt \in [Terminals -> 0 .. MaxCount],
         NEW sav \in [Slots -> FrameKinds], NEW te \in [Slots -> SlotOrNull],
         LoadProcess(s, cp, t, act, cnt, sav, te),
         scheduled' \in Terminals,
         pcb_ptr' \in [Terminals -> SlotOrNull],
         kstack' \in [Slots -> FrameKinds]
  PROVE  TypeOK'
  <1>1. saved_esp' \in [Slots -> FrameKinds]
    BY DEF LoadProcess, FrameKinds
  <1>2. parent_id' \in [Slots -> SlotOrNull]
    BY DEF LoadProcess, TypeOK, SlotOrNull
  <1>3. active' \in [Slots -> BOOLEAN] /\ pcb_tid' \in [Slots -> Terminals]
    BY DEF LoadProcess, TypeOK
  <1>4. tss_esp0' \in [Slots -> SlotOrNull] /\ count_pcb' \in [Terminals -> 0 .. MaxCount]
    BY SizeAssumption DEF LoadProcess, TypeOK, Up
  <1>5. /\ pid' \in Slots \cup {-1, NoBlock} /\ curr_pcb' \in SlotOrNull
        /\ tss' \in SlotOrNull /\ page' \in SlotOrNull
    BY DEF LoadProcess, SlotOrNull
  <1> QED BY <1>1, <1>2, <1>3, <1>4, <1>5 DEF TypeOK

(* What scheduler() stores on a tick is well typed.                         *)
LEMMA OnTickType ==
  ASSUME TypeOK
  PROVE  /\ SavedOnTick \in [Slots -> FrameKinds]
         /\ TssOnTick \in [Slots -> SlotOrNull]
         /\ StackOnTick \in [Slots -> FrameKinds]
         /\ PtrOnTick \in [Terminals -> SlotOrNull]
         /\ NextTerminal(scheduled) \in Terminals
  <1>1. NextTerminal(scheduled) \in Terminals
    BY SizeAssumption DEF NextTerminal, TypeOK, Terminals
  <1>2. /\ SavedOnTick \in [Slots -> FrameKinds]
        /\ TssOnTick \in [Slots -> SlotOrNull]
        /\ StackOnTick \in [Slots -> FrameKinds]
        /\ PtrOnTick \in [Terminals -> SlotOrNull]
    BY DEF TypeOK, SavedOnTick, TssOnTick, StackOnTick, PtrOnTick, FrameKinds
  <1> QED BY <1>1, <1>2

(* Every handler, and every tick, keeps the type invariant.                 *)
LEMMA NextType == TypeOK /\ [Next]_vars => TypeOK'
  <1> SUFFICES ASSUME TypeOK, [Next]_vars PROVE TypeOK'
    OBVIOUS
  <1>0. Null \in SlotOrNull /\ Null \notin Slots
    BY DEF SlotOrNull, Null, Slots
  <1>1. CASE Boot
    BY <1>0, <1>1, LoadType DEF Boot, TypeOK
  <1>2. CASE TickResume
    <2> DEFINE t == NextTerminal(scheduled)
               p == PtrOnTick[t]
    <2>1. p \in Slots
      BY <1>2, OnTickType DEF TickResume, SlotOrNull
    <2>2. /\ scheduled' = t /\ pcb_ptr' = PtrOnTick /\ saved_esp' = SavedOnTick
          /\ tss_esp0' = TssOnTick /\ curr_pcb' = p /\ page' = p
          /\ tss' = TssOnTick[p] /\ kstack' = [StackOnTick EXCEPT ![p] = "user"]
          /\ UNCHANGED <<pid, active, parent_id, pcb_tid, count_pcb>>
      BY <1>2 DEF TickResume
    <2> QED BY <2>1, <2>2, OnTickType DEF TypeOK, SlotOrNull, FrameKinds
  <1>3. CASE TickLaunch
    <2> DEFINE t == NextTerminal(scheduled)
    <2>1. PICK s \in Slots :
            /\ LoadProcess(s, PcbAfterTick(t), t, active, count_pcb, SavedOnTick, TssOnTick)
            /\ kstack' = [StackOnTick EXCEPT ![s] = "user"]
      BY <1>3 DEF TickLaunch
    <2>2. PcbAfterTick(t) \in SlotOrNull
      BY OnTickType DEF PcbAfterTick, TypeOK
    <2>3. scheduled' \in Terminals /\ pcb_ptr' \in [Terminals -> SlotOrNull]
      BY <1>3, OnTickType DEF TickLaunch
    <2>4. kstack' \in [Slots -> FrameKinds]
      BY <2>1, OnTickType DEF FrameKinds
    <2> QED BY <2>1, <2>2, <2>3, <2>4, OnTickType, LoadType DEF TypeOK
  <1>4. CASE TickNoBlock
    <2>1. curr_pcb' \in SlotOrNull
      BY <1>4, OnTickType DEF TickNoBlock, PcbAfterTick, TypeOK
    <2> QED BY <1>4, <2>1, OnTickType DEF TickNoBlock, TypeOK, NoBlock, cpuVars
  <1>5. CASE Execute
    <2>1. PICK s \in Slots :
            /\ LoadProcess(s, curr_pcb, scheduled, active, count_pcb, saved_esp, tss_esp0)
            /\ kstack' = [kstack EXCEPT ![curr_pcb] = "execute", ![s] = "user"]
      BY <1>5 DEF Execute
    <2>2. kstack' \in [Slots -> FrameKinds]
      BY <2>1 DEF TypeOK, FrameKinds
    <2> QED BY <1>5, <2>1, <2>2, LoadType DEF Execute, TypeOK
  <1>6. CASE ExecuteFails
    BY <1>6 DEF ExecuteFails, TypeOK, pcbVars, termVars, cpuVars, NoBlock
  <1>7. CASE Halt
    <2>1. parent_id[curr_pcb] \in Slots
      BY <1>7 DEF Halt, TypeOK, SlotOrNull
    <2>2. count_pcb' \in [Terminals -> 0 .. MaxCount]
      BY <1>7, SizeAssumption DEF Halt, TypeOK, Down
    <2>3. active' \in [Slots -> BOOLEAN]
      BY <1>7 DEF Halt, TypeOK
    <2> QED BY <1>7, <2>1, <2>2, <2>3 DEF Halt, TypeOK, SlotOrNull, FrameKinds
  <1>8. CASE HaltBase
    <2> DEFINE act == [active EXCEPT ![curr_pcb] = FALSE]
               cnt == [count_pcb EXCEPT ![scheduled] = Down(@)]
    <2>1. PICK s \in Slots :
            /\ LoadProcess(s, curr_pcb, scheduled, act, cnt, saved_esp, tss_esp0)
            /\ kstack' = [kstack EXCEPT
                            ![curr_pcb] = IF cnt[scheduled] = 0 THEN @ ELSE "execute",
                            ![s] = "user"]
      BY <1>8 DEF HaltBase
    <2>2. act \in [Slots -> BOOLEAN]
      BY DEF TypeOK
    <2>3. cnt \in [Terminals -> 0 .. MaxCount]
      BY SizeAssumption DEF TypeOK, Down
    <2>4. kstack' \in [Slots -> FrameKinds]
      BY <1>8, <2>1 DEF TypeOK, FrameKinds, HaltBase, SlotOrNull
    <2> HIDE DEF act, cnt
    <2> QED BY <1>8, <2>1, <2>2, <2>4, <2>3, LoadType DEF HaltBase, TypeOK
  <1>9. CASE UNCHANGED vars
    BY <1>9 DEF TypeOK, vars, pcbVars, termVars, cpuVars
  <1> QED BY <1>1, <1>2, <1>3, <1>4, <1>5, <1>6, <1>7, <1>8, <1>9
          DEF Next, Tick
-----------------------------------------------------------------------------
(* The strengthening.  CallChain alone is not inductive: the links of a      *)
(* terminal could form its chain and a separate ring, and a base shell that *)
(* halts would then not leave an empty terminal.  pos, the position of a   *)
(* process in the call chain of its terminal, rules that out without       *)
(* induction: positions are below count_pcb and no two processes share one. *)
Order(pos) ==
  /\ \A s \in Slots : active[s] =>
       /\ pos[s] < count_pcb[pcb_tid[s]]
       /\ parent_id[s] = Null <=> pos[s] = 0
       /\ parent_id[s] # Null => /\ active[parent_id[s]]
                                 /\ pcb_tid[parent_id[s]] = pcb_tid[s]
                                 /\ pos[s] = pos[parent_id[s]] + 1
       /\ s # Front(pcb_tid[s]) => \E c \in Slots : active[c] /\ parent_id[c] = s
  /\ \A s, q \in Slots :
       active[s] /\ active[q] /\ pcb_tid[s] = pcb_tid[q] /\ pos[s] = pos[q] => s = q
  /\ \A t \in Terminals :
       /\ count_pcb[t] >= 0
       /\ count_pcb[t] # 0 => /\ Front(t) \in Slots /\ active[Front(t)]
                              /\ pcb_tid[Front(t)] = t
                              /\ pos[Front(t)] = count_pcb[t] - 1
                              /\ \E b \in Slots : active[b] /\ pcb_tid[b] = t /\ pos[b] = 0

CallOrder(D) == \E pos \in [Slots -> D] : Order(pos)

(* Before the first process nothing is set up; after it, the scheduled      *)
(* terminal's front process runs, with its own memory.                     *)
Started ==
  IF curr_pcb = Null
  THEN /\ pid = -1
       /\ \A s \in Slots : ~active[s]
       /\ \A t \in Terminals : count_pcb[t] = 0 /\ pcb_ptr[t] = Null
       /\ \A s \in Slots : kstack[s] = "user"
  ELSE /\ pid # -1
       /\ count_pcb[scheduled] # 0
       /\ page = curr_pcb /\ tss = curr_pcb
       /\ kstack[curr_pcb] = "user"

(* The saved context of every process that does not run.                    *)
Contexts ==
  \A s \in Slots : active[s] /\ s # curr_pcb =>
    IF s = Front(pcb_tid[s])
    THEN saved_esp[s] = "tick" /\ kstack[s] = "tick" /\ tss_esp0[s] = s
    ELSE saved_esp[s] = "execute" /\ kstack[s] = "execute"

(* While a terminal still waits for its base shell, no terminal has more    *)
(* than that.                                                              *)
OneEach == (\E t \in Terminals : count_pcb[t] = 0) =>
             \A t \in Terminals : count_pcb[t] <= 1

Strengthening(D) == Started /\ CallOrder(D) /\ Contexts /\ OneEach

(* The strengthening with positions TLC can enumerate.                      *)
BoundedStrengthening == Strengthening(0 .. MAX_PCB - 1)

IInv == TypeOK /\ CountMatches /\ Strengthening(Nat)

-----------------------------------------------------------------------------
(* LoadProcess, element by element.                                         *)
Loaded(s, cp, t, act, cnt, sav, te) ==
  /\ curr_pcb' = s /\ page' = s /\ tss' = s /\ pid' = s
  /\ active'[s]
  /\ \A q \in Slots : q # s => (active'[q] <=> act[q])
  /\ parent_id'[s] = IF cnt[t] = 0 THEN Null ELSE cp
  /\ \A q \in Slots : q # s => parent_id'[q] = parent_id[q]
  /\ pcb_tid'[s] = t
  /\ \A q \in Slots : q # s => pcb_tid'[q] = pcb_tid[q]
  /\ cnt[t] # MaxCount => count_pcb'[t] = cnt[t] + 1
  /\ \A u \in Terminals : u # t => count_pcb'[u] = cnt[u]
  /\ \A q \in Slots : saved_esp'[q] = IF cnt[t] # 0 /\ q = cp THEN "execute" ELSE sav[q]
  /\ \A q \in Slots : q # s => tss_esp0'[q] = te[q]

(* The body of execute() sets up the PCB of the new slot and the saved       *)
(* context of its caller, and leaves every other PCB as it is.             *)
LEMMA LoadFacts ==
  ASSUME TypeOK,
         NEW s \in Slots, NEW cp \in SlotOrNull, NEW t \in Terminals,
         NEW act \in [Slots -> BOOLEAN], NEW cnt \in [Terminals -> 0 .. MaxCount],
         NEW sav \in [Slots -> FrameKinds], NEW te \in [Slots -> SlotOrNull],
         LoadProcess(s, cp, t, act, cnt, sav, te)
  PROVE  Loaded(s, cp, t, act, cnt, sav, te)
  <1>1. /\ curr_pcb' = s /\ page' = s /\ tss' = s /\ pid' = s
        /\ cnt[t] # MaxCount => count_pcb'[t] = cnt[t] + 1
        /\ \A u \in Terminals : u # t => count_pcb'[u] = cnt[u]
    BY DEF LoadProcess, Up
  <1>2. active'[s] /\ \A q \in Slots : q # s => (active'[q] <=> act[q])
    BY DEF LoadProcess
  <1>3. /\ parent_id'[s] = IF cnt[t] = 0 THEN Null ELSE cp
        /\ \A q \in Slots : q # s => parent_id'[q] = parent_id[q]
    BY DEF LoadProcess, TypeOK
  <1>4. /\ pcb_tid'[s] = t
        /\ \A q \in Slots : q # s => pcb_tid'[q] = pcb_tid[q]
        /\ \A q \in Slots : q # s => tss_esp0'[q] = te[q]
    BY DEF LoadProcess, TypeOK
  <1>5. \A q \in Slots : saved_esp'[q] = IF cnt[t] # 0 /\ q = cp
                                       THEN "execute" ELSE sav[q]
    BY DEF LoadProcess
  <1> QED BY <1>1, <1>2, <1>3, <1>4, <1>5 DEF Loaded

(* An exact counter has room for one more process when a slot is free.       *)
LEMMA CountRoom ==
  ASSUME NEW s \in Slots, NEW t \in Terminals, NEW act, ~act[s],
         NEW n, n = Cardinality({q \in Slots : act[q] /\ pcb_tid[q] = t})
  PROVE  n # MaxCount
  <1> DEFINE M == {q \in Slots : act[q] /\ pcb_tid[q] = t}
  <1>1. IsFiniteSet(Slots) /\ Cardinality(Slots) = MAX_PCB
    BY FS_Interval, SizeAssumption DEF Slots
  <1>2. M \subseteq Slots \ {s}
    OBVIOUS
  <1>3. IsFiniteSet(Slots \ {s}) /\ Cardinality(Slots \ {s}) = MAX_PCB - 1
    BY <1>1, FS_RemoveElement
  <1>4. Cardinality(M) \in Nat /\ Cardinality(M) <= MAX_PCB - 1
    BY <1>2, <1>3, FS_Subset, FS_CardinalityType
  <1> QED BY <1>4, SizeAssumption

LEMMA RoomLeft ==
  ASSUME CountMatches, NEW s \in Slots, ~active[s], NEW t \in Terminals
  PROVE  count_pcb[t] # MaxCount
  <1>1. PICK n, act : n = count_pcb[t] /\ act = active
    OBVIOUS
  <1>2. n = Cardinality({q \in Slots : act[q] /\ pcb_tid[q] = t}) /\ ~act[s]
    BY <1>1 DEF CountMatches, Members
  <1>3. n # MaxCount
    BY <1>2, CountRoom
  <1> QED BY <1>1, <1>3

(* The counters stay exact when a process is loaded on exact counters.      *)
LEMMA LoadCount ==
  ASSUME TypeOK,
         NEW s \in Slots, NEW cp \in SlotOrNull, NEW t \in Terminals,
         NEW act \in [Slots -> BOOLEAN], NEW cnt \in [Terminals -> 0 .. MaxCount],
         NEW sav \in [Slots -> FrameKinds], NEW te \in [Slots -> SlotOrNull],
         LoadProcess(s, cp, t, act, cnt, sav, te),
         ~act[s],
         \A u \in Terminals :
            cnt[u] = Cardinality({q \in Slots : act[q] /\ pcb_tid[q] = u})
  PROVE  CountMatches'
  <1> DEFINE M(u) == {q \in Slots : act[q] /\ pcb_tid[q] = u}
  <1>1. /\ count_pcb'[t] = cnt[t] + 1
        /\ \A u \in Terminals : u # t => count_pcb'[u] = cnt[u]
        /\ active'[s] /\ \A q \in Slots : q # s => (active'[q] <=> act[q])
        /\ pcb_tid'[s] = t
        /\ \A q \in Slots : q # s => pcb_tid'[q] = pcb_tid[q]
    <2>1. cnt[t] # MaxCount
      BY CountRoom
    <2> QED BY <2>1, LoadFacts DEF Loaded
  <1>2. IsFiniteSet(M(t)) /\ s \notin M(t)
    <2>1. IsFiniteSet(Slots)
      BY FS_Interval, SizeAssumption DEF Slots
    <2> QED BY <2>1, FS_Subset
  <1>3. Members(t)' = M(t) \cup {s}
    BY <1>1 DEF Members
  <1>4. \A u \in Terminals : u # t => Members(u)' = M(u)
    BY <1>1 DEF Members
  <1>5. Cardinality(M(t) \cup {s}) = Cardinality(M(t)) + 1
    BY <1>2, FS_AddElement
  <1>6. ASSUME NEW u \in Terminals
        PROVE  count_pcb'[u] = Cardinality(Members(u)')
    <2>1. CASE u = t
      BY <2>1, <1>1, <1>3, <1>5
    <2>2. CASE u # t
      BY <2>2, <1>1, <1>4
    <2> QED BY <2>1, <2>2
  <1> QED BY <1>6 DEF CountMatches

(* A base shell loaded for a terminal without processes starts its chain.   *)
LEMMA BaseOrder ==
  ASSUME TypeOK,
         NEW pos \in [Slots -> Nat], Order(pos),
         NEW s \in Slots, NEW cp \in SlotOrNull, NEW t \in Terminals,
         NEW act \in [Slots -> BOOLEAN], NEW cnt \in [Terminals -> 0 .. MaxCount],
         NEW sav \in [Slots -> FrameKinds], NEW te \in [Slots -> SlotOrNull],
         LoadProcess(s, cp, t, act, cnt, sav, te),
         ~act[s], cnt[t] = 0,
         \A q \in Slots : act[q] <=> active[q] /\ pcb_tid[q] # t,
         \A u \in Terminals : u # t => cnt[u] = count_pcb[u],
         scheduled' = t,
         \A u \in Terminals : u # t => Front(u)' = Front(u)
  PROVE  CallOrder(Nat)'
  <1>1. PICK np \in [Slots -> Nat] : np = [pos EXCEPT ![s] = 0]
    OBVIOUS
  <1>2. np[s] = 0 /\ \A q \in Slots : q # s => np[q] = pos[q]
    BY <1>1
  <1>3. /\ active'[s] /\ \A q \in Slots : q # s => (active'[q] <=> act[q])
        /\ parent_id'[s] = Null
        /\ \A q \in Slots : q # s => parent_id'[q] = parent_id[q]
        /\ pcb_tid'[s] = t
        /\ \A q \in Slots : q # s => pcb_tid'[q] = pcb_tid[q]
        /\ count_pcb'[t] = 1
        /\ \A u \in Terminals : u # t => count_pcb'[u] = count_pcb[u]
    <2>1. Loaded(s, cp, t, act, cnt, sav, te)
      BY LoadFacts
    <2>2. cnt[t] # MaxCount
      BY SizeAssumption
    <2> QED BY <2>1, <2>2 DEF Loaded
  <1>4. Front(t)' = s
    BY LoadFacts DEF Front, Loaded
  <1>5. Null \notin Slots
    BY DEF Null, Slots
  <1>6. ASSUME NEW q \in Slots, active'[q], q # s
        PROVE  active[q] /\ pcb_tid[q] # t /\ pcb_tid'[q] # t /\ pcb_tid[q] \in Terminals
    BY <1>6, <1>3 DEF TypeOK
  <1>7. ASSUME NEW q \in Slots, active'[q]
        PROVE  /\ np[q] < count_pcb'[pcb_tid'[q]]
               /\ parent_id'[q] = Null <=> np[q] = 0
               /\ parent_id'[q] # Null => /\ active'[parent_id'[q]]
                                          /\ pcb_tid'[parent_id'[q]] = pcb_tid'[q]
                                          /\ np[q] = np[parent_id'[q]] + 1
               /\ q # Front(pcb_tid[q])' => \E c \in Slots : active'[c] /\ parent_id'[c] = q
    <2>1. CASE q = s
      BY <2>1, <1>2, <1>3, <1>4
    <2>2. CASE q # s
      <3>1. active[q] /\ pcb_tid[q] # t /\ pcb_tid[q] \in Terminals
            /\ pcb_tid'[q] = pcb_tid[q]
        BY <2>2, <1>6, <1>7, <1>3
      <3>2. np[q] < count_pcb'[pcb_tid'[q]] /\ (parent_id'[q] = Null <=> np[q] = 0)
        BY <2>2, <3>1, <1>2, <1>3 DEF Order
      <3>3. ASSUME parent_id'[q] # Null
            PROVE  /\ active'[parent_id'[q]]
                   /\ pcb_tid'[parent_id'[q]] = pcb_tid'[q]
                   /\ np[q] = np[parent_id'[q]] + 1
        <4>1. parent_id'[q] = parent_id[q] /\ parent_id[q] \in Slots
          BY <2>2, <1>3, <3>3 DEF TypeOK, SlotOrNull
        <4>2. /\ active[parent_id[q]] /\ pcb_tid[parent_id[q]] = pcb_tid[q]
              /\ pos[q] = pos[parent_id[q]] + 1
          BY <3>1, <3>3, <4>1 DEF Order
        <4>3. act[parent_id[q]] /\ parent_id[q] # s
          BY <3>1, <4>1, <4>2
        <4> QED BY <2>2, <4>1, <4>2, <4>3, <1>2, <1>3
      <3>4. ASSUME q # Front(pcb_tid[q])'
            PROVE  \E c \in Slots : active'[c] /\ parent_id'[c] = q
        <4>1. q # Front(pcb_tid[q])
          BY <3>1, <3>4 DEF Front
        <4>2. PICK c \in Slots : active[c] /\ parent_id[c] = q
          BY <3>1, <4>1 DEF Order
        <4>3. pcb_tid[c] = pcb_tid[q]
          BY <4>2, <1>5 DEF Order
        <4>4. act[c] /\ c # s
          BY <4>2, <4>3, <3>1
        <4> QED BY <4>2, <4>4, <1>3
      <3> QED BY <3>2, <3>3, <3>4
    <2> QED BY <2>1, <2>2
  <1>8. ASSUME NEW q \in Slots, NEW r \in Slots,
               active'[q], active'[r], pcb_tid'[q] = pcb_tid'[r], np[q] = np[r]
        PROVE  q = r
    BY <1>8, <1>2, <1>3, <1>6 DEF Order
  <1>9. ASSUME NEW u \in Terminals
        PROVE  /\ count_pcb'[u] >= 0
               /\ count_pcb'[u] # 0 => /\ Front(u)' \in Slots /\ active'[Front(u)']
                                       /\ pcb_tid'[Front(u)'] = u
                                       /\ np[Front(u)'] = count_pcb'[u] - 1
                                       /\ \E b \in Slots : /\ active'[b] /\ pcb_tid'[b] = u
                                                           /\ np[b] = 0
    <2>1. CASE u = t
      BY <2>1, <1>2, <1>3, <1>4
    <2>2. CASE u # t
      <3>1. count_pcb'[u] = count_pcb[u] /\ Front(u)' = Front(u)
        BY <2>2, <1>3
      <3>2. /\ count_pcb[u] >= 0
            /\ count_pcb[u] # 0 => /\ Front(u) \in Slots /\ active[Front(u)]
                                   /\ pcb_tid[Front(u)] = u
                                   /\ pos[Front(u)] = count_pcb[u] - 1
                                   /\ \E b \in Slots : /\ active[b] /\ pcb_tid[b] = u
                                                       /\ pos[b] = 0
        BY DEF Order
      <3> QED BY <2>2, <3>1, <3>2, <1>2, <1>3
    <2> QED BY <2>1, <2>2
  <1>10. Order(np)'
    BY <1>7, <1>8, <1>9 DEF Order
  <1> QED BY <1>10 DEF CallOrder

(* A child loaded by the running process is pushed on its terminal's chain. *)
LEMMA ChildOrder ==
  ASSUME TypeOK, CountMatches, Execute, count_pcb[scheduled] # 0,
         NEW pos \in [Slots -> Nat], Order(pos)
  PROVE  CallOrder(Nat)'
  <1>0. PICK t \in Terminals : t = scheduled
    BY DEF TypeOK
  <1>1. PICK s \in Slots :
          /\ EmptyPcb(active, s)
          /\ LoadProcess(s, curr_pcb, scheduled, active, count_pcb, saved_esp, tss_esp0)
    BY DEF Execute
  <1>2. /\ curr_pcb \in Slots /\ t \in Terminals /\ Null \notin Slots
        /\ scheduled' = t /\ pcb_ptr' = pcb_ptr /\ ~active[s]
    BY <1>0, <1>1 DEF Execute, EmptyPcb, TypeOK, SlotOrNull, Null, Slots
  <1>3. /\ curr_pcb' = s
        /\ active'[s] /\ \A q \in Slots : q # s => (active'[q] <=> active[q])
        /\ parent_id'[s] = IF count_pcb[t] = 0 THEN Null ELSE curr_pcb
        /\ \A q \in Slots : q # s => parent_id'[q] = parent_id[q]
        /\ pcb_tid'[s] = t
        /\ \A q \in Slots : q # s => pcb_tid'[q] = pcb_tid[q]
        /\ count_pcb'[t] = count_pcb[t] + 1
        /\ \A u \in Terminals : u # t => count_pcb'[u] = count_pcb[u]
    <2>1. Loaded(s, curr_pcb, scheduled, active, count_pcb, saved_esp, tss_esp0)
      BY <1>1, LoadFacts DEF TypeOK
    <2>2. count_pcb[t] # MaxCount
      <3>1. ~active[s] /\ t \in Terminals
        BY <1>0, <1>2
      <3> QED BY <1>1, <3>1, RoomLeft
    <2> QED BY <2>1, <2>2, <1>0 DEF Loaded
  <1>4. parent_id'[s] = curr_pcb
    BY <1>0, <1>3
  <1>5. /\ active[curr_pcb] /\ pcb_tid[curr_pcb] = t
        /\ pos[curr_pcb] = count_pcb[t] - 1 /\ curr_pcb # s
        /\ count_pcb[t] \in Nat /\ count_pcb[t] > 0
    BY <1>0, <1>2 DEF Order, Front, TypeOK
  <1>6. /\ Front(t)' = s /\ Front(t) = curr_pcb
        /\ \A u \in Terminals : u # t => Front(u)' = Front(u)
    BY <1>0, <1>2, <1>3 DEF Front
  <1>7. PICK np \in [Slots -> Nat] : np = [pos EXCEPT ![s] = count_pcb[t]]
    BY <1>5
  <1>8. np[s] = count_pcb[t] /\ \A q \in Slots : q # s => np[q] = pos[q]
    BY <1>7
  <1>9. ASSUME NEW q \in Slots, active'[q], q # s
        PROVE  active[q] /\ pcb_tid'[q] = pcb_tid[q] /\ pcb_tid[q] \in Terminals
               /\ pos[q] < count_pcb[pcb_tid[q]]
    BY <1>9, <1>3 DEF TypeOK, Order
  <1>10. ASSUME NEW q \in Slots, active'[q]
         PROVE  /\ np[q] < count_pcb'[pcb_tid'[q]]
                /\ parent_id'[q] = Null <=> np[q] = 0
                /\ parent_id'[q] # Null => /\ active'[parent_id'[q]]
                                           /\ pcb_tid'[parent_id'[q]] = pcb_tid'[q]
                                           /\ np[q] = np[parent_id'[q]] + 1
                /\ q # Front(pcb_tid[q])' => \E c \in Slots : active'[c] /\ parent_id'[c] = q
    <2>1. CASE q = s
      BY <2>1, <1>2, <1>3, <1>4, <1>5, <1>6, <1>8
    <2>2. CASE q # s
      <3>1. active[q] /\ pcb_tid'[q] = pcb_tid[q] /\ pcb_tid[q] \in Terminals
            /\ pos[q] < count_pcb[pcb_tid[q]] /\ np[q] = pos[q]
            /\ parent_id'[q] = parent_id[q]
        BY <2>2, <1>3, <1>8, <1>9, <1>10
      <3>2. np[q] < count_pcb'[pcb_tid'[q]]
        BY <3>1, <1>3 DEF TypeOK
      <3>3. parent_id'[q] = Null <=> np[q] = 0
        BY <3>1 DEF Order
      <3>4. ASSUME parent_id'[q] # Null
            PROVE  /\ active'[parent_id'[q]]
                   /\ pcb_tid'[parent_id'[q]] = pcb_tid'[q]
                   /\ np[q] = np[parent_id'[q]] + 1
        <4>1. parent_id[q] \in Slots
          BY <3>1, <3>4 DEF TypeOK, SlotOrNull
        <4>2. /\ active[parent_id[q]] /\ pcb_tid[parent_id[q]] = pcb_tid[q]
              /\ pos[q] = pos[parent_id[q]] + 1
          BY <3>1, <3>4 DEF Order
        <4>3. parent_id[q] # s
          BY <4>2, <1>2
        <4> QED BY <3>1, <4>1, <4>2, <4>3, <1>3, <1>8
      <3>5. ASSUME q # Front(pcb_tid[q])'
            PROVE  \E c \in Slots : active'[c] /\ parent_id'[c] = q
        <4>1. CASE q = curr_pcb
          BY <4>1, <1>3, <1>4
        <4>2. CASE q # curr_pcb
          <5>1. q # Front(pcb_tid[q])
            BY <3>1, <3>5, <4>2, <1>6
          <5>2. PICK c \in Slots : active[c] /\ parent_id[c] = q
            BY <3>1, <5>1 DEF Order
          <5>3. c # s
            BY <5>2, <1>2
          <5> QED BY <5>2, <5>3, <1>3
        <4> QED BY <4>1, <4>2
      <3> QED BY <3>2, <3>3, <3>4, <3>5
    <2> QED BY <2>1, <2>2
  <1>11. ASSUME NEW q \in Slots, NEW r \in Slots,
                active'[q], active'[r], pcb_tid'[q] = pcb_tid'[r], np[q] = np[r]
         PROVE  q = r
    <2>1. CASE q # s /\ r # s
      BY <2>1, <1>11, <1>8, <1>9 DEF Order
    <2>2. CASE q # s /\ r = s
      BY <2>2, <1>11, <1>3, <1>8, <1>9
    <2>3. CASE q = s /\ r # s
      BY <2>3, <1>11, <1>3, <1>8, <1>9
    <2> QED BY <2>1, <2>2, <2>3
  <1>12. ASSUME NEW u \in Terminals
         PROVE  /\ count_pcb'[u] >= 0
                /\ count_pcb'[u] # 0 => /\ Front(u)' \in Slots /\ active'[Front(u)']
                                        /\ pcb_tid'[Front(u)'] = u
                                        /\ np[Front(u)'] = count_pcb'[u] - 1
                                        /\ \E b \in Slots : /\ active'[b] /\ pcb_tid'[b] = u
                                                            /\ np[b] = 0
    <2>1. CASE u = t
      <3>1. PICK b \in Slots : active[b] /\ pcb_tid[b] = t /\ pos[b] = 0
        BY <1>5 DEF Order
      <3>2. active'[b] /\ pcb_tid'[b] = u /\ np[b] = 0
        BY <2>1, <3>1, <1>2, <1>3, <1>8
      <3> QED BY <2>1, <3>2, <1>3, <1>5, <1>6, <1>8
    <2>2. CASE u # t
      <3>1. count_pcb'[u] = count_pcb[u] /\ Front(u)' = Front(u)
        BY <2>2, <1>3, <1>6
      <3>2. /\ count_pcb[u] >= 0
            /\ count_pcb[u] # 0 => /\ Front(u) \in Slots /\ active[Front(u)]
                                   /\ pcb_tid[Front(u)] = u
                                   /\ pos[Front(u)] = count_pcb[u] - 1
                                   /\ \E b \in Slots : /\ active[b] /\ pcb_tid[b] = u
                                                       /\ pos[b] = 0
        BY DEF Order
      <3> QED BY <3>1, <3>2, <1>2, <1>3, <1>8
    <2> QED BY <2>1, <2>2
  <1>13. Order(np)'
    BY <1>10, <1>11, <1>12 DEF Order
  <1> QED BY <1>13 DEF CallOrder

(* halt() of a child pops it: its parent becomes the front of the chain.    *)
LEMMA HaltOrder ==
  ASSUME TypeOK, Halt, count_pcb[scheduled] # 0,
         NEW pos \in [Slots -> Nat], Order(pos)
  PROVE  CallOrder(Nat)'
  <1>0. PICK t \in Terminals, f \in Slots, p \in Slots :
          t = scheduled /\ f = curr_pcb /\ p = parent_id[curr_pcb]
    BY DEF Halt, TypeOK, SlotOrNull
  <1>1. /\ f \in Slots /\ p \in Slots /\ t \in Terminals
        /\ scheduled' = t /\ pcb_ptr' = pcb_ptr /\ curr_pcb' = p
        /\ parent_id' = parent_id /\ pcb_tid' = pcb_tid
    BY <1>0 DEF Halt, TypeOK, SlotOrNull
  <1>2. ~active'[f] /\ \A q \in Slots : q # f => (active'[q] <=> active[q])
    BY <1>0, <1>1 DEF Halt, TypeOK
  <1>3. /\ count_pcb'[t] = count_pcb[t] - 1
        /\ \A u \in Terminals : u # t => count_pcb'[u] = count_pcb[u]
    BY <1>0 DEF Halt, TypeOK, Down
  <1>4. /\ active[f] /\ pcb_tid[f] = t /\ pos[f] = count_pcb[t] - 1
        /\ count_pcb[t] \in Nat
    BY <1>0, <1>1 DEF Order, Front, TypeOK
  <1>5. p # Null
    BY <1>0 DEF Halt
  <1>6. active[p] /\ pcb_tid[p] = t /\ pos[f] = pos[p] + 1
    BY <1>0, <1>1, <1>4, <1>5 DEF Order
  <1>7. /\ p # f /\ active'[p] /\ count_pcb[t] > 1
        /\ pos[p] = count_pcb'[t] - 1
    BY <1>1, <1>2, <1>3, <1>4, <1>6
  <1>8. /\ Front(t)' = p /\ Front(t) = f
        /\ \A u \in Terminals : u # t => Front(u)' = Front(u)
    BY <1>0, <1>1 DEF Front
  <1>9. ASSUME NEW q \in Slots, active'[q]
        PROVE  active[q] /\ q # f /\ pcb_tid[q] \in Terminals
    BY <1>2, <1>9 DEF TypeOK
  <1>10. ASSUME NEW q \in Slots, active'[q], pcb_tid[q] = t
         PROVE  pos[q] < count_pcb[t] - 1
    BY <1>1, <1>4, <1>9, <1>10 DEF Order
  <1>11. ASSUME NEW q \in Slots, active'[q]
         PROVE  /\ pos[q] < count_pcb'[pcb_tid'[q]]
                /\ parent_id'[q] = Null <=> pos[q] = 0
                /\ parent_id'[q] # Null => /\ active'[parent_id'[q]]
                                           /\ pcb_tid'[parent_id'[q]] = pcb_tid'[q]
                                           /\ pos[q] = pos[parent_id'[q]] + 1
                /\ q # Front(pcb_tid[q])' => \E c \in Slots : active'[c] /\ parent_id'[c] = q
    <2>1. active[q] /\ q # f /\ pcb_tid[q] \in Terminals
      BY <1>9, <1>11
    <2>2. pos[q] < count_pcb'[pcb_tid'[q]]
      <3>1. CASE pcb_tid[q] = t
        BY <3>1, <1>1, <1>3, <1>10, <1>11
      <3>2. CASE pcb_tid[q] # t
        BY <3>2, <2>1, <1>1, <1>3 DEF Order
      <3> QED BY <3>1, <3>2
    <2>3. parent_id'[q] = Null <=> pos[q] = 0
      BY <2>1, <1>1 DEF Order
    <2>4. ASSUME parent_id'[q] # Null
          PROVE  /\ active'[parent_id'[q]]
                 /\ pcb_tid'[parent_id'[q]] = pcb_tid'[q]
                 /\ pos[q] = pos[parent_id'[q]] + 1
      <3>1. parent_id[q] \in Slots /\ parent_id'[q] = parent_id[q]
        BY <2>4, <1>1 DEF TypeOK, SlotOrNull
      <3>2. /\ active[parent_id[q]] /\ pcb_tid[parent_id[q]] = pcb_tid[q]
            /\ pos[q] = pos[parent_id[q]] + 1
        BY <2>1, <2>4, <3>1 DEF Order
      <3>3. parent_id[q] # f
        <4>1. SUFFICES ASSUME parent_id[q] = f PROVE FALSE
          OBVIOUS
        <4>2. pcb_tid[q] = t /\ pos[q] = count_pcb[t]
          BY <4>1, <3>2, <1>4
        <4> QED BY <4>2, <1>4, <1>10, <1>11
      <3> QED BY <3>1, <3>2, <3>3, <1>1, <1>2
    <2>5. ASSUME q # Front(pcb_tid[q])'
          PROVE  \E c \in Slots : active'[c] /\ parent_id'[c] = q
      <3>1. q # p
        BY <2>5, <1>1, <1>6, <1>8
      <3>2. q # Front(pcb_tid[q])
        BY <2>1, <2>5, <1>1, <1>8
      <3>3. PICK c \in Slots : active[c] /\ parent_id[c] = q
        BY <2>1, <3>2 DEF Order
      <3>4. c # f
        BY <3>1, <3>3, <1>0
      <3> QED BY <3>3, <3>4, <1>1, <1>2
    <2> QED BY <2>2, <2>3, <2>4, <2>5
  <1>12. ASSUME NEW q \in Slots, NEW r \in Slots,
                active'[q], active'[r], pcb_tid'[q] = pcb_tid'[r], pos[q] = pos[r]
         PROVE  q = r
    BY <1>1, <1>9, <1>12 DEF Order
  <1>13. ASSUME NEW u \in Terminals
         PROVE  /\ count_pcb'[u] >= 0
                /\ count_pcb'[u] # 0 => /\ Front(u)' \in Slots /\ active'[Front(u)']
                                        /\ pcb_tid'[Front(u)'] = u
                                        /\ pos[Front(u)'] = count_pcb'[u] - 1
                                        /\ \E b \in Slots : /\ active'[b] /\ pcb_tid'[b] = u
                                                            /\ pos[b] = 0
    <2>1. CASE u = t
      <3>1. Front(u)' = p /\ count_pcb'[u] = count_pcb[t] - 1
        BY <2>1, <1>3, <1>8
      <3>2. active'[p] /\ pcb_tid'[p] = u /\ pos[p] = count_pcb'[u] - 1
        BY <2>1, <1>1, <1>6, <1>7
      <3>3. PICK b \in Slots : active[b] /\ pcb_tid[b] = t /\ pos[b] = 0
        BY <1>7 DEF Order
      <3>4. active'[b] /\ pcb_tid'[b] = u
        BY <2>1, <3>3, <1>1, <1>2, <1>4, <1>7
      <3> QED BY <3>1, <3>2, <3>3, <3>4, <1>4, <1>7
    <2>2. CASE u # t
      <3>1. count_pcb'[u] = count_pcb[u] /\ Front(u)' = Front(u)
        BY <2>2, <1>3, <1>8
      <3>2. /\ count_pcb[u] >= 0
            /\ count_pcb[u] # 0 => /\ Front(u) \in Slots /\ active[Front(u)]
                                   /\ pcb_tid[Front(u)] = u
                                   /\ pos[Front(u)] = count_pcb[u] - 1
                                   /\ \E b \in Slots : /\ active[b] /\ pcb_tid[b] = u
                                                       /\ pos[b] = 0
        BY DEF Order
      <3> QED BY <2>2, <3>1, <3>2, <1>1, <1>2, <1>4
    <2> QED BY <2>1, <2>2
  <1>14. Order(pos)'
    BY <1>11, <1>12, <1>13 DEF Order
  <1> QED BY <1>14 DEF CallOrder

-----------------------------------------------------------------------------
(* The pointers a tick leaves behind name the front process of every        *)
(* terminal.                                                               *)
LEMMA TickFront ==
  ASSUME TypeOK
  PROVE  \A u \in Terminals : PtrOnTick[u] = Front(u)
  BY DEF TypeOK, PtrOnTick, Front

(* The running process is its terminal's front, and the only one without a  *)
(* saved context.                                                          *)
LEMMA RunningFacts ==
  ASSUME TypeOK, Strengthening(Nat), curr_pcb # Null
  PROVE  /\ curr_pcb \in Slots /\ active[curr_pcb]
         /\ pcb_tid[curr_pcb] = scheduled /\ Front(scheduled) = curr_pcb
         /\ count_pcb[scheduled] # 0
         /\ parent_id[curr_pcb] = Null => count_pcb[scheduled] = 1
  <1>1. PICK pos \in [Slots -> Nat] : Order(pos)
    BY DEF Strengthening, CallOrder
  <1>2. curr_pcb \in Slots /\ scheduled \in Terminals /\ Front(scheduled) = curr_pcb
    BY DEF TypeOK, SlotOrNull, Front
  <1>3. count_pcb[scheduled] # 0
    BY DEF Strengthening, Started
  <1>4. /\ active[curr_pcb] /\ pcb_tid[curr_pcb] = scheduled
        /\ pos[curr_pcb] = count_pcb[scheduled] - 1
    BY <1>1, <1>2, <1>3 DEF Order
  <1>5. parent_id[curr_pcb] = Null => count_pcb[scheduled] = 1
    BY <1>1, <1>2, <1>4 DEF Order, TypeOK
  <1> QED BY <1>2, <1>3, <1>4, <1>5

(* The first execute("shell") of kernel.c keeps the strengthening.          *)
LEMMA BootStep ==
  ASSUME IInv, Boot
  PROVE  CountMatches' /\ Strengthening(Nat)'
  <1> USE DEF IInv
  <1>1. PICK t \in Terminals : t = scheduled
    BY DEF TypeOK
  <1>2. PICK s \in Slots :
          /\ EmptyPcb(active, s)
          /\ LoadProcess(s, Null, t, active, count_pcb, saved_esp, tss_esp0)
    BY <1>1 DEF Boot
  <1>3. /\ scheduled' = t /\ pcb_ptr' = pcb_ptr /\ kstack' = kstack
        /\ \A q \in Slots : ~active[q] /\ kstack[q] = "user"
        /\ \A u \in Terminals : count_pcb[u] = 0
    BY <1>1 DEF Boot, Strengthening, Started
  <1>4. Null \in SlotOrNull /\ s # Null
    BY DEF SlotOrNull, Null, Slots
  <1>5. Loaded(s, Null, t, active, count_pcb, saved_esp, tss_esp0)
    BY <1>2, <1>4, LoadFacts DEF TypeOK
  <1>6. CountMatches'
    BY <1>2, <1>3, <1>4, LoadCount DEF TypeOK, CountMatches, Members
  <1>7. CallOrder(Nat)'
    <2>1. PICK pos \in [Slots -> Nat] : Order(pos)
      BY DEF Strengthening, CallOrder
    <2>2. \A u \in Terminals : u # t => Front(u)' = Front(u)
      BY <1>1, <1>3 DEF Front
    <2> QED BY <1>2, <1>3, <1>4, <2>1, <2>2, BaseOrder DEF TypeOK
  <1>8. count_pcb'[t] = 1
    BY <1>3, <1>5, SizeAssumption DEF Loaded
  <1>9. Started'
    BY <1>3, <1>4, <1>5, <1>8 DEF Started, Loaded, Null
  <1>10. Contexts'
    BY <1>3, <1>5 DEF Contexts, Loaded
  <1>11. OneEach'
    BY <1>3, <1>5, <1>8 DEF OneEach, Loaded
  <1> QED BY <1>6, <1>7, <1>9, <1>10, <1>11 DEF Strengthening

(* System call execute keeps it: the new process becomes the front of its   *)
(* terminal's chain, and its caller is stopped in execute().               *)
LEMMA ExecuteStep ==
  ASSUME IInv, AllLaunched, Execute
  PROVE  CountMatches' /\ Strengthening(Nat)'
  <1> USE DEF IInv
  <1>0. PICK t \in Terminals, f \in Slots : t = scheduled /\ f = curr_pcb
    BY DEF TypeOK, Execute, SlotOrNull
  <1>1. PICK s \in Slots :
          /\ EmptyPcb(active, s)
          /\ LoadProcess(s, f, t, active, count_pcb, saved_esp, tss_esp0)
          /\ kstack' = [kstack EXCEPT ![f] = "execute", ![s] = "user"]
    BY <1>0 DEF Execute
  <1>2. /\ scheduled' = t /\ pcb_ptr' = pcb_ptr /\ ~active[s] /\ curr_pcb # Null
        /\ f \in SlotOrNull /\ s # Null
    BY <1>0, <1>1 DEF Execute, EmptyPcb, SlotOrNull, Null, Slots
  <1>3. Loaded(s, f, t, active, count_pcb, saved_esp, tss_esp0)
    BY <1>1, <1>2, LoadFacts DEF TypeOK
  <1>4. active[f] /\ pcb_tid[f] = t /\ Front(t) = f /\ count_pcb[t] # 0 /\ f # s
    BY <1>0, <1>2, RunningFacts
  <1>5. CountMatches'
    BY <1>1, <1>2, LoadCount DEF TypeOK, CountMatches, Members
  <1>6. CallOrder(Nat)'
    <2>1. PICK pos \in [Slots -> Nat] : Order(pos)
      BY DEF Strengthening, CallOrder
    <2> QED BY <1>0, <1>4, <2>1, ChildOrder
  <1>7. /\ kstack'[s] = "user" /\ kstack'[f] = "execute"
        /\ \A q \in Slots : q # s /\ q # f => kstack'[q] = kstack[q]
    BY <1>1, <1>4 DEF TypeOK
  <1>8. /\ Front(t)' = s /\ \A u \in Terminals : u # t => Front(u)' = Front(u)
    BY <1>0, <1>2, <1>3 DEF Front, Loaded
  <1>9. \A u \in Terminals : count_pcb'[u] > 0
    <2>1. \A u \in Terminals : count_pcb[u] > 0
      BY DEF AllLaunched, Strengthening, CallOrder, Order, TypeOK
    <2>2. count_pcb[t] # MaxCount
      <3>1. ~active[s] /\ t \in Terminals /\ CountMatches
        BY <1>0, <1>2 DEF IInv
      <3> QED BY <1>1, <3>1, RoomLeft
    <2> QED BY <1>3, <2>1, <2>2 DEF Loaded, TypeOK
  <1>10. Started'
    BY <1>2, <1>3, <1>7, <1>9, <1>0 DEF Started, Loaded, Null, Slots
  <1>11. ASSUME NEW q \in Slots, active'[q], q # curr_pcb'
         PROVE  IF q = Front(pcb_tid[q])'
                THEN saved_esp'[q] = "tick" /\ kstack'[q] = "tick" /\ tss_esp0'[q] = q
                ELSE saved_esp'[q] = "execute" /\ kstack'[q] = "execute"
    <2>1. /\ q # s /\ active[q] /\ pcb_tid'[q] = pcb_tid[q] /\ tss_esp0'[q] = tss_esp0[q]
          /\ pcb_tid[q] \in Terminals
      BY <1>3, <1>11 DEF Loaded, TypeOK
    <2>2. CASE q = f
      <3>1. q # Front(pcb_tid[q])'
        BY <2>1, <2>2, <1>4, <1>8
      <3> QED BY <2>2, <3>1, <1>3, <1>4, <1>7 DEF Loaded
    <2>3. CASE q # f
      <3>1. saved_esp'[q] = saved_esp[q] /\ kstack'[q] = kstack[q]
        BY <2>1, <2>3, <1>3, <1>7 DEF Loaded
      <3>2. q = Front(pcb_tid[q])' <=> q = Front(pcb_tid[q])
        BY <2>1, <2>3, <1>4, <1>8
      <3>3. IF q = Front(pcb_tid[q])
            THEN saved_esp[q] = "tick" /\ kstack[q] = "tick" /\ tss_esp0[q] = q
            ELSE saved_esp[q] = "execute" /\ kstack[q] = "execute"
        BY <2>1, <2>3, <1>0 DEF Strengthening, Contexts
      <3> QED BY <2>1, <3>1, <3>2, <3>3
    <2> QED BY <2>2, <2>3
  <1>12. Contexts'
    BY <1>11 DEF Contexts
  <1>13. OneEach'
    BY <1>9 DEF OneEach
  <1> QED BY <1>5, <1>6, <1>10, <1>12, <1>13 DEF Strengthening

(* A failed execute keeps it: only the global pid has changed.              *)
LEMMA ExecuteFailsStep ==
  ASSUME IInv, ExecuteFails
  PROVE  CountMatches' /\ Strengthening(Nat)'
  <1> USE DEF IInv
  <1>1. UNCHANGED <<curr_pcb, pcbVars, termVars, cpuVars>>
    BY DEF ExecuteFails
  <1>2. CountMatches' /\ Contexts' /\ OneEach'
    BY <1>1 DEF CountMatches, Contexts, OneEach, Members, Front, Strengthening,
                pcbVars, termVars, cpuVars
  <1>3. CallOrder(Nat)'
    BY <1>1 DEF CallOrder, Order, Front, Strengthening, pcbVars, termVars, cpuVars
  <1>4. pid' # -1
    BY DEF ExecuteFails, NoBlock, Slots
  <1>5. Started'
    BY <1>1, <1>4 DEF ExecuteFails, Started, Strengthening, pcbVars, termVars, cpuVars
  <1> QED BY <1>2, <1>3, <1>5 DEF Strengthening

(* System call halt keeps it: the caller becomes the front again.           *)
LEMMA HaltStep ==
  ASSUME IInv, Halt
  PROVE  CountMatches' /\ Strengthening(Nat)'
  <1> USE DEF IInv
  <1>0. PICK t \in Terminals, f \in Slots, p \in Slots :
          t = scheduled /\ f = curr_pcb /\ p = parent_id[curr_pcb]
    BY DEF Halt, TypeOK, SlotOrNull
  <1>1. /\ scheduled' = t /\ pcb_ptr' = pcb_ptr /\ curr_pcb' = p
        /\ page' = p /\ tss' = p /\ pid' = pid
        /\ parent_id' = parent_id /\ pcb_tid' = pcb_tid
        /\ saved_esp' = saved_esp /\ tss_esp0' = tss_esp0
        /\ curr_pcb # Null /\ p # Null
    BY <1>0 DEF Halt
  <1>2. ~active'[f] /\ \A q \in Slots : q # f => (active'[q] <=> active[q])
    BY <1>0 DEF Halt, TypeOK
  <1>3. /\ count_pcb'[t] = count_pcb[t] - 1
        /\ \A u \in Terminals : u # t => count_pcb'[u] = count_pcb[u]
    <2>1. count_pcb[t] # 0
      BY <1>0, <1>1, RunningFacts
    <2> QED BY <2>1, <1>0 DEF Halt, TypeOK, Down
  <1>4. kstack'[p] = "user" /\ \A q \in Slots : q # p => kstack'[q] = kstack[q]
    BY <1>0 DEF Halt, TypeOK
  <1>5. /\ active[f] /\ pcb_tid[f] = t /\ Front(t) = f /\ count_pcb[t] # 0
    BY <1>0, <1>1, RunningFacts
  <1>6. PICK pos \in [Slots -> Nat] : Order(pos)
    BY DEF Strengthening, CallOrder
  <1>7. active[p] /\ pcb_tid[p] = t /\ count_pcb[t] > 1 /\ count_pcb[t] \in Nat
    <2>1. active[p] /\ pcb_tid[p] = t /\ pos[f] = pos[p] + 1
      BY <1>0, <1>1, <1>5, <1>6 DEF Order
    <2>2. pos[f] < count_pcb[t] /\ count_pcb[t] \in Int
      BY <1>5, <1>6 DEF Order, TypeOK
    <2> QED BY <2>1, <2>2
  <1>8. CountMatches'
    <2>1. IsFiniteSet(Slots)
      BY FS_Interval, SizeAssumption DEF Slots
    <2>2. Members(t)' = Members(t) \ {f}
      BY <1>1, <1>2 DEF Members
    <2>3. \A u \in Terminals : u # t => Members(u)' = Members(u)
      BY <1>1, <1>2, <1>5 DEF Members
    <2>4. f \in Members(t) /\ IsFiniteSet(Members(t))
      BY <2>1, <1>5, FS_Subset DEF Members
    <2>5. Cardinality(Members(t) \ {f}) = Cardinality(Members(t)) - 1
      BY <2>4, FS_RemoveElement
    <2>6. ASSUME NEW u \in Terminals
          PROVE  count_pcb'[u] = Cardinality(Members(u)')
      <3>1. CASE u = t
        BY <3>1, <2>2, <2>5, <1>3 DEF CountMatches
      <3>2. CASE u # t
        BY <3>2, <2>3, <1>3 DEF CountMatches
      <3> QED BY <3>1, <3>2
    <2> QED BY <2>6 DEF CountMatches
  <1>9. CallOrder(Nat)'
    BY <1>0, <1>5, <1>6, HaltOrder
  <1>10. Started'
    <2>1. pid # -1
      BY <1>1 DEF Strengthening, Started
    <2> QED BY <2>1, <1>1, <1>3, <1>4, <1>7 DEF Started
  <1>11. /\ Front(t)' = p
         /\ \A u \in Terminals : u # t => Front(u)' = Front(u)
    BY <1>0, <1>1 DEF Front
  <1>12. ASSUME NEW q \in Slots, active'[q], q # curr_pcb'
         PROVE  IF q = Front(pcb_tid[q])'
                THEN saved_esp'[q] = "tick" /\ kstack'[q] = "tick" /\ tss_esp0'[q] = q
                ELSE saved_esp'[q] = "execute" /\ kstack'[q] = "execute"
    <2>1. active[q] /\ q # f /\ q # p /\ pcb_tid[q] \in Terminals /\ pcb_tid'[q] = pcb_tid[q]
      BY <1>1, <1>2, <1>12 DEF TypeOK
    <2>2. q = Front(pcb_tid[q])' <=> q = Front(pcb_tid[q])
      BY <2>1, <1>1, <1>5, <1>11
    <2>3. IF q = Front(pcb_tid[q])
          THEN saved_esp[q] = "tick" /\ kstack[q] = "tick" /\ tss_esp0[q] = q
          ELSE saved_esp[q] = "execute" /\ kstack[q] = "execute"
      BY <2>1, <1>0 DEF Strengthening, Contexts
    <2> QED BY <2>1, <2>2, <2>3, <1>1, <1>4
  <1>13. Contexts'
    BY <1>12 DEF Contexts
  <1>14. OneEach'
    BY <1>3, <1>7 DEF OneEach, Strengthening, TypeOK
  <1> QED BY <1>8, <1>9, <1>10, <1>13, <1>14 DEF Strengthening

(* The restart of a base shell keeps it: it was alone in its terminal, so    *)
(* its halt() leaves an empty one and execute() a base shell.              *)
LEMMA HaltBaseStep ==
  ASSUME IInv, HaltBase
  PROVE  CountMatches' /\ Strengthening(Nat)'
  <1> USE DEF IInv
  <1>1. PICK t \in Terminals, f \in Slots : t = scheduled /\ f = curr_pcb
    BY DEF TypeOK, HaltBase, SlotOrNull
  <1> DEFINE act == [active EXCEPT ![f] = FALSE]
             cnt == [count_pcb EXCEPT ![t] = Down(@)]
  <1>2. PICK s \in Slots :
          /\ EmptyPcb(act, s)
          /\ LoadProcess(s, f, t, act, cnt, saved_esp, tss_esp0)
          /\ kstack' = [kstack EXCEPT ![f] = IF cnt[t] = 0 THEN @ ELSE "execute",
                                      ![s] = "user"]
    BY <1>1 DEF HaltBase
  <1>3. /\ scheduled' = t /\ pcb_ptr' = pcb_ptr /\ curr_pcb # Null
        /\ parent_id[f] = Null /\ f \in SlotOrNull /\ s # Null
    BY <1>1 DEF HaltBase, SlotOrNull, Null, Slots
  <1>4. /\ active[f] /\ pcb_tid[f] = t /\ Front(t) = f /\ count_pcb[t] = 1
    BY <1>1, <1>3, RunningFacts
  <1>5. /\ act \in [Slots -> BOOLEAN] /\ ~act[f]
        /\ \A q \in Slots : q # f => (act[q] <=> active[q])
    BY DEF TypeOK
  <1>6. /\ cnt \in [Terminals -> 0 .. MaxCount] /\ cnt[t] = 0
        /\ \A u \in Terminals : u # t => cnt[u] = count_pcb[u]
    BY <1>4, SizeAssumption DEF TypeOK, Down
  <1>7. PICK pos \in [Slots -> Nat] : Order(pos)
    BY DEF Strengthening, CallOrder
  <1>8. ASSUME NEW q \in Slots, active[q], pcb_tid[q] = t
        PROVE  q = f
    <2>1. pos[q] < 1 /\ pos[f] < 1
      BY <1>4, <1>7, <1>8 DEF Order
    <2>2. pos[q] = pos[f]
      BY <2>1
    <2> QED BY <2>2, <1>4, <1>7, <1>8 DEF Order
  <1>9. \A q \in Slots : act[q] <=> active[q] /\ pcb_tid[q] # t
    BY <1>4, <1>5, <1>8
  <1>10. ~act[s]
    BY <1>2 DEF EmptyPcb
  <1>11. \A u \in Terminals :
            cnt[u] = Cardinality({q \in Slots : act[q] /\ pcb_tid[q] = u})
    <2>1. ASSUME NEW u \in Terminals, u # t
          PROVE  cnt[u] = Cardinality({q \in Slots : act[q] /\ pcb_tid[q] = u})
      <3>1. {q \in Slots : act[q] /\ pcb_tid[q] = u} = Members(u)
        BY <1>9, <2>1 DEF Members
      <3> QED BY <3>1, <1>6, <2>1 DEF CountMatches
    <2>2. {q \in Slots : act[q] /\ pcb_tid[q] = t} = {}
      BY <1>9
    <2> QED BY <2>1, <2>2, <1>6, FS_EmptySet
  <1>12. kstack'[s] = "user" /\ \A q \in Slots : q # s => kstack'[q] = kstack[q]
    BY <1>2, <1>6 DEF TypeOK
  <1> HIDE DEF act, cnt
  <1>13. Loaded(s, f, t, act, cnt, saved_esp, tss_esp0)
    BY <1>2, <1>3, <1>5, <1>6, LoadFacts DEF TypeOK
  <1>14. CountMatches'
    BY <1>2, <1>3, <1>5, <1>6, <1>10, <1>11, LoadCount DEF TypeOK
  <1>15. \A u \in Terminals : u # t => Front(u)' = Front(u)
    BY <1>1, <1>3 DEF Front
  <1>16. CallOrder(Nat)'
    <2>1. saved_esp \in [Slots -> FrameKinds] /\ tss_esp0 \in [Slots -> SlotOrNull]
      BY DEF TypeOK
    <2>2. TypeOK /\ pos \in [Slots -> Nat] /\ Order(pos)
      BY <1>7
    <2> HIDE DEF IInv
    <2> QED BY <1>2, <1>3, <1>5, <1>6, <1>9, <1>10, <1>15, <2>1, <2>2, BaseOrder
  <1>17. count_pcb'[t] = 1
    BY <1>6, <1>13, SizeAssumption DEF Loaded
  <1>18. Started'
    BY <1>3, <1>12, <1>13, <1>17 DEF Started, Loaded, Null
  <1>19. ASSUME NEW q \in Slots, active'[q], q # curr_pcb'
         PROVE  IF q = Front(pcb_tid[q])'
                THEN saved_esp'[q] = "tick" /\ kstack'[q] = "tick" /\ tss_esp0'[q] = q
                ELSE saved_esp'[q] = "execute" /\ kstack'[q] = "execute"
    <2>1. q # s /\ active[q] /\ pcb_tid[q] # t /\ pcb_tid[q] \in Terminals
          /\ pcb_tid'[q] = pcb_tid[q] /\ tss_esp0'[q] = tss_esp0[q] /\ q # f
          /\ saved_esp'[q] = saved_esp[q]
      BY <1>4, <1>6, <1>9, <1>13, <1>19 DEF Loaded, TypeOK
    <2>2. q = Front(pcb_tid[q])' <=> q = Front(pcb_tid[q])
      BY <2>1, <1>15
    <2>3. IF q = Front(pcb_tid[q])
          THEN saved_esp[q] = "tick" /\ kstack[q] = "tick" /\ tss_esp0[q] = q
          ELSE saved_esp[q] = "execute" /\ kstack[q] = "execute"
      BY <2>1, <1>1 DEF Strengthening, Contexts
    <2> QED BY <2>1, <2>2, <2>3, <1>12
  <1>20. Contexts'
    BY <1>19 DEF Contexts
  <1>21. OneEach'
    <2>1. \A u \in Terminals : count_pcb'[u] = count_pcb[u]
      BY <1>4, <1>6, <1>13, <1>17 DEF Loaded
    <2> QED BY <2>1 DEF OneEach, Strengthening
  <1> QED BY <1>14, <1>16, <1>18, <1>20, <1>21 DEF Strengthening

(* Before the first process a tick has no context to store.                 *)
LEMMA TickFacts ==
  ASSUME TypeOK, Strengthening(Nat)
  PROVE  /\ curr_pcb = Null => SavedOnTick = saved_esp /\ TssOnTick = tss_esp0
                               /\ StackOnTick = kstack
         /\ curr_pcb # Null =>
              /\ SavedOnTick[curr_pcb] = "tick" /\ StackOnTick[curr_pcb] = "tick"
              /\ TssOnTick[curr_pcb] = curr_pcb
              /\ \A q \in Slots : q # curr_pcb =>
                   /\ SavedOnTick[q] = saved_esp[q] /\ StackOnTick[q] = kstack[q]
                   /\ TssOnTick[q] = tss_esp0[q]
  <1>1. CASE curr_pcb = Null
    <2>1. pid = -1
      BY <1>1 DEF Strengthening, Started
    <2> QED BY <1>1, <2>1 DEF SavedOnTick, TssOnTick, StackOnTick
  <1>2. CASE curr_pcb # Null
    <2>1. pid # -1 /\ tss = curr_pcb /\ curr_pcb \in Slots
      BY <1>2 DEF Strengthening, Started, TypeOK, SlotOrNull
    <2> QED BY <1>2, <2>1 DEF SavedOnTick, TssOnTick, StackOnTick, TypeOK
  <1> QED BY <1>1, <1>2

(* A tick that launches a base shell keeps it.                              *)
LEMMA TickLaunchStep ==
  ASSUME IInv, TickLaunch
  PROVE  CountMatches' /\ Strengthening(Nat)'
  <1> USE DEF IInv
  <1>1. PICK t \in Terminals, f \in SlotOrNull, cp \in SlotOrNull,
             sav \in [Slots -> FrameKinds], te \in [Slots -> SlotOrNull] :
          /\ t = NextTerminal(scheduled) /\ f = curr_pcb /\ cp = PcbAfterTick(t)
          /\ sav = SavedOnTick /\ te = TssOnTick
    BY OnTickType DEF PcbAfterTick, TypeOK
  <1>2. PICK s \in Slots :
          /\ EmptyPcb(active, s)
          /\ LoadProcess(s, cp, t, active, count_pcb, sav, te)
          /\ kstack' = [StackOnTick EXCEPT ![s] = "user"]
    BY <1>1 DEF TickLaunch
  <1>3. /\ count_pcb[t] = 0 /\ scheduled' = t /\ pcb_ptr' = PtrOnTick
        /\ ~active[s] /\ s # Null
    BY <1>1, <1>2 DEF TickLaunch, EmptyPcb, Null, Slots
  <1>4. Loaded(s, cp, t, active, count_pcb, sav, te)
    BY <1>1, <1>2, LoadFacts DEF TypeOK
  <1>5. CountMatches'
    BY <1>1, <1>2, <1>3, LoadCount DEF TypeOK, CountMatches, Members
  <1>6. PICK pos \in [Slots -> Nat] : Order(pos)
    BY DEF Strengthening, CallOrder
  <1>7. ASSUME NEW q \in Slots, active[q]
        PROVE  pcb_tid[q] # t /\ pcb_tid[q] \in Terminals
    <2>1. pos[q] < count_pcb[pcb_tid[q]] /\ pos[q] \in Nat /\ pcb_tid[q] \in Terminals
      BY <1>6, <1>7 DEF Order, TypeOK
    <2> QED BY <2>1, <1>3
  <1>8. \A u \in Terminals : u # t => Front(u)' = Front(u)
    BY <1>3, TickFront DEF Front
  <1>9. CallOrder(Nat)'
    BY <1>1, <1>2, <1>3, <1>6, <1>7, <1>8, BaseOrder DEF TypeOK
  <1>10. kstack'[s] = "user" /\ \A q \in Slots : q # s => kstack'[q] = StackOnTick[q]
    BY <1>2, OnTickType
  <1>11. count_pcb'[t] = 1
    BY <1>3, <1>4, SizeAssumption DEF Loaded
  <1>12. Started'
    BY <1>3, <1>4, <1>10, <1>11 DEF Started, Loaded, Null
  <1>13. ASSUME NEW q \in Slots, active'[q], q # curr_pcb'
         PROVE  IF q = Front(pcb_tid[q])'
                THEN saved_esp'[q] = "tick" /\ kstack'[q] = "tick" /\ tss_esp0'[q] = q
                ELSE saved_esp'[q] = "execute" /\ kstack'[q] = "execute"
    <2>1. /\ q # s /\ active[q] /\ pcb_tid'[q] = pcb_tid[q]
          /\ pcb_tid[q] # t /\ pcb_tid[q] \in Terminals
          /\ saved_esp'[q] = sav[q] /\ tss_esp0'[q] = te[q] /\ kstack'[q] = StackOnTick[q]
      BY <1>3, <1>4, <1>7, <1>10, <1>13 DEF Loaded
    <2>2. Front(pcb_tid[q])' = Front(pcb_tid[q])
      BY <2>1, <1>8
    <2>3. curr_pcb # Null
      BY <2>1 DEF Strengthening, Started
    <2>4. CASE q = curr_pcb
      <3>1. q = Front(pcb_tid[q])
        BY <2>3, <2>4, RunningFacts
      <3>2. sav[q] = "tick" /\ te[q] = q /\ StackOnTick[q] = "tick"
        BY <2>3, <2>4, <1>1, TickFacts
      <3> QED BY <3>1, <3>2, <2>1, <2>2
    <2>5. CASE q # curr_pcb
      <3>1. sav[q] = saved_esp[q] /\ te[q] = tss_esp0[q] /\ StackOnTick[q] = kstack[q]
        BY <2>3, <2>5, <1>1, TickFacts
      <3>2. IF q = Front(pcb_tid[q])
            THEN saved_esp[q] = "tick" /\ kstack[q] = "tick" /\ tss_esp0[q] = q
            ELSE saved_esp[q] = "execute" /\ kstack[q] = "execute"
        BY <2>1, <2>5 DEF Strengthening, Contexts
      <3> QED BY <3>1, <3>2, <2>1, <2>2
    <2> QED BY <2>4, <2>5
  <1>14. Contexts'
    BY <1>13 DEF Contexts
  <1>15. OneEach'
    <2>1. \A u \in Terminals : count_pcb[u] <= 1
      BY <1>3 DEF Strengthening, OneEach
    <2>2. \A u \in Terminals : count_pcb'[u] <= 1
      BY <2>1, <1>3, <1>4, <1>11 DEF Loaded
    <2> QED BY <2>2 DEF OneEach
  <1> QED BY <1>5, <1>9, <1>12, <1>14, <1>15 DEF Strengthening

(* A tick that switches to another process keeps it.                        *)
LEMMA TickResumeStep ==
  ASSUME IInv, TickResume
  PROVE  CountMatches' /\ Strengthening(Nat)'
  <1> USE DEF IInv
  <1>0. PICK t \in Terminals, f \in Slots, p \in Slots :
          t = NextTerminal(scheduled) /\ f = curr_pcb /\ p = PtrOnTick[t]
    BY OnTickType DEF TickResume, TypeOK, SlotOrNull
  <1>1. /\ curr_pcb # Null /\ count_pcb[t] # 0 /\ scheduled' = t
        /\ pcb_ptr' = PtrOnTick /\ saved_esp' = SavedOnTick /\ tss_esp0' = TssOnTick
        /\ curr_pcb' = p /\ page' = p /\ tss' = TssOnTick[p]
        /\ kstack' = [StackOnTick EXCEPT ![p] = "user"]
        /\ UNCHANGED <<pid, active, parent_id, pcb_tid, count_pcb>>
    BY <1>0 DEF TickResume
  <1>2. \A u \in Terminals : Front(u)' = Front(u)
    BY <1>0, <1>1, TickFront DEF Front
  <1>3. kstack'[p] = "user" /\ \A q \in Slots : q # p => kstack'[q] = StackOnTick[q]
    BY <1>1, OnTickType
  <1>4. PICK pos \in [Slots -> Nat] : Order(pos)
    BY DEF Strengthening, CallOrder
  <1>5. active[p] /\ pcb_tid[p] = t /\ p = Front(t)
    BY <1>0, <1>1, <1>4, TickFront DEF Order
  <1>6. active[f] /\ pcb_tid[f] = scheduled /\ f = Front(scheduled)
    BY <1>0, <1>1, RunningFacts
  <1>7. CountMatches'
    BY <1>1 DEF CountMatches, Members
  <1>8. CallOrder(Nat)'
    <2>1. \A q \in Slots : pcb_tid[q] \in Terminals
      BY DEF TypeOK
    <2>2. \A q \in Slots : Front(pcb_tid[q])' = Front(pcb_tid[q])
      BY <2>1, <1>1, <1>2
    <2>3. Order(pos)'
      BY <2>1, <2>2, <1>1, <1>2, <1>4 DEF Order
    <2> QED BY <2>3 DEF CallOrder
  <1>9. TssOnTick[p] = p
    <2>1. CASE p = f
      BY <2>1, <1>0, <1>1, TickFacts
    <2>2. CASE p # f
      <3>1. TssOnTick[p] = tss_esp0[p]
        BY <2>2, <1>0, <1>1, TickFacts
      <3>2. tss_esp0[p] = p
        BY <2>2, <1>0, <1>5 DEF Strengthening, Contexts
      <3> QED BY <3>1, <3>2
    <2> QED BY <2>1, <2>2
  <1>10. Started'
    <2>1. p # Null
      BY DEF Null, Slots
    <2>2. pid # -1
      BY <1>1 DEF Strengthening, Started
    <2> QED BY <2>1, <2>2, <1>1, <1>3, <1>9 DEF Started
  <1>11. ASSUME NEW q \in Slots, active'[q], q # curr_pcb'
         PROVE  IF q = Front(pcb_tid[q])'
                THEN saved_esp'[q] = "tick" /\ kstack'[q] = "tick" /\ tss_esp0'[q] = q
                ELSE saved_esp'[q] = "execute" /\ kstack'[q] = "execute"
    <2>1. /\ q # p /\ active[q] /\ pcb_tid'[q] = pcb_tid[q] /\ pcb_tid[q] \in Terminals
          /\ saved_esp'[q] = SavedOnTick[q] /\ tss_esp0'[q] = TssOnTick[q]
          /\ kstack'[q] = StackOnTick[q]
      BY <1>1, <1>3, <1>11 DEF TypeOK
    <2>2. Front(pcb_tid[q])' = Front(pcb_tid[q])
      BY <2>1, <1>2
    <2>3. CASE q = f
      BY <2>1, <2>2, <2>3, <1>0, <1>1, <1>6, TickFacts
    <2>4. CASE q # f
      <3>1. /\ SavedOnTick[q] = saved_esp[q] /\ TssOnTick[q] = tss_esp0[q]
            /\ StackOnTick[q] = kstack[q]
        BY <2>4, <1>0, <1>1, TickFacts
      <3>2. IF q = Front(pcb_tid[q])
            THEN saved_esp[q] = "tick" /\ kstack[q] = "tick" /\ tss_esp0[q] = q
            ELSE saved_esp[q] = "execute" /\ kstack[q] = "execute"
        BY <2>1, <2>4, <1>0 DEF Strengthening, Contexts
      <3> QED BY <3>1, <3>2, <2>1, <2>2
    <2> QED BY <2>3, <2>4
  <1>12. Contexts'
    BY <1>11 DEF Contexts
  <1>13. OneEach'
    BY <1>1 DEF OneEach, Strengthening
  <1> QED BY <1>7, <1>8, <1>10, <1>12, <1>13 DEF Strengthening

-----------------------------------------------------------------------------
(* The inductive invariant holds before the first process.                  *)
LEMMA InitInv == Init => IInv
  <1> SUFFICES ASSUME Init PROVE IInv
    OBVIOUS
  <1>1. TypeOK
    BY InitType
  <1>2. /\ \A s \in Slots : ~active[s] /\ kstack[s] = "user"
        /\ \A t \in Terminals : count_pcb[t] = 0 /\ pcb_ptr[t] = Null
        /\ curr_pcb = Null /\ pid = -1
    BY DEF Init
  <1>3. CountMatches
    <2>1. \A t \in Terminals : Members(t) = {}
      BY <1>2 DEF Members
    <2> QED BY <2>1, <1>2, FS_EmptySet DEF CountMatches
  <1>4. CallOrder(Nat)
    <2>1. PICK pos \in [Slots -> Nat] : pos = [s \in Slots |-> 0]
      OBVIOUS
    <2>2. Order(pos)
      BY <1>2 DEF Order
    <2> QED BY <2>2 DEF CallOrder
  <1>5. Started /\ Contexts /\ OneEach
    BY <1>2 DEF Started, Contexts, OneEach
  <1> QED BY <1>1, <1>3, <1>4, <1>5 DEF IInv, Strengthening

(* The machine used as intended takes steps of the machine.                 *)
LEMMA QuietIsNext == QuietNext => Next
  BY DEF QuietNext, Next, Tick

(* Every step of the machine used as intended keeps the inductive invariant. *)
LEMMA NextInv == IInv /\ [QuietNext]_vars => IInv'
  <1> SUFFICES ASSUME IInv, [QuietNext]_vars PROVE IInv'
    OBVIOUS
  <1>1. TypeOK'
    BY NextType, QuietIsNext DEF IInv
  <1>2. CountMatches' /\ Strengthening(Nat)'
    <2>1. CASE Boot          BY <2>1, BootStep
    <2>2. CASE TickResume    BY <2>2, TickResumeStep
    <2>3. CASE TickLaunch    BY <2>3, TickLaunchStep
    <2>4. CASE AllLaunched /\ Execute       BY <2>4, ExecuteStep
    <2>5. CASE AllLaunched /\ ExecuteFails  BY <2>5, ExecuteFailsStep
    <2>6. CASE Halt          BY <2>6, HaltStep
    <2>7. CASE HaltBase      BY <2>7, HaltBaseStep
    <2>8. CASE UNCHANGED vars
      <3>1. CountMatches'
        BY <2>8 DEF IInv, vars, pcbVars, termVars, cpuVars, CountMatches, Members
      <3>2. Started' /\ Contexts' /\ OneEach'
        BY <2>8 DEF IInv, vars, pcbVars, termVars, cpuVars, Strengthening,
                    Started, Contexts, OneEach, Front
      <3>3. CallOrder(Nat)'
        BY <2>8 DEF IInv, vars, pcbVars, termVars, cpuVars, Strengthening,
                    CallOrder, Order, Front
      <3> QED BY <3>1, <3>2, <3>3 DEF Strengthening
    <2> QED BY <2>1, <2>2, <2>3, <2>4, <2>5, <2>6, <2>7, <2>8 DEF QuietNext
  <1> QED BY <1>1, <1>2 DEF IInv

(* The strengthening holds in every state of the machine.                   *)
THEOREM Inductive == QuietSpec => []IInv
  BY InitInv, NextInv, PTL DEF QuietSpec

-----------------------------------------------------------------------------
(* What the strengthening says of a state.                                  *)

(* Positions below count_pcb that no two processes share make a chain.       *)
LEMMA ChainFromInv == IInv => CallChain
  <1> SUFFICES ASSUME IInv, NEW t \in Terminals, Members(t) # {}
               PROVE  /\ \E base \in Members(t) : \A s \in Members(t) :
                            parent_id[s] = Null <=> s = base
                      /\ Front(t) \in Members(t)
                      /\ \A s \in Members(t) : Children(s) \subseteq Members(t)
                      /\ Children(Front(t)) = {}
                      /\ \A s \in Members(t) \ {Front(t)} : \E c \in Slots : Children(s) = {c}
    BY DEF CallChain
  <1>1. PICK pos \in [Slots -> Nat] : Order(pos)
    BY DEF IInv, Strengthening, CallOrder
  <1>2. Null \notin Slots
    BY DEF Null, Slots
  <1>3. count_pcb[t] # 0
    <2>1. PICK s \in Slots : active[s] /\ pcb_tid[s] = t
      BY DEF Members
    <2> QED BY <2>1, <1>1 DEF Order
  <1>4. /\ Front(t) \in Members(t) /\ pos[Front(t)] = count_pcb[t] - 1
    BY <1>1, <1>3 DEF Order, Members
  <1>5. PICK b \in Slots : active[b] /\ pcb_tid[b] = t /\ pos[b] = 0
    BY <1>1, <1>3 DEF Order
  <1>6. \A s \in Members(t) : parent_id[s] = Null <=> s = b
    BY <1>1, <1>5 DEF Order, Members
  <1>7. ASSUME NEW s \in Slots, NEW c \in Children(s)
        PROVE  /\ c \in Slots /\ active[c] /\ active[s]
               /\ pcb_tid[c] = pcb_tid[s] /\ pos[c] = pos[s] + 1
    BY <1>1, <1>2, <1>7 DEF Order, Children
  <1>8. \A s \in Members(t) : Children(s) \subseteq Members(t)
    BY <1>7 DEF Members
  <1>9. Children(Front(t)) = {}
    <2> SUFFICES ASSUME NEW c \in Children(Front(t)) PROVE FALSE
      OBVIOUS
    <2>1. c \in Slots /\ active[c] /\ pcb_tid[c] = t /\ pos[c] = count_pcb[t]
      BY <1>4, <1>7 DEF Members, IInv, TypeOK
    <2>2. pos[c] < count_pcb[t]
      BY <2>1, <1>1 DEF Order
    <2> QED BY <2>1, <2>2
  <1>10. ASSUME NEW s \in Members(t) \ {Front(t)}
         PROVE  \E c \in Slots : Children(s) = {c}
    <2>1. s \in Slots /\ active[s] /\ pcb_tid[s] = t
      BY DEF Members
    <2>2. PICK c \in Slots : active[c] /\ parent_id[c] = s
      BY <2>1, <1>1 DEF Order
    <2>3. c \in Children(s)
      BY <2>2 DEF Children
    <2>4. ASSUME NEW d \in Children(s) PROVE d = c
      <3>1. d \in Slots /\ active[d] /\ pcb_tid[d] = pcb_tid[c] /\ pos[d] = pos[c]
        BY <2>1, <2>3, <1>7
      <3> QED BY <3>1, <2>2, <1>1 DEF Order
    <2> QED BY <2>3, <2>4
  <1> QED BY <1>4, <1>5, <1>6, <1>8, <1>9, <1>10 DEF Members

(* A parent is alive, and one position below its child.                     *)
LEMMA ParentFromInv == IInv => ParentAlive
  <1> SUFFICES ASSUME IInv, NEW s \in Slots, active[s], parent_id[s] # Null
               PROVE  active[parent_id[s]] /\ parent_id[s] # s
    BY DEF ParentAlive
  <1>1. PICK pos \in [Slots -> Nat] : Order(pos)
    BY DEF IInv, Strengthening, CallOrder
  <1>2. active[parent_id[s]] /\ pos[s] = pos[parent_id[s]] + 1 /\ pos[s] \in Nat
    BY <1>1 DEF Order
  <1> QED BY <1>2

(* The running process has its own memory and kernel stack.                 *)
LEMMA MemoryFromInv == IInv => OwnMemory
  BY RunningFacts DEF IInv, OwnMemory, Strengthening, Started

(* The front processes were stopped by a tick, and the callers in execute(). *)
LEMMA ResumableFromInv == IInv => Resumable
  <1> SUFFICES ASSUME IInv, NEW s \in Slots, active[s], s # curr_pcb
               PROVE  IF Children(s) = {}
                      THEN saved_esp[s] = "tick" /\ kstack[s] = "tick" /\ tss_esp0[s] = s
                      ELSE saved_esp[s] = "execute" /\ kstack[s] = "execute"
    BY DEF Resumable
  <1>1. pcb_tid[s] \in Terminals /\ s \in Members(pcb_tid[s])
    BY DEF IInv, TypeOK, Members
  <1>2. Children(s) = {} <=> s = Front(pcb_tid[s])
    BY <1>1, ChainFromInv DEF CallChain
  <1> QED BY <1>2 DEF IInv, Strengthening, Contexts

(* A terminal without a base shell leaves a slot free for it, because the     *)
(* others hold one process each; a running base shell is alone in its      *)
(* terminal.                                                               *)
LEMMA NoFailFromInv == IInv => NoFailingPath
  <1> SUFFICES ASSUME IInv PROVE NoFailingPath
    OBVIOUS
  <1>1. ASSUME count_pcb[NextTerminal(scheduled)] = 0, NoEmptyPcb(active)
        PROVE  FALSE
    <2>1. PICK pos \in [Slots -> Nat] : Order(pos)
      BY DEF IInv, Strengthening, CallOrder
    <2>2. PICK t \in Terminals : t = NextTerminal(scheduled)
      BY OnTickType DEF IInv
    <2>3. \A u \in Terminals : count_pcb[u] <= 1
      BY <1>1, <2>2 DEF IInv, Strengthening, OneEach
    <2>4. ASSUME NEW s \in Slots
          PROVE  active[s] /\ pcb_tid[s] \in Terminals /\ pcb_tid[s] # t /\ pos[s] = 0
      <3>1. active[s] /\ pcb_tid[s] \in Terminals /\ pos[s] \in Nat
        BY <1>1 DEF NoEmptyPcb, IInv, TypeOK
      <3>2. pos[s] < count_pcb[pcb_tid[s]] /\ count_pcb[pcb_tid[s]] \in Int
        BY <3>1, <2>1 DEF Order, IInv, TypeOK
      <3> QED BY <3>1, <3>2, <2>2, <2>3, <1>1
    <2>5. /\ IsFiniteSet(Slots) /\ Cardinality(Slots) = MAX_PCB
          /\ IsFiniteSet(Terminals) /\ Cardinality(Terminals) = MAX_TERMINAL_NUM
      BY FS_Interval, SizeAssumption DEF Slots, Terminals
    <2>6. /\ IsFiniteSet(Terminals \ {t})
          /\ Cardinality(Terminals \ {t}) = MAX_TERMINAL_NUM - 1
      BY <2>5, FS_RemoveElement
    <2>7. pcb_tid \in [Slots -> Terminals \ {t}]
      BY <2>4 DEF IInv, TypeOK
    <2>8. Cardinality(Terminals \ {t}) < Cardinality(Slots)
      BY <2>5, <2>6, SizeAssumption
    <2>9. PICK x, y \in Slots : x # y /\ pcb_tid[x] = pcb_tid[y]
      BY <2>5, <2>6, <2>7, <2>8, FS_PigeonHole
    <2> QED BY <2>1, <2>4, <2>9 DEF Order
  <1>2. curr_pcb # Null /\ parent_id[curr_pcb] = Null => count_pcb[scheduled] = 1
    BY RunningFacts DEF IInv
  <1> QED BY <1>1, <1>2 DEF NoFailingPath

(* A step of one terminal's process leaves the PCBs of the other terminals. *)
IsolatedStep ==
  \A s \in Slots :
    active[s] /\ pcb_tid[s] # scheduled =>
      /\ active'[s] /\ UNCHANGED <<parent_id[s], pcb_tid[s], saved_esp[s], tss_esp0[s]>>
      /\ kstack'[s] # kstack[s] => curr_pcb' = s /\ scheduled' # scheduled

(* No handler changes a PCB of a terminal that is not scheduled.            *)
LEMMA IsolationStep == IInv /\ [QuietNext]_vars => IsolatedStep
  <1> SUFFICES ASSUME IInv, [QuietNext]_vars,
                      NEW s \in Slots, active[s], pcb_tid[s] # scheduled
               PROVE  /\ active'[s]
                      /\ UNCHANGED <<parent_id[s], pcb_tid[s], saved_esp[s], tss_esp0[s]>>
                      /\ kstack'[s] # kstack[s] => curr_pcb' = s /\ scheduled' # scheduled
    BY DEF IsolatedStep
  <1> USE DEF IInv
  <1>0. /\ curr_pcb # Null /\ curr_pcb \in Slots /\ s # curr_pcb
        /\ pcb_tid[curr_pcb] = scheduled /\ active[curr_pcb] /\ scheduled \in Terminals
        /\ curr_pcb \in SlotOrNull
    <2>1. curr_pcb # Null
      BY DEF Strengthening, Started
    <2> QED BY <2>1, RunningFacts DEF TypeOK, SlotOrNull
  <1>1. CASE Boot
    BY <1>0, <1>1 DEF Boot
  <1>2. CASE TickResume
    <2>1. PICK p \in Slots : p = PtrOnTick[NextTerminal(scheduled)]
      BY <1>2, OnTickType DEF TickResume, TypeOK, SlotOrNull
    <2>2. /\ saved_esp' = SavedOnTick /\ tss_esp0' = TssOnTick /\ curr_pcb' = p
          /\ kstack' = [StackOnTick EXCEPT ![p] = "user"]
          /\ scheduled' = NextTerminal(scheduled)
          /\ UNCHANGED <<active, parent_id, pcb_tid>>
          /\ count_pcb[NextTerminal(scheduled)] # 0
      BY <1>2, <2>1 DEF TickResume
    <2>3. /\ SavedOnTick[s] = saved_esp[s] /\ TssOnTick[s] = tss_esp0[s]
          /\ StackOnTick[s] = kstack[s]
      BY <1>0, TickFacts
    <2>4. ASSUME kstack'[s] # kstack[s]
          PROVE  curr_pcb' = s /\ scheduled' # scheduled
      <3>1. s = p
        BY <2>2, <2>3, <2>4, OnTickType
      <3>2. PICK pos \in [Slots -> Nat] : Order(pos)
        BY DEF Strengthening, CallOrder
      <3>3. pcb_tid[p] = NextTerminal(scheduled)
        BY <2>1, <2>2, <3>2, TickFront, OnTickType DEF Order
      <3> QED BY <2>2, <3>1, <3>3
    <2> QED BY <2>2, <2>3, <2>4
  <1>3. CASE TickLaunch
    <2>1. PICK n \in Slots, t \in Terminals, cp \in SlotOrNull,
               sav \in [Slots -> FrameKinds], te \in [Slots -> SlotOrNull] :
            /\ sav = SavedOnTick /\ te = TssOnTick
            /\ EmptyPcb(active, n)
            /\ LoadProcess(n, cp, t, active, count_pcb, sav, te)
            /\ kstack' = [StackOnTick EXCEPT ![n] = "user"]
            /\ count_pcb[t] = 0
      BY <1>3, OnTickType DEF TickLaunch, PcbAfterTick, TypeOK
    <2>2. s # n
      BY <2>1 DEF EmptyPcb
    <2>3. Loaded(n, cp, t, active, count_pcb, sav, te)
      BY <2>1, LoadFacts DEF TypeOK
    <2>4. /\ sav[s] = saved_esp[s] /\ te[s] = tss_esp0[s] /\ StackOnTick[s] = kstack[s]
      BY <1>0, <2>1, TickFacts
    <2>5. kstack'[s] = StackOnTick[s]
      BY <2>1, <2>2, OnTickType
    <2> QED BY <2>1, <2>2, <2>3, <2>4, <2>5 DEF Loaded
  <1>4. CASE Execute
    <2>1. PICK n \in Slots :
            /\ EmptyPcb(active, n)
            /\ LoadProcess(n, curr_pcb, scheduled, active, count_pcb, saved_esp, tss_esp0)
            /\ kstack' = [kstack EXCEPT ![curr_pcb] = "execute", ![n] = "user"]
      BY <1>4 DEF Execute
    <2>2. s # n
      BY <2>1 DEF EmptyPcb
    <2>3. Loaded(n, curr_pcb, scheduled, active, count_pcb, saved_esp, tss_esp0)
      BY <2>1, <1>0, LoadFacts DEF TypeOK
    <2>4. kstack'[s] = kstack[s]
      BY <2>1, <2>2, <1>0 DEF TypeOK
    <2> QED BY <2>2, <2>3, <2>4, <1>0 DEF Loaded
  <1>5. CASE ExecuteFails
    BY <1>5 DEF ExecuteFails, pcbVars, cpuVars
  <1>6. CASE Halt
    <2>1. parent_id[curr_pcb] # Null /\ parent_id[curr_pcb] \in Slots
      BY <1>6 DEF Halt, TypeOK, SlotOrNull
    <2>2. s # parent_id[curr_pcb]
      <3>1. PICK pos \in [Slots -> Nat] : Order(pos)
        BY DEF Strengthening, CallOrder
      <3> QED BY <3>1, <2>1, <1>0 DEF Order
    <2>3. active'[s]
      BY <1>6, <1>0 DEF Halt, TypeOK
    <2>4. kstack'[s] = kstack[s]
      BY <1>6, <2>1, <2>2 DEF Halt, TypeOK
    <2> QED BY <1>6, <2>3, <2>4 DEF Halt
  <1>7. CASE HaltBase
    <2> DEFINE act == [active EXCEPT ![curr_pcb] = FALSE]
               cnt == [count_pcb EXCEPT ![scheduled] = Down(@)]
    <2>1. PICK n \in Slots :
            /\ EmptyPcb(act, n)
            /\ LoadProcess(n, curr_pcb, scheduled, act, cnt, saved_esp, tss_esp0)
            /\ kstack' = [kstack EXCEPT
                            ![curr_pcb] = IF cnt[scheduled] = 0 THEN @ ELSE "execute",
                            ![n] = "user"]
      BY <1>7 DEF HaltBase
    <2>2. act \in [Slots -> BOOLEAN] /\ act[s]
      BY <1>0 DEF TypeOK
    <2>3. cnt \in [Terminals -> 0 .. MaxCount]
      BY <1>0, SizeAssumption DEF TypeOK, Down
    <2>4. kstack'[s] = kstack[s] \/ s = n
      BY <2>1, <1>0 DEF TypeOK
    <2> HIDE DEF act, cnt
    <2>5. s # n
      BY <2>1, <2>2 DEF EmptyPcb
    <2>6. Loaded(n, curr_pcb, scheduled, act, cnt, saved_esp, tss_esp0)
      BY <2>1, <2>2, <2>3, <1>0, LoadFacts DEF TypeOK
    <2> QED BY <2>2, <2>4, <2>5, <2>6, <1>0 DEF Loaded
  <1>8. CASE UNCHANGED vars
    BY <1>8 DEF vars, pcbVars, termVars, cpuVars
  <1> QED BY <1>1, <1>2, <1>3, <1>4, <1>5, <1>6, <1>7, <1>8 DEF QuietNext

-----------------------------------------------------------------------------
(* execute, halt and scheduler keep every variable in its type.             *)
THEOREM TypeCorrect == Spec => []TypeOK
  BY InitType, NextType, PTL DEF Spec

(* count_pcb of a terminal is the number of its live PCBs.                   *)
THEOREM CountCorrect == QuietSpec => []CountMatches
  BY Inductive, PTL DEF IInv

(* The processes of a terminal are one call chain, its front the one that    *)
(* scheduler() resumes.                                                     *)
THEOREM ChainCorrect == QuietSpec => []CallChain
  BY Inductive, ChainFromInv, PTL

(* halt() always finds its parent alive.                                     *)
THEOREM ParentCorrect == QuietSpec => []ParentAlive
  BY Inductive, ParentFromInv, PTL

(* Whoever runs has its own program mapped and its own kernel stack in the   *)
(* TSS.                                                                     *)
THEOREM MemoryCorrect == QuietSpec => []OwnMemory
  BY Inductive, MemoryFromInv, PTL

(* Every saved context is the frame on top of its process's kernel stack.    *)
THEOREM ResumeCorrect == QuietSpec => []Resumable
  BY Inductive, ResumableFromInv, PTL

(* A tick that has to launch a base shell finds a slot (TickNoBlock, the      *)
(* action of Next that QuietNext leaves out, is never enabled), and a base  *)
(* shell that halts leaves the counter of its terminal at 0.                *)
THEOREM LaunchCorrect == QuietSpec => []NoFailingPath
  BY Inductive, NoFailFromInv, PTL

(* What runs for one terminal does not touch the PCBs of another.            *)
THEOREM IsolationCorrect == QuietSpec => Isolation
  <1>1. IInv /\ [QuietNext]_vars => [IsolatedStep]_vars
    BY IsolationStep
  <1>2. QuietSpec => [][IsolatedStep]_vars
    BY <1>1, Inductive, PTL DEF QuietSpec
  <1> QED BY <1>2, PTL DEF Isolation, IsolatedStep

-----------------------------------------------------------------------------
(* The call stacks of module Sessions.                                      *)

(* Every nonempty set of numbers has a least one: induction for the lemmas    *)
(* below.                                                                  *)
LEMMA Smallest ==
  ASSUME NEW T, T \subseteq Nat, T # {}
  PROVE  \E n \in T : \A k \in T : n <= k
  <1>1. \E x \in T : \A y \in T : ~(<<y, x>> \in OpToRel(<, Nat))
    BY NatLessThanWellFounded, WFMin
  <1>2. PICK x \in T : \A y \in T : ~(<<y, x>> \in OpToRel(<, Nat))
    BY <1>1
  <1>3. \A y \in T : ~(y < x)
    BY <1>2 DEF OpToRel
  <1> QED BY <1>3

(* One line of the definition of Callers.                                   *)
Climb(f, n) == [s \in SlotOrNull |-> IF s = Null \/ n = 0 THEN << >>
                                     ELSE Append(f[n - 1][parent_id[s]], s)]

(* There is a function that follows the parent links.                       *)
LEMMA CallersIs == \A n \in 0 .. MAX_PCB : Callers[n] = Climb(Callers, n)
  <1> DEFINE Defined(m) == \E f : f = [n \in 0 .. m |-> Climb(f, n)]
             T == {m \in Nat : ~Defined(m)}
  <1>1. T = {}
    <2> SUFFICES ASSUME T # {} PROVE FALSE
      OBVIOUS
    <2>1. PICK m \in T : \A k \in T : m <= k
      BY Smallest
    <2>2. CASE m = 0
      <3>1. PICK g : g = [n \in 0 .. 0 |-> Climb(<< >>, 0)]
        OBVIOUS
      <3>2. \A n \in 0 .. 0 : Climb(<< >>, 0) = Climb(g, n)
        BY DEF Climb
      <3>3. g = [n \in 0 .. 0 |-> Climb(g, n)]
        BY <3>1, <3>2
      <3> QED BY <3>3, <2>2
    <2>3. CASE m # 0
      <3>1. m - 1 \in Nat /\ m - 1 \notin T
        BY <2>1, <2>3
      <3>2. PICK g : g = [n \in 0 .. m - 1 |-> Climb(g, n)]
        BY <3>1
      <3>3. PICK f : f = [n \in 0 .. m |-> IF n = m THEN Climb(g, m) ELSE g[n]]
        OBVIOUS
      <3>4. ASSUME NEW n \in 0 .. m
            PROVE  f[n] = Climb(f, n)
        <4>1. f[n] = Climb(g, n)
          <5>1. CASE n = m
            BY <5>1, <3>3
          <5>2. CASE n # m
            <6>1. n \in 0 .. m - 1
              BY <5>2, <2>1
            <6> QED BY <6>1, <5>2, <3>2, <3>3
          <5> QED BY <5>1, <5>2
        <4>2. n # 0 => f[n - 1] = g[n - 1]
          BY <2>1, <3>3
        <4>3. Climb(f, n) = Climb(g, n)
          BY <4>2 DEF Climb
        <4> QED BY <4>1, <4>3
      <3>5. f = [n \in 0 .. m |-> Climb(f, n)]
        BY <3>3, <3>4
      <3> QED BY <3>5
    <2> QED BY <2>2, <2>3
  <1>2. \E f : f = [n \in 0 .. MAX_PCB |-> Climb(f, n)]
    BY <1>1, SizeAssumption
  <1>3. Callers = [n \in 0 .. MAX_PCB |-> Climb(Callers, n)]
    BY <1>2 DEF Callers, Climb
  <1>4. PICK c : c = Callers
    OBVIOUS
  <1>5. c = [n \in 0 .. MAX_PCB |-> Climb(c, n)]
    BY <1>3, <1>4
  <1>6. \A n \in 0 .. MAX_PCB : c[n] = Climb(c, n)
    BY <1>5
  <1> QED BY <1>4, <1>6

-----------------------------------------------------------------------------
(* A call stack: as many processes of terminal t as count_pcb says, the front *)
(* process last, and before each one its parent.                           *)
StackOf(t, w) ==
  /\ w \in Seq(Slots) /\ Len(w) = count_pcb[t]
  /\ Len(w) # 0 => w[Len(w)] = Front(t)
  /\ \A i \in 1 .. Len(w) - 1 : w[i] = parent_id[w[i + 1]]
Stacks ==
  \A t \in Terminals : /\ StackOf(t, CallStack(t))
                       /\ Promised!ToSet(CallStack(t)) = Members(t)

(* The callers of s, each at its position in its terminal's chain.           *)
Climbed(pos, s, w) ==
  /\ w \in Seq(Slots) /\ Len(w) = pos[s] + 1 /\ w[pos[s] + 1] = s
  /\ \A i \in 1 .. pos[s] : w[i] = parent_id[w[i + 1]]
  /\ \A i \in 1 .. pos[s] + 1 : active[w[i]] /\ pcb_tid[w[i]] = pcb_tid[s] /\ pos[w[i]] = i - 1

(* Enough links followed from a process lead to its base shell.              *)
LEMMA ClimbsUp ==
  ASSUME TypeOK, NEW pos \in [Slots -> Nat], Order(pos)
  PROVE  \A n \in 0 .. MAX_PCB : \A s \in Slots :
           active[s] /\ pos[s] < n => Climbed(pos, s, Callers[n][s])
  <1> DEFINE P(n) == \A s \in Slots : active[s] /\ pos[s] < n => Climbed(pos, s, Callers[n][s])
             T == {n \in 0 .. MAX_PCB : ~P(n)}
  <1>1. T = {}
    <2> SUFFICES ASSUME T # {} PROVE FALSE
      OBVIOUS
    <2>0. T \subseteq Nat
      BY SizeAssumption
    <2>1. PICK n \in T : \A k \in T : n <= k
      BY <2>0, Smallest
    <2>2. PICK s \in Slots : active[s] /\ pos[s] < n /\ ~Climbed(pos, s, Callers[n][s])
      BY <2>1
    <2>3. n # 0 /\ n - 1 \in 0 .. MAX_PCB /\ n - 1 \notin T /\ n \in 0 .. MAX_PCB
      BY <2>1, <2>2, SizeAssumption
    <2>4. Callers[n][s] = Append(Callers[n - 1][parent_id[s]], s)
      <3>1. Callers[n] = Climb(Callers, n)
        BY <2>3, CallersIs
      <3>2. s \in SlotOrNull /\ s # Null
        BY DEF SlotOrNull, Null, Slots
      <3> QED BY <3>1, <3>2, <2>3 DEF Climb
    <2>5. CASE parent_id[s] = Null
      <3>1. pos[s] = 0
        BY <2>2, <2>5 DEF Order
      <3>2. Callers[n - 1][Null] = << >>
        <4>1. Callers[n - 1] = Climb(Callers, n - 1)
          BY <2>3, CallersIs
        <4> QED BY <4>1 DEF Climb, SlotOrNull
      <3>3. PICK w : w = Callers[n][s]
        OBVIOUS
      <3>4. w = <<s>>
        <4>1. Append(<< >>, s) = <<s>>
          OBVIOUS
        <4> QED BY <4>1, <3>2, <3>3, <2>4, <2>5
      <3>5. Climbed(pos, s, w)
        BY <3>1, <3>4, <2>2 DEF Climbed
      <3> QED BY <3>3, <3>5, <2>2
    <2>6. CASE parent_id[s] # Null
      <3>1. PICK p \in Slots : p = parent_id[s]
        BY <2>6 DEF TypeOK, SlotOrNull
      <3>2. active[p] /\ pcb_tid[p] = pcb_tid[s] /\ pos[s] = pos[p] + 1
        BY <2>2, <2>6, <3>1 DEF Order
      <3>3. PICK v : v = Callers[n - 1][p]
        OBVIOUS
      <3>4. PICK m \in Nat : m = pos[p] /\ pos[s] = m + 1 /\ m < n - 1
        BY <3>2, <2>2, <2>3
      <3>5. /\ v \in Seq(Slots) /\ Len(v) = m + 1 /\ v[m + 1] = p
            /\ \A i \in 1 .. m : v[i] = parent_id[v[i + 1]]
            /\ \A i \in 1 .. m + 1 : active[v[i]] /\ pcb_tid[v[i]] = pcb_tid[s] /\ pos[v[i]] = i - 1
        <4>1. P(n - 1)
          BY <2>3
        <4>2. Climbed(pos, p, v)
          BY <4>1, <3>2, <3>3, <3>4
        <4> QED BY <4>2, <3>2, <3>4 DEF Climbed
      <3>6. PICK w : w = Append(v, s)
        OBVIOUS
      <3>7. /\ w \in Seq(Slots) /\ Len(w) = m + 2 /\ w[m + 2] = s
            /\ \A i \in 1 .. m + 1 : w[i] = v[i]
        BY <3>5, <3>6
      <3>8. ASSUME NEW i \in 1 .. m + 1
            PROVE  w[i] = parent_id[w[i + 1]]
        <4>1. CASE i = m + 1
          BY <4>1, <3>1, <3>5, <3>7
        <4>2. CASE i # m + 1
          <5>1. i \in 1 .. m /\ i + 1 \in 1 .. m + 1
            BY <4>2
          <5> QED BY <5>1, <3>5, <3>7
        <4> QED BY <4>1, <4>2
      <3>9. ASSUME NEW i \in 1 .. m + 2
            PROVE  active[w[i]] /\ pcb_tid[w[i]] = pcb_tid[s] /\ pos[w[i]] = i - 1
        <4>1. CASE i = m + 2
          BY <4>1, <3>4, <3>7, <2>2
        <4>2. CASE i # m + 2
          <5>1. i \in 1 .. m + 1
            BY <4>2
          <5> QED BY <5>1, <3>5, <3>7
        <4> QED BY <4>1, <4>2
      <3>10. Climbed(pos, s, w)
        <4>1. /\ pos[s] + 1 = m + 2 /\ 1 .. pos[s] = 1 .. m + 1
              /\ 1 .. pos[s] + 1 = 1 .. m + 2
          BY <3>4
        <4> QED BY <4>1, <3>7, <3>8, <3>9 DEF Climbed
      <3>11. w = Callers[n][s]
        BY <3>1, <3>3, <3>6, <2>4
      <3> QED BY <3>10, <3>11, <2>2
    <2> QED BY <2>5, <2>6
  <1> QED BY <1>1

(* The chain of a terminal is its call stack.                               *)
LEMMA StacksFromInv == IInv => Stacks
  <1> SUFFICES ASSUME IInv, NEW t \in Terminals
               PROVE  StackOf(t, CallStack(t)) /\ Promised!ToSet(CallStack(t)) = Members(t)
    BY DEF Stacks
  <1>0. TypeOK /\ CountMatches
    BY DEF IInv
  <1>1. PICK pos \in [Slots -> Nat] : Order(pos)
    BY DEF IInv, Strengthening, CallOrder
  <1>2. PICK w : w = CallStack(t)
    OBVIOUS
  <1>3. Promised!ToSet(w) = {w[i] : i \in DOMAIN w}
    BY DEF Promised!ToSet
  <1>4. CASE count_pcb[t] = 0
    <2>1. w = << >>
      BY <1>2, <1>4 DEF CallStack
    <2>2. Members(t) = {}
      BY <1>0, <1>1, <1>4 DEF Members, Order, TypeOK
    <2>3. StackOf(t, << >>)
      BY <1>4 DEF StackOf
    <2>4. Promised!ToSet(<< >>) = {}
      BY DEF Promised!ToSet
    <2> QED BY <2>1, <2>2, <2>3, <2>4, <1>2
  <1>5. CASE count_pcb[t] # 0
    <2>1. PICK f \in Slots : f = Front(t) /\ active[f] /\ pcb_tid[f] = t /\ pos[f] = count_pcb[t] - 1
      BY <1>1, <1>5 DEF Order
    <2>2. count_pcb[t] <= MAX_PCB
      <3>1. IsFiniteSet(Slots) /\ Cardinality(Slots) = MAX_PCB
        BY FS_Interval, SizeAssumption DEF Slots
      <3>2. Cardinality(Members(t)) <= MAX_PCB
        BY <3>1, FS_Subset DEF Members
      <3> QED BY <3>2, <1>0 DEF CountMatches
    <2>3. w = Callers[MAX_PCB][f]
      BY <1>2, <1>5, <2>1 DEF CallStack
    <2>4. pos[f] < MAX_PCB /\ MAX_PCB \in 0 .. MAX_PCB /\ count_pcb[t] \in Nat
      BY <2>1, <2>2, <1>0, SizeAssumption DEF TypeOK
    <2>5. /\ w \in Seq(Slots) /\ Len(w) = pos[f] + 1 /\ w[pos[f] + 1] = f
          /\ \A i \in 1 .. pos[f] : w[i] = parent_id[w[i + 1]]
          /\ \A i \in 1 .. pos[f] + 1 : active[w[i]] /\ pcb_tid[w[i]] = t /\ pos[w[i]] = i - 1
      <3>1. Climbed(pos, f, Callers[MAX_PCB][f])
        BY <2>1, <2>4, <1>0, <1>1, ClimbsUp
      <3> QED BY <3>1, <2>1, <2>3 DEF Climbed
    <2>6. Len(w) = count_pcb[t]
      BY <2>1, <2>4, <2>5
    <2>7. StackOf(t, w)
      BY <2>1, <2>4, <2>5, <2>6 DEF StackOf
    <2>8. Promised!ToSet(w) = Members(t)
      <3>1. \A i \in 1 .. Len(w) : w[i] \in Members(t)
        BY <2>5 DEF Members
      <3>2. ASSUME NEW s \in Members(t)
            PROVE  \E i \in 1 .. Len(w) : w[i] = s
        <4>1. s \in Slots /\ active[s] /\ pcb_tid[s] = t /\ pos[s] < count_pcb[t] /\ pos[s] \in Nat
          BY <1>1 DEF Members, Order
        <4>2. pos[s] + 1 \in 1 .. Len(w)
          BY <4>1, <2>4, <2>6
        <4>3. w[pos[s] + 1] \in Slots /\ pos[w[pos[s] + 1]] = pos[s]
              /\ active[w[pos[s] + 1]] /\ pcb_tid[w[pos[s] + 1]] = t
          BY <4>1, <4>2, <2>5
        <4>4. w[pos[s] + 1] = s
          BY <4>1, <4>3, <1>1 DEF Order
        <4> QED BY <4>2, <4>4
      <3>3. DOMAIN w = 1 .. Len(w)
        BY <2>5
      <3> QED BY <3>1, <3>2, <3>3, <1>3
    <2> QED BY <2>7, <2>8, <1>2
  <1> QED BY <1>4, <1>5

Linked(f, w) == \A i \in 1 .. Len(w) - 1 : w[i] = f[w[i + 1]]

(* The length, the last process and the links determine a call stack.        *)
LEMMA StackUnique ==
  ASSUME NEW f, NEW v \in Seq(Slots), NEW w \in Seq(Slots), Len(v) = Len(w),
         Len(w) # 0 => v[Len(w)] = w[Len(w)],
         Linked(f, v), Linked(f, w)
  PROVE  v = w
  <1> USE DEF Linked
  <1> DEFINE T == {k \in 0 .. Len(w) - 1 : v[Len(w) - k] # w[Len(w) - k]}
  <1>1. T = {}
    <2> SUFFICES ASSUME T # {} PROVE FALSE
      OBVIOUS
    <2>0. T \subseteq Nat /\ Len(w) \in Nat
      OBVIOUS
    <2>1. PICK k \in T : \A j \in T : k <= j
      BY <2>0, Smallest
    <2>2. k # 0 /\ k \in 0 .. Len(w) - 1
      BY <2>1
    <2>3. k - 1 \in 0 .. Len(w) - 1 /\ k - 1 \notin T
      <3>1. ~(k <= k - 1) /\ k - 1 \in 0 .. Len(w) - 1
        BY <2>0, <2>2
      <3> HIDE DEF T
      <3> QED BY <3>1, <2>1
    <2>4. v[Len(w) - k + 1] = w[Len(w) - k + 1]
      BY <2>1, <2>3
    <2>5. Len(w) - k \in 1 .. Len(w) - 1
      BY <2>1, <2>2
    <2> QED BY <2>1, <2>4, <2>5
  <1>2. ASSUME NEW i \in 1 .. Len(w)
        PROVE  v[i] = w[i]
    <2>1. Len(w) - i \in 0 .. Len(w) - 1 /\ Len(w) - (Len(w) - i) = i
      OBVIOUS
    <2> QED BY <2>1, <1>1
  <1> QED BY <1>2

(* The places taken are those of the live processes.                        *)
LEMMA UsedIs ==
  ASSUME TypeOK, Stacks
  PROVE  /\ Promised!Users = Terminals /\ \A u \in Terminals : CallStacks[u] = CallStack(u)
         /\ Promised!Used = {s \in Slots : active[s]}
  <1>1. Promised!Users = Terminals /\ \A u \in Terminals : CallStacks[u] = CallStack(u)
    BY DEF Promised!Users, Terminals, CallStacks
  <1>2. Promised!Used = UNION {Members(t) : t \in Terminals}
    BY <1>1 DEF Promised!Used, Stacks
  <1>3. UNION {Members(t) : t \in Terminals} = {s \in Slots : active[s]}
    BY DEF Members, TypeOK
  <1> QED BY <1>1, <1>2, <1>3

(* A terminal whose processes keep their links and order keeps its stack.    *)
LEMMA SameStack ==
  ASSUME Stacks, Stacks', NEW t \in Terminals,
         count_pcb'[t] = count_pcb[t], Front(t)' = Front(t),
         \A q \in Members(t) : parent_id'[q] = parent_id[q]
  PROVE  CallStack(t)' = CallStack(t)
  <1>1. PICK v, w, f : v = CallStack(t) /\ w = CallStack(t)' /\ f = parent_id'
    OBVIOUS
  <1>2. /\ v \in Seq(Slots) /\ Len(v) = count_pcb[t]
        /\ Len(v) # 0 => v[Len(v)] = Front(t)
        /\ \A i \in 1 .. Len(v) - 1 : v[i] = parent_id[v[i + 1]]
    BY <1>1 DEF Stacks, StackOf
  <1>3. /\ w \in Seq(Slots) /\ Len(w) = count_pcb'[t]
        /\ Len(w) # 0 => w[Len(w)] = Front(t)'
        /\ \A i \in 1 .. Len(w) - 1 : w[i] = f[w[i + 1]]
    BY <1>1 DEF Stacks, StackOf
  <1>4. \A i \in 1 .. Len(v) : v[i] \in Members(t)
    <2>1. Promised!ToSet(v) = Members(t)
      BY <1>1 DEF Stacks
    <2> QED BY <2>1, <1>2 DEF Promised!ToSet
  <1>5. \A i \in 1 .. Len(v) - 1 : v[i] = f[v[i + 1]]
    <2>1. \A q \in Members(t) : f[q] = parent_id[q]
      BY <1>1
    <2>2. ASSUME NEW i \in 1 .. Len(v) - 1
          PROVE  v[i] = parent_id[v[i + 1]] /\ v[i + 1] \in Members(t)
      <3>1. i + 1 \in 1 .. Len(v)
        BY <1>2
      <3> QED BY <3>1, <1>2, <1>4
    <2> QED BY <2>1, <2>2
  <1>6. v = w
    <2>1. Len(v) = Len(w) /\ (Len(w) # 0 => v[Len(w)] = w[Len(w)])
      BY <1>2, <1>3
    <2>2. Linked(f, v) /\ Linked(f, w)
      BY <2>1, <1>3, <1>5 DEF Linked
    <2>3. v \in Seq(Slots) /\ w \in Seq(Slots)
      BY <1>2, <1>3
    <2> QED BY <2>1, <2>2, <2>3, StackUnique
  <1> QED BY <1>1, <1>6

(* A sequence of length one is its first element.                           *)
LEMMA OneOnStack ==
  ASSUME NEW s, NEW w,
         w \in Seq(Slots), Len(w) = 1, w[1] = s
  PROVE  w = <<s>>
  OBVIOUS

(* The stacks after a step that changes the one of terminal t.              *)
LEMMA StacksExcept ==
  ASSUME NEW t \in Terminals, NEW x, CallStack(t)' = x,
         \A u \in Terminals : u # t => CallStack(u)' = CallStack(u)
  PROVE  CallStacks' = [CallStacks EXCEPT ![t] = x]
  BY DEF CallStacks

(* A base shell in a terminal without processes opens its session.          *)
LEMMA OpenStep ==
  ASSUME TypeOK, Stacks, Stacks', NEW t \in Terminals, NEW s \in Slots,
         ~active[s], count_pcb[t] = 0, count_pcb'[t] = 1, Front(t)' = s, scheduled' = t,
         \A q \in Slots : q # s => parent_id'[q] = parent_id[q],
         \A u \in Terminals : u # t => /\ count_pcb'[u] = count_pcb[u]
                                       /\ Front(u)' = Front(u)
  PROVE  Promised!Open(t, s)
  <1>1. CallStack(t)' = <<s>>
    <2>1. PICK w : w = CallStack(t)'
      OBVIOUS
    <2>2. StackOf(t, w)'
      BY <2>1 DEF Stacks
    <2>3. w \in Seq(Slots) /\ Len(w) = 1 /\ w[1] = s
      BY <2>2 DEF StackOf
    <2> QED BY <2>1, <2>3, OneOnStack
  <1>2. \A u \in Terminals : u # t => CallStack(u)' = CallStack(u)
    BY SameStack DEF Members
  <1>3. CallStacks' = [CallStacks EXCEPT ![t] = <<s>>]
    BY <1>1, <1>2, StacksExcept
  <1>4. CallStacks[t] = << >>
    BY UsedIs DEF CallStack
  <1>5. s \in Slots \ Promised!Used
    BY UsedIs
  <1> QED BY <1>3, <1>4, <1>5 DEF Promised!Open

(* A child loaded by the running process is called.                         *)
LEMMA CallStep ==
  ASSUME IInv, Stacks, Stacks', AllLaunched, Execute
  PROVE  \E s \in Slots : Promised!Call(s)
  <1> USE DEF IInv
  <1>0. PICK t \in Terminals, f \in Slots : t = scheduled /\ f = curr_pcb
    BY DEF TypeOK, Execute, SlotOrNull
  <1>1. PICK s \in Slots :
          /\ EmptyPcb(active, s)
          /\ LoadProcess(s, f, t, active, count_pcb, saved_esp, tss_esp0)
    BY <1>0 DEF Execute
  <1>2. /\ scheduled' = t /\ pcb_ptr' = pcb_ptr /\ ~active[s] /\ curr_pcb # Null
        /\ f \in SlotOrNull
    BY <1>0, <1>1 DEF Execute, EmptyPcb, SlotOrNull
  <1>3. Loaded(s, f, t, active, count_pcb, saved_esp, tss_esp0)
    BY <1>1, <1>2, LoadFacts DEF TypeOK
  <1>4. Front(t) = f /\ count_pcb[t] # 0 /\ count_pcb[t] \in Nat
    BY <1>0, <1>2, RunningFacts DEF TypeOK
  <1>5. count_pcb'[t] = count_pcb[t] + 1
    <2>1. count_pcb[t] # MaxCount
      <3>1. ~active[s] /\ t \in Terminals
        BY <1>0, <1>2
      <3> QED BY <1>1, <3>1, RoomLeft
    <2> QED BY <2>1, <1>3 DEF Loaded
  <1>6. /\ Front(t)' = s /\ \A u \in Terminals : u # t => Front(u)' = Front(u)
    BY <1>0, <1>2, <1>3 DEF Front, Loaded
  <1>7. PICK v : v = CallStack(t)
    OBVIOUS
  <1>8. /\ v \in Seq(Slots) /\ Len(v) = count_pcb[t] /\ v[Len(v)] = f
        /\ \A i \in 1 .. Len(v) - 1 : v[i] = parent_id[v[i + 1]]
    BY <1>4, <1>7 DEF Stacks, StackOf
  <1>9. \A i \in 1 .. Len(v) : v[i] # s
    <2>1. Promised!ToSet(v) = Members(t)
      BY <1>7 DEF Stacks
    <2> QED BY <2>1, <1>2, <1>8 DEF Promised!ToSet, Members
  <1>10. CallStack(t)' = Append(v, s)
    <2>1. PICK w, x, g : w = CallStack(t)' /\ x = Append(v, s) /\ g = parent_id'
      OBVIOUS
    <2>2. StackOf(t, w)'
      BY <2>1 DEF Stacks
    <2>3. /\ w \in Seq(Slots) /\ Len(w) = Len(v) + 1 /\ w[Len(w)] = s
          /\ \A i \in 1 .. Len(w) - 1 : w[i] = g[w[i + 1]]
      BY <2>1, <2>2, <1>4, <1>5, <1>6, <1>8 DEF StackOf
    <2>4. /\ x \in Seq(Slots) /\ Len(x) = Len(v) + 1 /\ x[Len(v) + 1] = s
          /\ \A i \in 1 .. Len(v) : x[i] = v[i]
      BY <2>1, <1>8
    <2>5. ASSUME NEW i \in 1 .. Len(w) - 1
          PROVE  x[i] = g[x[i + 1]]
      <3>1. Len(v) \in Nat /\ i \in 1 .. Len(v)
        BY <2>3, <1>8
      <3>2. CASE i = Len(v)
        <4>1. g[s] = f
          BY <2>1, <1>3, <1>4 DEF Loaded
        <4> QED BY <4>1, <3>1, <3>2, <2>4, <1>8
      <3>3. CASE i # Len(v)
        <4>1. i + 1 \in 1 .. Len(v) /\ i \in 1 .. Len(v) - 1
          BY <3>1, <3>3
        <4>2. v[i + 1] \in Slots /\ v[i + 1] # s
          BY <4>1, <1>8, <1>9
        <4>3. g[v[i + 1]] = parent_id[v[i + 1]]
          BY <4>2, <2>1, <1>3 DEF Loaded
        <4> QED BY <4>1, <4>3, <3>1, <2>4, <1>8
      <3> QED BY <3>2, <3>3
    <2>6. Len(x) = Len(w) /\ (Len(w) # 0 => x[Len(w)] = w[Len(w)])
      BY <2>3, <2>4
    <2>7. Linked(g, x) /\ Linked(g, w)
      BY <2>3, <2>5, <2>6 DEF Linked
    <2>8. x = w
      BY <2>3, <2>4, <2>6, <2>7, StackUnique
    <2> QED BY <2>1, <2>8
  <1>11. \A u \in Terminals : u # t => CallStack(u)' = CallStack(u)
    <2>1. \A u \in Terminals : u # t => \A q \in Members(u) : parent_id'[q] = parent_id[q]
      BY <1>2, <1>3 DEF Loaded, Members
    <2>2. \A u \in Terminals : u # t => count_pcb'[u] = count_pcb[u]
      BY <1>3 DEF Loaded
    <2> QED BY <2>1, <2>2, <1>6, SameStack
  <1>12. CallStacks' = [CallStacks EXCEPT ![t] = Append(v, s)]
    BY <1>10, <1>11, StacksExcept
  <1>13. CallStacks[t] = v /\ v # << >>
    BY <1>4, <1>7, <1>8, UsedIs
  <1>14. s \in Slots \ Promised!Used
    BY <1>2, UsedIs
  <1>15. Promised!Call(s)
    BY <1>0, <1>2, <1>12, <1>13, <1>14 DEF Promised!Call
  <1> QED BY <1>15

(* halt() returns to the caller.                                            *)
LEMMA ReturnStep ==
  ASSUME IInv, Stacks, Stacks', Halt
  PROVE  Promised!Return
  <1> USE DEF IInv
  <1>0. PICK t \in Terminals, f \in Slots, p \in Slots :
          t = scheduled /\ f = curr_pcb /\ p = parent_id[curr_pcb]
    BY DEF Halt, TypeOK, SlotOrNull
  <1>1. /\ scheduled' = t /\ pcb_ptr' = pcb_ptr /\ curr_pcb' = p
        /\ parent_id' = parent_id /\ curr_pcb # Null
    BY <1>0 DEF Halt
  <1>2. Front(t) = f /\ count_pcb[t] # 0 /\ count_pcb[t] \in Nat
    BY <1>0, <1>1, RunningFacts DEF TypeOK
  <1>3. /\ count_pcb'[t] = count_pcb[t] - 1
        /\ \A u \in Terminals : u # t => count_pcb'[u] = count_pcb[u]
    BY <1>0, <1>2 DEF Halt, TypeOK, Down
  <1>4. /\ Front(t)' = p /\ \A u \in Terminals : u # t => Front(u)' = Front(u)
    BY <1>0, <1>1 DEF Front
  <1>5. count_pcb[t] > 1
    <2>1. PICK pos \in [Slots -> Nat] : Order(pos)
      BY DEF Strengthening, CallOrder
    <2>2. active[f] /\ pcb_tid[f] = t
      BY <1>0, <1>1, RunningFacts
    <2>3. pos[f] = pos[p] + 1 /\ pos[f] < count_pcb[t]
      BY <2>1, <2>2, <1>0 DEF Order, Null, Slots
    <2> QED BY <2>3, <1>2
  <1>6. PICK v : v = CallStack(t)
    OBVIOUS
  <1>7. /\ v \in Seq(Slots) /\ Len(v) = count_pcb[t] /\ v[Len(v)] = f
        /\ \A i \in 1 .. Len(v) - 1 : v[i] = parent_id[v[i + 1]]
    BY <1>2, <1>6 DEF Stacks, StackOf
  <1>8. CallStack(t)' = SubSeq(v, 1, Len(v) - 1)
    <2>1. PICK w, x : w = CallStack(t)' /\ x = SubSeq(v, 1, Len(v) - 1)
      OBVIOUS
    <2>2. StackOf(t, w)'
      BY <2>1 DEF Stacks
    <2>3. /\ w \in Seq(Slots) /\ Len(w) = Len(v) - 1 /\ w[Len(w)] = p
          /\ \A i \in 1 .. Len(w) - 1 : w[i] = parent_id[w[i + 1]]
      BY <2>2, <1>1, <1>2, <1>3, <1>4, <1>5, <1>7 DEF StackOf
    <2>4. /\ x \in Seq(Slots) /\ Len(x) = Len(v) - 1
          /\ \A i \in 1 .. Len(v) - 1 : x[i] = v[i]
      BY <2>1, <1>2, <1>5, <1>7
    <2>5. x[Len(w)] = p
      <3>1. Len(v) - 1 \in 1 .. Len(v) - 1 /\ Len(v) - 1 + 1 = Len(v)
        BY <1>2, <1>5, <1>7
      <3> QED BY <3>1, <2>3, <2>4, <1>0, <1>7
    <2>6. ASSUME NEW i \in 1 .. Len(w) - 1
          PROVE  x[i] = parent_id[x[i + 1]]
      <3>1. i \in 1 .. Len(v) - 1 /\ i + 1 \in 1 .. Len(v) - 1
        BY <2>3, <1>7
      <3> QED BY <3>1, <2>4, <1>7
    <2>7. x = w
      <3>1. Linked(parent_id, x) /\ Linked(parent_id, w) /\ Len(x) = Len(w)
            /\ (Len(w) # 0 => x[Len(w)] = w[Len(w)])
        BY <2>3, <2>4, <2>5, <2>6 DEF Linked
      <3> QED BY <3>1, <2>3, <2>4, StackUnique
    <2> QED BY <2>1, <2>7
  <1>9. \A u \in Terminals : u # t => CallStack(u)' = CallStack(u)
    BY <1>1, <1>3, <1>4, SameStack
  <1>10. CallStacks' = [CallStacks EXCEPT ![t] = SubSeq(v, 1, Len(v) - 1)]
    BY <1>8, <1>9, StacksExcept
  <1>11. CallStacks[t] = v /\ Len(v) > 1
    BY <1>5, <1>6, <1>7, UsedIs
  <1> QED BY <1>0, <1>1, <1>10, <1>11 DEF Promised!Return, Promised!Front

(* A new base shell takes the place of one that has halted.                  *)
LEMMA RestartStep ==
  ASSUME IInv, Stacks, Stacks', HaltBase
  PROVE  \E s \in Slots : Promised!Restart(s)
  <1> USE DEF IInv
  <1>1. PICK t \in Terminals, f \in Slots : t = scheduled /\ f = curr_pcb
    BY DEF TypeOK, HaltBase, SlotOrNull
  <1> DEFINE act == [active EXCEPT ![f] = FALSE]
             cnt == [count_pcb EXCEPT ![t] = Down(@)]
  <1>2. PICK s \in Slots :
          /\ EmptyPcb(act, s)
          /\ LoadProcess(s, f, t, act, cnt, saved_esp, tss_esp0)
    BY <1>1 DEF HaltBase
  <1>3. /\ scheduled' = t /\ pcb_ptr' = pcb_ptr /\ curr_pcb # Null
        /\ parent_id[f] = Null /\ f \in SlotOrNull
    BY <1>1 DEF HaltBase, SlotOrNull
  <1>4. /\ active[f] /\ pcb_tid[f] = t /\ Front(t) = f /\ count_pcb[t] = 1
    BY <1>1, <1>3, RunningFacts
  <1>5. /\ act \in [Slots -> BOOLEAN] /\ ~act[s]
        /\ \A q \in Slots : q # f => (act[q] <=> active[q])
    BY <1>2 DEF TypeOK, EmptyPcb
  <1>6. /\ cnt \in [Terminals -> 0 .. MaxCount] /\ cnt[t] = 0
        /\ \A u \in Terminals : u # t => cnt[u] = count_pcb[u]
    BY <1>4, SizeAssumption DEF TypeOK, Down
  <1> HIDE DEF act, cnt
  <1>7. Loaded(s, f, t, act, cnt, saved_esp, tss_esp0)
    BY <1>2, <1>3, <1>5, <1>6, LoadFacts DEF TypeOK
  <1>8. count_pcb'[t] = 1
    BY <1>6, <1>7, SizeAssumption DEF Loaded
  <1>9. /\ Front(t)' = s /\ \A u \in Terminals : u # t => Front(u)' = Front(u)
    BY <1>1, <1>3, <1>7 DEF Front, Loaded
  <1>10. CallStack(t)' = <<s>>
    <2>1. PICK w : w = CallStack(t)'
      OBVIOUS
    <2>2. StackOf(t, w)'
      BY <2>1 DEF Stacks
    <2>3. w \in Seq(Slots) /\ Len(w) = 1 /\ w[1] = s
      BY <2>2, <1>8, <1>9 DEF StackOf
    <2> QED BY <2>1, <2>3, OneOnStack
  <1>11. \A u \in Terminals : u # t => CallStack(u)' = CallStack(u)
    <2>1. \A u \in Terminals : u # t => s \notin Members(u)
      BY <1>4, <1>5 DEF Members
    <2>2. \A u \in Terminals : u # t => \A q \in Members(u) : parent_id'[q] = parent_id[q]
      BY <2>1, <1>7 DEF Loaded, Members
    <2>3. \A u \in Terminals : u # t => count_pcb'[u] = count_pcb[u]
      BY <1>6, <1>7 DEF Loaded
    <2> QED BY <2>2, <2>3, <1>9, SameStack
  <1>12. CallStacks' = [CallStacks EXCEPT ![t] = <<s>>]
    BY <1>10, <1>11, StacksExcept
  <1>13. CallStacks[t] = CallStack(t) /\ Promised!Used = {q \in Slots : active[q]}
    BY UsedIs
  <1>14. Len(CallStack(t)) = 1 /\ Promised!ToSet(CallStack(t)) = Members(t)
    BY <1>4 DEF Stacks, StackOf
  <1>15. s \in Slots \ (Promised!Used \ Promised!ToSet(CallStack(t)))
    BY <1>4, <1>5, <1>13, <1>14 DEF Members
  <1>16. Promised!Restart(s)
    BY <1>1, <1>3, <1>12, <1>13, <1>14, <1>15 DEF Promised!Restart
  <1> QED BY <1>16

(* The first execute("shell") opens the session of its terminal.              *)
LEMMA BootOpens ==
  ASSUME IInv, Stacks, Stacks', Boot
  PROVE  \E s \in Slots : Promised!Open(scheduled, s)
  <1> USE DEF IInv
  <1>1. PICK t \in Terminals : t = scheduled
    BY DEF TypeOK
  <1>2. PICK s \in Slots :
          /\ EmptyPcb(active, s)
          /\ LoadProcess(s, Null, t, active, count_pcb, saved_esp, tss_esp0)
    BY <1>1 DEF Boot
  <1>3. /\ scheduled' = t /\ pcb_ptr' = pcb_ptr /\ count_pcb[t] = 0
        /\ Null \in SlotOrNull /\ ~active[s]
    BY <1>1, <1>2 DEF Boot, Strengthening, Started, EmptyPcb, SlotOrNull
  <1>4. Loaded(s, Null, t, active, count_pcb, saved_esp, tss_esp0)
    BY <1>2, <1>3, LoadFacts DEF TypeOK
  <1>5. count_pcb'[t] = 1
    BY <1>3, <1>4, SizeAssumption DEF Loaded
  <1>6. /\ Front(t)' = s /\ \A u \in Terminals : u # t => Front(u)' = Front(u)
    BY <1>1, <1>3, <1>4 DEF Front, Loaded
  <1>7. Promised!Open(t, s)
    BY <1>3, <1>4, <1>5, <1>6, OpenStep DEF Loaded
  <1> QED BY <1>1, <1>7

(* A tick on a terminal without processes opens its session.                *)
LEMMA LaunchOpens ==
  ASSUME IInv, Stacks, Stacks', TickLaunch
  PROVE  \E s \in Slots : Promised!Open(NextTerminal(scheduled), s)
  <1> USE DEF IInv
  <1>1. PICK t \in Terminals, cp \in SlotOrNull,
             sav \in [Slots -> FrameKinds], te \in [Slots -> SlotOrNull] :
          /\ t = NextTerminal(scheduled) /\ cp = PcbAfterTick(t)
          /\ sav = SavedOnTick /\ te = TssOnTick
    BY OnTickType DEF PcbAfterTick, TypeOK
  <1>2. PICK s \in Slots :
          /\ EmptyPcb(active, s)
          /\ LoadProcess(s, cp, t, active, count_pcb, sav, te)
    BY <1>1 DEF TickLaunch
  <1>3. /\ count_pcb[t] = 0 /\ scheduled' = t /\ pcb_ptr' = PtrOnTick /\ ~active[s]
    BY <1>1, <1>2 DEF TickLaunch, EmptyPcb
  <1>4. Loaded(s, cp, t, active, count_pcb, sav, te)
    BY <1>1, <1>2, LoadFacts DEF TypeOK
  <1>5. count_pcb'[t] = 1
    BY <1>3, <1>4, SizeAssumption DEF Loaded
  <1>6. /\ Front(t)' = s /\ \A u \in Terminals : u # t => Front(u)' = Front(u)
    BY <1>3, <1>4, TickFront DEF Front, Loaded
  <1>7. Promised!Open(t, s)
    BY <1>3, <1>4, <1>5, <1>6, OpenStep DEF Loaded
  <1> QED BY <1>1, <1>7

(* A tick that switches to another process passes the turn.                 *)
LEMMA PassStep ==
  ASSUME IInv, Stacks, Stacks', TickResume
  PROVE  Promised!Pass
  <1> USE DEF IInv
  <1>1. PICK t \in Terminals : t = NextTerminal(scheduled)
    BY OnTickType
  <1>2. /\ count_pcb[t] # 0 /\ scheduled' = t /\ pcb_ptr' = PtrOnTick
        /\ curr_pcb' = PtrOnTick[t] /\ parent_id' = parent_id /\ count_pcb' = count_pcb
    BY <1>1 DEF TickResume
  <1>3. \A u \in Terminals : Front(u)' = Front(u)
    BY <1>2, TickFront DEF Front
  <1>4. \A u \in Terminals : CallStack(u)' = CallStack(u)
    BY <1>2, <1>3, SameStack
  <1>5. CallStacks' = CallStacks
    BY <1>4 DEF CallStacks
  <1>6. CallStacks[t] # << >>
    BY <1>2, UsedIs DEF Stacks, StackOf
  <1> QED BY <1>1, <1>2, <1>5, <1>6 DEF Promised!Pass, NextTerminal

(* Every step of the machine used as intended does to the call stacks what    *)
(* Sessions says, or nothing.                                              *)
LEMMA SessionsStep ==
  ASSUME IInv, Stacks, Stacks', [QuietNext]_vars
  PROVE  [Promised!Next]_<<CallStacks, scheduled>>
  <1>1. CASE Boot
    BY <1>1, BootOpens DEF Promised!Next
  <1>2. CASE TickResume
    BY <1>2, PassStep DEF Promised!Next
  <1>3. CASE TickLaunch
    BY <1>3, LaunchOpens DEF Promised!Next, NextTerminal
  <1>4. CASE AllLaunched /\ Execute
    BY <1>4, CallStep DEF Promised!Next
  <1>5. CASE Halt
    BY <1>5, ReturnStep DEF Promised!Next
  <1>6. CASE HaltBase
    BY <1>6, RestartStep DEF Promised!Next
  <1>7. CASE (AllLaunched /\ ExecuteFails) \/ UNCHANGED vars
    <2>1. UNCHANGED <<curr_pcb, scheduled, pcb_ptr, count_pcb, parent_id>>
      BY <1>7 DEF ExecuteFails, vars, pcbVars, termVars, cpuVars
    <2>2. \A u \in Terminals : CallStack(u)' = CallStack(u)
      BY <2>1, SameStack DEF Front
    <2>3. CallStacks' = CallStacks
      BY <2>2 DEF CallStacks
    <2> QED BY <2>1, <2>3
  <1> QED BY <1>1, <1>2, <1>3, <1>4, <1>5, <1>6, <1>7 DEF QuietNext

(* Before the first process no terminal has a session.                      *)
LEMMA SessionsInit == Init => Promised!Init
  BY DEF Init, Promised!Init, Promised!Users, CallStacks, CallStack, Terminals

(* ImplementsSessions without its fairness: with every interleaving of         *)
(* execute(), halt() and ticks, the parent links, pcb_ptr and count_pcb of *)
(* the PCB table and the terminals hold one call stack per terminal, which *)
(* a handler pushes, pops, restarts or leaves alone as Sessions says.      *)
SessionsSafe == Promised!Init /\ [][Promised!Next]_<<CallStacks, scheduled>>
THEOREM SessionsImplemented == QuietSpec => SessionsSafe
  <1>1. IInv /\ Stacks /\ Stacks' /\ [QuietNext]_vars => [Promised!Next]_<<CallStacks, scheduled>>
    BY SessionsStep
  <1>2. QuietSpec => Init /\ [][QuietNext]_vars
    BY PTL DEF QuietSpec
  <1> QED BY <1>1, <1>2, SessionsInit, StacksFromInv, Inductive, PTL DEF SessionsSafe
=============================================================================
